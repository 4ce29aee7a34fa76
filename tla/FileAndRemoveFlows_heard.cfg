SPECIFICATION Spec
CONSTANTS
  Files = {f1, f2}
  MaxTasks = 3
  MaxScripts = 2
INVARIANTS
  FilesHeard
CHECK_DEADLOCK FALSE
