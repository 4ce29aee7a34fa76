SPECIFICATION Spec
CONSTANTS
  Files = {f1, f2}
  MaxTasks = 3
  MaxScripts = 2
INVARIANTS
  AssertionsHold
CHECK_DEADLOCK FALSE
