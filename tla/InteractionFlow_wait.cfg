SPECIFICATION FairSpec
CONSTANTS
  Calls = {c1, c2}
  MaxDialogs = 1
  MaxTasks = 1
  MaxGets = 2
PROPERTY
  CallsServed
CHECK_DEADLOCK FALSE
