SPECIFICATION Spec
CONSTANTS
  Calls = {c1, c2}
  MaxDialogs = 1
  MaxTasks = 1
  MaxGets = 2
PROPERTY
  NoReplyLost
CHECK_DEADLOCK FALSE
