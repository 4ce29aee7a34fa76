SPECIFICATION FairSpec
CONSTANTS
  Calls = {c1, c2, c3}
  MaxDialogs = 1
  MaxTasks = 1
  MaxGets = 2
INVARIANTS
  InteractionInv
  EveryCallAccounted
PROPERTIES
  ExitAfterReplies
  WaitersServed
CHECK_DEADLOCK FALSE
