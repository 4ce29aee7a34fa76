SPECIFICATION FairSpec
CONSTANTS
  Files = {f1, f2}
  MaxTasks = 3
  MaxScripts = 2
INVARIANTS
  FlowsBalanced
PROPERTIES
  FlowsEndOrAsk
CHECK_DEADLOCK FALSE
