SPECIFICATION FairSpec
CONSTANTS
  Kinds = {app, os, ssu}
  Rebooting = {os}
  Ssu = {os, ssu}
  Iaps = {i1, i2}
  HomeMode = "normal"
  MaxPackages = 2
  MaxUpgrades = 1
  MaxFlows = 2
INVARIANTS
  OneContinuation
  EndsClean
  RebootsLast
PROPERTIES
  EndsOrAsks
CHECK_DEADLOCK FALSE
