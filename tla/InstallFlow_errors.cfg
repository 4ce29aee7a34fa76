SPECIFICATION Spec
CONSTANTS
  Kinds = {app}
  Rebooting = {}
  Ssu = {}
  Iaps = {i1}
  HomeMode = "normal"
  MaxPackages = 1
  MaxUpgrades = 0
  MaxFlows = 1
INVARIANT
  ErrorsReported
CHECK_DEADLOCK FALSE
