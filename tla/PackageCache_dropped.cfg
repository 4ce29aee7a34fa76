SPECIFICATION Spec
CONSTANTS
  Packages <- AllPackages
  UserPackages = {"app", "old", "tool"}
  Rebooting = {}
  Available <- TwoNewest
  Needs <- BrokenNeedsOf
  Against <- BrokenAgainstOf
  Replaces <- BrokenAgainstOf
  Trust <- TrustOf
  Configs <- ConfigsOf
  Sources <- BrokenSourcesOf
  Start <- BrokenStartOf
  Garbled = {0, 3}
  MaxEvents = 3
PROPERTIES
  UserPackagesAlwaysStay
CHECK_DEADLOCK FALSE
