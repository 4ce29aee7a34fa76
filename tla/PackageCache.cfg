SPECIFICATION Spec
CONSTANTS
  Packages <- AllPackages
  UserPackages = {"app", "tool"}
  Rebooting = {"app"}
  Available <- Newest
  Needs <- NeedsOf
  Against <- AgainstOf
  Replaces <- ReplacesOf
  Trust <- TrustOf
  Configs <- ConfigsOf
  Sources <- SourcesOf
  Start <- StartOf
  Garbled = {0, 3}
  MaxEvents = 3
INVARIANTS
  CacheInv
  NothingBrokenSoftly
PROPERTIES
  NoSurprises
  NoSilentLowering
CHECK_DEADLOCK FALSE
