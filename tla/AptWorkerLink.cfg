SPECIFICATION FairSpec
CONSTANTS
  MaxCalls = 3
  MaxCancelBytes = 2
  PipeCapacity = 2
  DownloadToMMC = FALSE
INVARIANTS
  CancelHitsOwner
PROPERTIES
  ImplementsService
  EveryCallCompleted
  BackendEndsAfterStartup
CHECK_DEADLOCK FALSE
