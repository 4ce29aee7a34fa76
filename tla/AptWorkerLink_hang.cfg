SPECIFICATION FairSpec
CONSTANTS
  MaxCalls = 2
  MaxCancelBytes = 1
  PipeCapacity = 1
  DownloadToMMC = TRUE
PROPERTIES
  ExitIsNoticed
CHECK_DEADLOCK FALSE
