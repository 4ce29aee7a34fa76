SPECIFICATION ListsSpec
CONSTANTS
  Repositories = {r1}
  r1 = r1
  MaxVersion = 2
  MaxCrashes = 2
INVARIANT OldFilesKept
