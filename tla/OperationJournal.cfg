SPECIFICATION JournalFairSpec
CONSTANTS
  Packages = {ssu, app}
  Rebooting = {ssu}
  Ssu = {ssu}
  ssu = ssu
  app = app
  NoPackage = NoPackage
  MaxLosses = 2
  MaxInstalls = 2
INVARIANTS
  UpMeansTried
PROPERTIES
  ComesUpAgain
CHECK_DEADLOCK FALSE
