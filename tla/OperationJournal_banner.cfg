SPECIFICATION JournalSpec
CONSTANTS
  Packages = {ssu, reb}
  Rebooting = {ssu, reb}
  Ssu = {ssu}
  ssu = ssu
  reb = reb
  NoPackage = NoPackage
  MaxLosses = 0
  MaxInstalls = 2
PROPERTY BannerOnlyOnSuccess
CHECK_DEADLOCK FALSE
