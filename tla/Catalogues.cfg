SPECIFICATION Spec
CONSTANTS
  home = p1
  Places = {p1, p2}
  Packages = {k1}
  NoPackage = NoPackage
  Home <- HomeOfAll
  Listable = {p1}
  Addable = {p1}
  MaxEvents = 3
INVARIANTS
  CataloguesInv
  SourcesFollow
  InstructionServed
  ErrorsBelong
PROPERTY
  RefreshKeeps
CHECK_DEADLOCK FALSE
