SPECIFICATION Spec
CONSTANTS
  home = p1
  Places = {p1, p2}
  Packages = {k1}
  NoPackage = NoPackage
  Home <- HomeOfAll
  Listable = {p1}
  Addable = {p1}
  MaxEvents = 3
INVARIANT
  AllServed
CHECK_DEADLOCK FALSE
