SPECIFICATION Spec
CONSTANTS
  Dirs <- MCDirs
  Unserved <- MCUnserved
  Requests = {h1}
  MaxTroubles = 2
INVARIANTS
  TypeOK
  MarkedIsWhole
  MixedOnlyByCrossing
PROPERTIES
  ClientsGetStarted
