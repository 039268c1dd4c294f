SPECIFICATION ServingSpec
CONSTANTS
  Keep = 1
  MaxHeight = 2
  MaxStamp = 2
  MaxTroubles = 2
INVARIANTS
  TypeOK
  LatestIsServed
  RestartedAfterwards
  AskedIsServed
PROPERTIES
  ComesBack
