SPECIFICATION Spec
CONSTANTS
  Requested <- MCRequested
  Nodes <- MCNodes
  MaxUnavailable = 2
  Ticks = 1
  MaxTroubles = 1
  SkipPreflight = FALSE
  Pauses = TRUE
PROPERTY WaitedForSync
CHECK_DEADLOCK FALSE
