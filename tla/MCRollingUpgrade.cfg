SPECIFICATION Spec
CONSTANTS
  Requested <- MCRequested
  Nodes <- MCNodes
  MaxUnavailable = 2
  Ticks = 1
  MaxTroubles = 1
  SkipPreflight = FALSE
  Pauses = TRUE
INVARIANTS
  TypeOK
  AtMostMaxUnavailable
  ReturnIsComplete
  CordonIsAccountedFor
PROPERTIES
  ImplementsPlan
  CallReturns
  ClientsComeBack
CHECK_DEADLOCK FALSE
