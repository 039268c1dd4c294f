SPECIFICATION Spec
CONSTANTS
  Inventories <- MCInventories
  Targets <- MCTargets
  SkipPreflight = FALSE
  MaxTroubles = 2
  MaxCommands = 2
INVARIANTS
  TypeOK
  CordonLeftIsExplained
PROPERTIES
  ImplementsPlan
  ClientsComeBack
CHECK_DEADLOCK FALSE
