SPECIFICATION Spec
CONSTANTS
  execution = execution
  consensus = consensus
  Order <- MCOrder
  Requests = {h1}
  Images = {i1, i2}
  First = i1
  NoImage = NoImage
  Broken = {execution}
  MaxFaults = 1
  MaxCrashes = 1
  MaxEdits = 1
INVARIANTS
  TypeOK
  DownIsExplained
  CordonQuietsLoop
PROPERTIES
  LoopKeepsClientsUp
