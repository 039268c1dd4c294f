SPECIFICATION MCSpec
CONSTANTS
  n1 = n1
  geth = geth
  Nodes = {n1, n2}
  Handlers = {n1}
  Clients = {geth, nethermind}
  Inline = {n1}
  Ttl = 0
  NoName = NoName
  None = None
  MaxRequests = 1
  MaxChanges = 1
  MaxTroubles = 1
INVARIANTS
  DnsTypeOK
  LeftBehindIsExplained
PROPERTIES
  RegistersAgain
