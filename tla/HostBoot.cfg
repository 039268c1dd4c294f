SPECIFICATION Spec
CONSTANTS
  Clients = {execution, consensus}
  Requests = {h1}
  MaxRequests = 1
  MaxTroubles = 2
  MaxReboots = 2
INVARIANTS
  TypeOK
  SecretsAgree
PROPERTIES
  DataIsKept
  AgentServes
  ProvisionedInTheEnd
CHECK_DEADLOCK FALSE
