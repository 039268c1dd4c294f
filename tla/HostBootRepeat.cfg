SPECIFICATION Spec
CONSTANTS
  Clients = {execution, consensus}
  Requests = {h1}
  MaxRequests = 1
  MaxTroubles = 2
  MaxReboots = 2
PROPERTY SafeToRepeat
CHECK_DEADLOCK FALSE
