SPECIFICATION Spec
CONSTANTS
  Provider = "ufw"
  Policy = "deny"
  Rules <- MCRules
  Management <- MCManagement
  Gateways <- MCGateways
  AgentPort = 19000
  Occurs <- MCOccurs
  Requests = {h1}
  MaxRequests = 2
  MaxTroubles = 2
INVARIANT AppliedIsInForce
