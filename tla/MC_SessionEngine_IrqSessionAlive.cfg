CONSTANTS
  Clients <- MC_Clients
  Sids <- MC_Sids
  McpSid = McpSid
  NULL = NULL
  MaxOpens = 2
  MaxRequests = 3
  MaxNotifs = 1
  MaxStale = 1
SPECIFICATION Spec
INVARIANT IrqSessionAlive
CHECK_DEADLOCK FALSE
