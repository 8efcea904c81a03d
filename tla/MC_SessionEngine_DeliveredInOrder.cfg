CONSTANTS
  Clients <- MC_Clients
  Sids <- MC_Sids
  McpSid = McpSid
  NULL = NULL
  MaxOpens = 2
  MaxRequests = 3
  MaxNotifs = 2
  MaxStale = 0
SPECIFICATION Spec
INVARIANT DeliveredInOrder
CHECK_DEADLOCK FALSE
