CONSTANTS
  Clients <- MC_Clients
  Sids <- MC_Sids
  McpSid = McpSid
  NULL = NULL
  MaxOpens = 2
  MaxRequests = 3
  MaxNotifs = 1
  MaxStale = 0
SPECIFICATION Spec
INVARIANT TypeOK
INVARIANT TableMirrorsSwd
PROPERTY GpSessionsReaped
CHECK_DEADLOCK FALSE
