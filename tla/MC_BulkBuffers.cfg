SPECIFICATION Spec
CONSTANTS
  Clients <- MC_Clients
  L2Of <- MC_L2Of
  ContOf <- MC_ContOf
  ContSize <- MC_ContSize
  Bogus = 4
  NoHandle = 0
  Lens = {0, 1, 2}
  BlobLen = 2
  MaxOpens = 2
  MaxRequests = 4
  NULL = NULL
INVARIANT TypeOK BuffersLocked
CHECK_DEADLOCK FALSE
