SPECIFICATION Spec
CONSTANTS
  Addrs <- MC_Addrs
  MaxGen = 3
  MaxOpens = 2
  NULL = NULL
  a1 = a1
  a2 = a2
SYMMETRY MC_Symmetry
INVARIANT TypeOK StaleOwnerOnlyAfterFailedClose
CHECK_DEADLOCK FALSE
