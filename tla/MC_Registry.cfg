SPECIFICATION Spec
CONSTANTS
  Spids = {s1}
  SpidSystem = spidSystem
  SpidsOver = {sOver}
  Uuids <- MC_Uuids
  Pids = {p1}
  MaxOps = 6
  s1 = s1
  u1 = u1
  u2 = u2
  p1 = p1
  spidSystem = spidSystem
  sOver = sOver
SYMMETRY MC_Symmetry
INVARIANT TypeOK
PROPERTY CleanupBottomUp
CHECK_DEADLOCK FALSE
