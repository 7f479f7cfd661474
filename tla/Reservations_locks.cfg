SPECIFICATION Spec
CONSTANTS
  t1 = t1  t2 = t2  t3 = t3
  o1 = o1  o2 = o2  o3 = o3
  w1 = w1  w2 = w2  sA = sA  sB = sB
  Orders = {o1, o2}
  Warehouses = {w1}
  Skus = {sA, sB}
  Requests <- TwoSkuRequests
  Calls = {t1, t2}
  Rank <- KeyRank
  TTL = 2
  MaxClock = 2
  Pausable = {w1}
  NoOrder = NoOrder
  NoRequest = NoRequest
  NoWrite = NoWrite
INVARIANT LiveClaimIsWhole
INVARIANT NoAdvisoryDeadlock
PROPERTY PausedTakesNoClaim
SYMMETRY OrderAndCallSymmetry
