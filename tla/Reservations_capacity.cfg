SPECIFICATION Spec
CONSTANTS
  t1 = t1  t2 = t2  t3 = t3
  o1 = o1  o2 = o2  o3 = o3
  w1 = w1  w2 = w2  sA = sA  sB = sB
  Orders = {o1, o2, o3}
  Warehouses = {w1}
  Skus = {sA}
  Requests <- OneSkuRequests
  Calls = {t1, t2}
  Rank <- KeyRank
  TTL = 1
  MaxClock = 2
  Pausable = {}
  NoOrder = NoOrder
  NoRequest = NoRequest
  NoWrite = NoWrite
INVARIANT TypeOK
INVARIANT NoOversell
INVARIANT LaterWeighedEarlier
INVARIANT IInv
PROPERTY OnlyLapsedSwept
SYMMETRY OrderAndCallSymmetry
