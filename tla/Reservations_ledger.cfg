SPECIFICATION FairSpec
CONSTANTS
  t1 = t1  t2 = t2  t3 = t3
  o1 = o1  o2 = o2  o3 = o3
  w1 = w1  w2 = w2  sA = sA  sB = sB
  Orders = {o1, o2}
  Warehouses = {w1, w2}
  Skus = {sA}
  Requests <- TwoWarehouseRequests
  Calls = {t1, t2}
  Rank <- KeyRank
  TTL = 1
  MaxClock = 1
  Pausable = {}
  NoOrder = NoOrder
  NoRequest = NoRequest
  NoWrite = NoWrite
PROPERTY ImplementsLedger
PROPERTY CallsReturn
