SPECIFICATION MCSpec
CONSTANTS
  w1 = w1 l1 = l1 o1 = o1 c1 = c1 c2 = c2 k1 = k1 k2 = k2 r1 = r1
  Warehouses = {w1}
  Routes <- MCRoutes
  Lines = {l1}
  OrderOf <- MCOrderOf
  NoOrder = NoOrder
  NoCred = NoCred
  Ledger = Ledger
  FundsRuns = {1, 2}
  DetailRuns = {5, 6}
  StockRuns = {11, 12}
  MaxAsked = 1
  MaxFailures = 1
  MaxSwitches = 2
  Disturbances = 2
  ApiKeys = {k1, k2}
  WhCodes = {w1}
  Requests = {r1}
  Refresher = Refresher
  NoKey = NoKey
  MaxRequests = 2
  MaxTroubles = 1
INVARIANTS ServicesTypeOK SnapshotIsLatest
PROPERTIES PendingIsTried ScopesSettle
