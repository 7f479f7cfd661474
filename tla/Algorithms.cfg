SPECIFICATION Spec
CONSTANTS
  w1 = w1  w2 = w2
  Warehouses = {w1, w2}
  NoWarehouse = NoWarehouse
  NoRecord = NoRecord
  MaxRecords = 3
  StockQuestions <- FewStockQuestions
  ThisSku = "asked"
  Replies <- TwoPackages
  Ages <- AroundLimits
  None = None
  Rules <- ThreeRules
  NoChoice = NoChoice
  SkusAsked <- TwoSkus
  NoRow = NoRow  NoShop = NoShop  Refused = Refused
  Skus = {1, 2, 3, 4, 5, 6, 7, 8}
  Specs <- SevenSpecs
  Requests <- FewUnits
  MaxUnits = 4
  MaxSkus = 3
  MaxDimension = 3
  MaxWeight = 4
  NoStart = NoStart
  NoReply = NoReply
  o1 = o1  o2 = o2
  PlatformOrders = {o1, o2}
  PlatformOf <- PlatformOfBoth
  WarehouseCodes = {1, 2}
  Collection = {2}
  Labels <- FourLabels
  Assignments = {r1, r2}
  MaxEvents = 1
  NoLabel = NoLabel  NoCode = NoCode  NoAssignment = NoAssignment
  Carriers = {c1, c2}
  Allowed = {c1}
  Blocked = {c1}
  Savers = {s1}
  MaxPolicyChanges = 2
  NoOverride = NoOverride  NoLimit = NoLimit
CHECK_DEADLOCK FALSE
INVARIANT MatchIsSelected
INVARIANT DecisionIsSafe
INVARIANT QueueFollowsTheAnswer
INVARIANT PlanIsSound
INVARIANT PlanGoesOn
INVARIANT LeftOverIsAllowed
PROPERTY AssignedByEvidence
