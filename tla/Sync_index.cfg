SPECIFICATION MCSpec
CONSTANTS
  x = x  y = y
  Accounts = {x, y}
  Lookback = 1
  StartHour = 2
  MaxHour = 3
  MaxFailures = 1
  MaxRestarts = 1
  NoHour = NoHour
  NoAccount = NoAccount
  Ids = {1, 2, 3}
  Limit = 2
  Workers = 2
  MaxFaults = 1
INVARIANT AuditorTypeOK
INVARIANT CoverageIsBounded
PROPERTY CoverageNeverShrinks
PROPERTY ForwardCatchesUp
PROPERTY NeededIsCovered
PROPERTY EveryCandidateIsTried
PROPERTY WatermarkIsEarned
