SPECIFICATION Spec
CONSTANTS
  x = x  y = y
  Accounts = {x}
  Lookback = 1
  StartHour = 4
  MaxHour = 4
  MaxFailures = 0
  MaxRestarts = 1
  NoHour = NoHour
  NoAccount = NoAccount
INVARIANT CoveredWasFetched
