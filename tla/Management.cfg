CONSTANTS
  w1 = w1  w2 = w2  s1 = s1  a = a  b = b  r1 = r1  r2 = r2
  Warehouses = {w1, w2}
  Shops = {s1}
  Ids = {a, b}
  Legacy <- LegacyRows
  Callers = {r1, r2}
  MaxConns = 3
  MaxChanges = 3
  NoId = NoId  NoRequest = NoRequest  NoRow = NoRow  NoReservation = NoReservation
  u1 = u1  u2 = u2  p1 = p1  p2 = p2
  Users = {u1, u2}
  Clients = {1, 2, 3}
  Passwords = {p1, p2}
  First = p1
  GateSlots = 1
  MaxTokens = 2
  MaxOrders = 2
  MaxCalls = 2
  NoPassword = NoPassword  NoClient = NoClient  NoUser = NoUser
SPECIFICATION MCSpec
INVARIANTS ConsoleTypeOK EnabledWasChecked SavedWasVerified
PROPERTIES SeenIsChanged DisabledShopStaysOff ConsoleReturns FreshTokenIsKept
