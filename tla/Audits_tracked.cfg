SPECIFICATION Spec
CONSTANTS
  a1 = a1  r1 = r1  c1 = c1  w1 = w1  n1 = n1
  Audits = {a1}
  Records = {r1}
  Warehouses = {w1}
  Numbers = {n1}
  Refers <- NoRefers
  NumberOf <- SameNumber
  Clients = {c1}
  Auditor = Auditor
  MaxSnapshots = 2
  MaxFailures = 0
  NoRecord = NoRecord
  NoWarehouse = NoWarehouse
  NoNumber = NoNumber
PROPERTY ShippedStaysTracked
