SPECIFICATION SessionSpec
CONSTANTS
  x1 = x1  x2 = x2  g1 = g1  g2 = g2  u1 = u1  u2 = u2  a1 = a1  a2 = a2
  NoAccount = NoAccount  Nobody = Nobody  Account = {a1, a2}
  MaxGrants = 3
  Transport <- OneTransport
  Goroutine <- OneGoroutine
  TransportOf <- AllOne
  User = {u1}
  Faults = {}
SYMMETRY SymmetryAccounts
PROPERTIES LogoutRevokesStored
CHECK_DEADLOCK FALSE
