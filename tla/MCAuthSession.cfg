SPECIFICATION SessionSpec
CONSTANTS
  x1 = x1  x2 = x2  g1 = g1  g2 = g2  u1 = u1  u2 = u2  a1 = a1  a2 = a2
  NoAccount = NoAccount  Nobody = Nobody  Account = {a1, a2}
  MaxGrants = 3
  Transport <- TwoTransports
  Goroutine <- TwoGoroutines
  TransportOf <- OneEach
  User = {u1}
  Faults = {"wipe"}
SYMMETRY SymmetrySession
VIEW SessionView
INVARIANTS SessionTypeOK TokensKeepTheirAccount
CHECK_DEADLOCK FALSE
