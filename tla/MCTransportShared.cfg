SPECIFICATION Spec
CONSTANTS
  x1 = x1  x2 = x2  g1 = g1  g2 = g2  g3 = g3  a1 = a1
  NoAccount = NoAccount  Nobody = Nobody  Account = {a1}
  MaxGrants = 4
  Transport <- TwoTransports
  Goroutine <- ThreeGoroutines
  TransportOf <- TwoPlusOne
  Faults = {"load", "wipe", "revoke"}
SYMMETRY SymmetryTwoPlusOne
INVARIANTS Custody
CHECK_DEADLOCK FALSE
