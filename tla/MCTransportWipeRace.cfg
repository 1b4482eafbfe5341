SPECIFICATION Spec
CONSTANTS
  x1 = x1  x2 = x2  g1 = g1  g2 = g2  g3 = g3  a1 = a1
  NoAccount = NoAccount  Nobody = Nobody  Account = {a1}
  MaxGrants = 3
  Transport <- TwoTransports
  Goroutine <- TwoGoroutines
  TransportOf <- OneEach
  Faults = {}
PROPERTIES WipesOnlyTheDead
CHECK_DEADLOCK FALSE
