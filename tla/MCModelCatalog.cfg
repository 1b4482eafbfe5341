SPECIFICATION FairCatalogSpec
CONSTANTS
  x1 = x1  x2 = x2  c1 = c1  c2 = c2  a1 = a1
  NoAccount = NoAccount  Nobody = Nobody  Account = {a1}
  MaxGrants = 3
  Transport <- CallTransports
  Goroutine <- Callers
  TransportOf <- OneEach
  Faults <- ReadableDisk
INVARIANTS CatalogTypeOK RefreshesSerialized NoDeadLoopAcrossCalls
PROPERTIES NothingSentWhenLate CallsWipeOnlyTheDead ListModelsReturns
CHECK_DEADLOCK FALSE
