SPECIFICATION Spec
CONSTANTS
  l1 = l1  l2 = l2  Other = Other  Nobody = Nobody  Absent = Absent
  Login <- TwoLogins
  Arrivals <- MCArrivals
  MaxServed = 1
SYMMETRY SymmetryLogins
INVARIANTS TypeOK ExchangesOwnCode 
CHECK_DEADLOCK FALSE
