SPECIFICATION FairClientSpec
CONSTANTS
  l1 = l1  login = l1  Other = Other  Nobody = Nobody  Absent = Absent
  Arrivals <- MCArrivals
  MaxServed = 2
  Intervals <- MCIntervals
  Default = 5
  Second = 2
  Margin = 1
  Cap = 30
  Word = 128
INVARIANTS ClientTypeOK
PROPERTIES PollsSpaced EitherReturns NothingLeaks
CHECK_DEADLOCK FALSE
