SPECIFICATION Spec
CONSTANTS
  Intervals <- MCIntervals
  Default = 5
  Second = 2
  Margin = 1
  Cap = 30
  Word = 128
INVARIANTS ExpiryIsTyped
CHECK_DEADLOCK FALSE
