SPECIFICATION SpscSpec
CONSTANTS
  Capacity = 3
  Wrap = 8
  Blocking = TRUE
  MaxSends = 2
INVARIANTS
  ClosedAfterDrain
CHECK_DEADLOCK FALSE
