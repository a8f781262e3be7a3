\* A channel of capacity 3 in 4 slots, with counters that wrap at 8 and ten
\* elements, so that both the slots and the counters are used again.
SPECIFICATION SpscSpec
CONSTANTS
  Capacity = 3
  Wrap = 8
  Blocking = TRUE
  MaxSends = 10
INVARIANTS
  RingConsistent
PROPERTIES
  ImplementsFifo
  CloseUnblocks
CHECK_DEADLOCK FALSE
