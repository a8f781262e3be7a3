SPECIFICATION MpmcSpec
CONSTANTS
  Senders = {s1, s2}
  Receivers = {r1, r2, r3}
  Capacity = 2
  Blocking = TRUE
  TimedWaits = TRUE
  MaxSends = 3
INVARIANTS
  WaitersServed
  ClosedMeansDrained
PROPERTIES
  ImplementsFifo
  CloseUnblocks
CHECK_DEADLOCK FALSE
