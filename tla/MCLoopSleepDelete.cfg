SPECIFICATION LoopSpec
CONSTANTS
  Fds = {1}
  Reopens = {1}
  Acts = {"R"}
  InitSize = 1
  Resizes = {}
  Modes = {"all"}
  Delays = {}
  MaxTimers = 0
  MaxDoublings = 3
  MaxDepth = 1
  NestIn = {}
  DeleteIn = {"before", "after"}
  NestedDelete = FALSE
  HangUps = FALSE
  ThreadStops = FALSE
INVARIANTS
  LoopOutlivesFrames
CHECK_DEADLOCK FALSE
