SPECIFICATION LoopSpec
CONSTANTS
  Fds = {1}
  Reopens = {1}
  Acts = {"R"}
  InitSize = 1
  Resizes = {}
  Modes = {"all"}
  Delays = {}
  MaxTimers = 0
  MaxDoublings = 3
  MaxDepth = 1
  NestIn = {}
  DeleteIn = {}
  NestedDelete = FALSE
  HangUps = FALSE
  ThreadStops = TRUE
PROPERTIES
  StopReturns
CHECK_DEADLOCK FALSE
