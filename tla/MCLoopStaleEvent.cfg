SPECIFICATION LoopSpec
CONSTANTS
  Fds = {1, 2}
  Reopens = {1, 2}
  Acts = {"R"}
  InitSize = 1
  Resizes = {}
  Modes = {"all"}
  Delays = {}
  MaxTimers = 0
  MaxDoublings = 3
  MaxDepth = 1
  NestIn = {}
  DeleteIn = {}
  NestedDelete = FALSE
  HangUps = FALSE
  ThreadStops = FALSE
PROPERTIES
  NoStaleDispatch
CHECK_DEADLOCK FALSE
