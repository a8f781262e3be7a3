SPECIFICATION LoopSpec
CONSTANTS
  Fds = {1}
  Reopens = {1}
  Acts = {"R"}
  InitSize = 1
  Resizes = {}
  Modes = {"all"}
  Delays = {}
  MaxTimers = 0
  MaxDoublings = 3
  MaxDepth = 1
  NestIn = {}
  DeleteIn = {}
  NestedDelete = FALSE
  HangUps = TRUE
  ThreadStops = FALSE
PROPERTIES
  HangUpDelivered
CHECK_DEADLOCK FALSE
