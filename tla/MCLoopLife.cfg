SPECIFICATION LoopSpec
CONSTANTS
  Fds = {0, 1}
  Reopens = {}
  Acts = {"R"}
  InitSize = 1
  Resizes = {}
  Modes = {"all"}
  Delays = {1}
  MaxTimers = 1
  MaxDoublings = 3
  MaxDepth = 2
  NestIn = {"timer"}
  DeleteIn = {"read", "timer"}
  NestedDelete = FALSE
  HangUps = FALSE
  ThreadStops = FALSE
INVARIANTS
  DepthInv
  LoopOutlivesFrames
  StopHeeded
  StopNotForgotten
PROPERTIES
  ReadyDelivered
  TimerDelivered
  StopReturns
  DeleteCompletes
CHECK_DEADLOCK FALSE
