SPECIFICATION LoopSpec
CONSTANTS
  Fds = {1, 2}
  Reopens = {1, 2}
  Acts = {"R", "W"}
  InitSize = 1
  Resizes = {3}
  Modes = {"file"}
  Delays = {}
  MaxTimers = 0
  MaxDoublings = 3
  MaxDepth = 1
  NestIn = {}
  DeleteIn = {}
  NestedDelete = FALSE
  HangUps = FALSE
  ThreadStops = TRUE
INVARIANTS
  LoopTypeOK
  RegistryInv
  StorageInv
  EventPointerFresh
PROPERTIES
  NoCallbackAfterUnregister
CHECK_DEADLOCK FALSE
