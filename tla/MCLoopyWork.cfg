SPECIFICATION WorkSpec
CONSTANTS
  Senders = {w1, w2}
  MaxSends = 3
  MaxItems = 3
  MaxQueue = 2
  CreateMayFail = TRUE
INVARIANTS
  TokenInv
  NoLostWakeup
  PoolConsistent
  CancelIsFinal
  CompletionSignalled
PROPERTIES
  EveryItemDelivered
  FreeReturns
  ImplementsSignal
CHECK_DEADLOCK FALSE
