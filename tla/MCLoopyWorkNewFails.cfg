SPECIFICATION WorkSpec
CONSTANTS
  Senders = {w1, w2}
  MaxSends = 2
  MaxItems = 1
  MaxQueue = 0
  CreateMayFail = TRUE
PROPERTIES
  FailedNewReturns
CHECK_DEADLOCK FALSE
