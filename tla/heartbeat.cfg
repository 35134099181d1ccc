SPECIFICATION Spec
CONSTANTS
  PingInterval = 2
  CheckInterval = 3
  Timeout = 7
  Jitter = 1
  Delay = 2
  Unasked = TRUE
  Back = 1
  Forward = 1
  MaxTime = 15
INVARIANTS NoFalseTimeout RemovedInTime
CHECK_DEADLOCK FALSE
