SPECIFICATION Spec
CONSTANTS
  PING_TIMEOUT_MS = 2000
  MaxQueue = 2
INVARIANT WaitsNoLongerThanTimeout
CHECK_DEADLOCK FALSE
