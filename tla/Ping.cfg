SPECIFICATION FairSpec
CONSTANTS
  PING_TIMEOUT_MS = 2
  MaxQueue = 2
INVARIANTS
  TypeOK
  OkMeansAnswered
  ErrorMeansDisturbed
PROPERTIES
  CallReturns
  DeadHostNoticed
  SilentHostFails
CHECK_DEADLOCK FALSE
