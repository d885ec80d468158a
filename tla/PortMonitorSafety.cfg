SPECIFICATION Spec
CONSTANTS
  TestTypes = {"DISABLE", "LINK", "PING", "SPEED"}
  TestNums = {0, 2, 3}
  MaxResets = {0, 2}
  CounterMod = 4
  RebootDelay = 2
  Layouts = {"unopt", "opt"}
  MaxJumps = 1
  JumpSize = 1
INVARIANTS
  TypeOK
  RebootsBounded
  ShutdownAccounted
  ThresholdHonoured
  FirstRebootUncounted
  DisabledNotRebooted
  OkMeansLink
PROPERTIES
  ShutdownIsFinal
  FailuresForgiven
  NearsShutdown
  ImplementsLifecycle
CHECK_DEADLOCK FALSE
