SPECIFICATION FairSpec
CONSTANTS
  TestTypes = {"LINK", "PING", "SPEED"}
  TestNums = {3}
  MaxResets = {1}
  CounterMod = 4
  RebootDelay = 2
  Layouts = {"unopt", "opt"}
  MaxJumps = 1
  JumpSize = 1
PROPERTIES
  RebootEnds
  FailingPortIsShutDown
  HealthyPortSettles
  TerminationObeyed
CHECK_DEADLOCK FALSE
