SPECIFICATION Spec
CONSTANTS
  TestTypes = {"LINK"}
  TestNums = {3}
  MaxResets = {2}
  CounterMod = 256
  RebootDelay = 7
  Layouts = {"unopt", "opt"}
  MaxJumps = 0
  JumpSize = 0
PROPERTY ReadsOwnSlotOnly
CHECK_DEADLOCK FALSE
