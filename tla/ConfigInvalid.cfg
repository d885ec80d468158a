SPECIFICATION Spec
CONSTANTS
  Numbers = {3, 15, 100}
  MaxLoads = 1
INVARIANT InvalidGetsDefault
CHECK_DEADLOCK FALSE
