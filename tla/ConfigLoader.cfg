SPECIFICATION Spec
CONSTANTS
  Numbers <- MCNumbers
  MaxLoads = 2
INVARIANTS
  TypeOK
  OddOptionIsExplained
  TestedAsConfigured
  LastGivenDecides
PROPERTY ImplementsSystemInit
CHECK_DEADLOCK FALSE
