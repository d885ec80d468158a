SPECIFICATION Spec
CONSTANTS
  Entries = {e1, e2}
  Empty = Empty
  MAX_ERROR_HISTORY = 3
  MaxRegistered = 8
INVARIANTS
  TypeOK
  LastIsLatest
  KeepsTheLast
CHECK_DEADLOCK FALSE
