SPECIFICATION FairSpec
CONSTANTS
  Clients = {c1, c2}
  Lines <- MCLines
  ErrorCodes <- MCErrorCodes
  MAX_CLIENTS = 0
INVARIANTS
  TypeOK
  OkIsAnswered
  ExitTellsFailure
  RebootAsTyped
  NobodyForgotten
PROPERTIES
  ImplementsCommandOnce
  RequestGetsThrough
  DeathReleases
CHECK_DEADLOCK FALSE
