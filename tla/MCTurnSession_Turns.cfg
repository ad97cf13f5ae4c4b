SPECIFICATION FairSpec
CONSTANTS
  Senders = {n1, n2}
  Ids = {i1, i2}
  NoId = NoId
  MaxTurns = 2
INVARIANTS
  StateIsExact
  TurnsContinue
PROPERTY
  StopEndsTurns
CHECK_DEADLOCK FALSE
