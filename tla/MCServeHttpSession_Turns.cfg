SPECIFICATION FairSpec
CONSTANTS
  Senders = {n1}
  MaxTurns = 2
  MaxReports = 1
INVARIANTS
  OneTurnAtATime
  FlightIsOwned
PROPERTIES
  TurnsEnd
  StartSettles
  IsSession
CHECK_DEADLOCK FALSE
