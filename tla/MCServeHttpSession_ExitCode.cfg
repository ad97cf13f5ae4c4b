SPECIFICATION Spec
CONSTANTS
  Senders = {n1}
  MaxTurns = 1
  MaxReports = 0
INVARIANT ExitCodeIsReported
CHECK_DEADLOCK FALSE
