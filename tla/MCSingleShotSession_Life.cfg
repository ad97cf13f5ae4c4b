SPECIFICATION FairSpec
CONSTANTS
  Senders = {n1, n2}
INVARIANTS
  HeldWhileUsed
PROPERTIES
  RefusedStartLeavesNothing
  StartReturns
  StopEndsSession
CHECK_DEADLOCK FALSE
