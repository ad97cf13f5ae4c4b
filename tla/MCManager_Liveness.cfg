SPECIFICATION FairSpec
CONSTANTS
  Ids = {i1}
  Starts = {s1, s2}
  Waiters = {}
  Attachers = {t1}
  Senders = {}
  Shutters = {h1}
  None = None
  IdReuse = "afterWait"
INVARIANTS
  AttachCountExact
PROPERTIES
  ExitIsDelivered
  ShutdownReturns
CHECK_DEADLOCK FALSE
