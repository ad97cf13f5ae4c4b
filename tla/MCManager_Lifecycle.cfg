SPECIFICATION Spec
CONSTANTS
  Ids = {i1}
  Starts = {s1, s2}
  Waiters = {w1}
  Attachers = {}
  Senders = {n1}
  Shutters = {h1, h2}
  None = None
  IdReuse = "afterWait"
SYMMETRY CallerSymmetry
INVARIANTS
  VerdictHonoursStop
  DeliveredIsFinal
  DrainedIsQuiet
  RegistryIsLive
PROPERTIES
  ResultIsStable
  RowFollowsLifecycle
CHECK_DEADLOCK FALSE
