SPECIFICATION FairSpec
CONSTANTS
  c1 = c1
  c2 = c2
  Clients = {c1, c2}
  RingCap = 2
  ChanCap = 1
  Depths <- MCDepths
  MaxWrite = 3
  MaxTotal = 4
INVARIANTS
  ReplayIsExact
  ResumeIsExact
  LossIsCounted
PROPERTIES
  CloseEndsAttach
CHECK_DEADLOCK FALSE
