SPECIFICATION FairSpec
CONSTANTS
  Calls = {c1}
  Cap = 1
  MaxFrames = 3
  None = None
INVARIANTS
  AnsweredOnce
  PendingIsExact
  StopLeavesNoneWaiting
PROPERTIES
  CallsEnd
  OutputDrains
  IsSession
CHECK_DEADLOCK FALSE
