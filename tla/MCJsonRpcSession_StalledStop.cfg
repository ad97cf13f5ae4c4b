SPECIFICATION SerialSpec
CONSTANTS
  Calls = {c1}
  Cap = 1
  MaxFrames = 2
  None = None
PROPERTY
  StopEndsSession
CHECK_DEADLOCK FALSE
