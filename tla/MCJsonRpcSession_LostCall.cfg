SPECIFICATION FairSpec
CONSTANTS
  Calls = {c1}
  Cap = 1
  MaxFrames = 1
  None = None
PROPERTY
  TeardownUnblocksCalls
CHECK_DEADLOCK FALSE
