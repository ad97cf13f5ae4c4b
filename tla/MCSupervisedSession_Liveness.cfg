SPECIFICATION FairSpec
CONSTANTS
  Options <- FairOptions
  Lines = {}
  Sids = {}
  Preset = None
  Writers = {w1}
  None = None
PROPERTIES
  IsSession
  CallsReturn
  AttemptsEnd
CHECK_DEADLOCK FALSE
