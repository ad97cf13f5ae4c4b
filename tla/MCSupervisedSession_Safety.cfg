SPECIFICATION Spec
CONSTANTS
  Options <- SafetyOptions
  Lines = {sid}
  Sids = {sid}
  Preset = None
  Writers = {w1}
  None = None
INVARIANTS
  OneLateSpawn
  ExhaustedIsCrash
  WaitIsLast
  WritesToOpen
  ResumesLatest
PROPERTIES
  KilledStaysDown
CHECK_DEADLOCK FALSE
