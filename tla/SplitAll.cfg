SPECIFICATION Spec
CONSTANTS
  None = None
  MaxPackets = 3
  MaxSecs = 2
  MaxRuns = 3
  Inputs <- AllInputs
  Limits <- AllLimits
INVARIANTS PartsAreChunks PartsReadBack NothingIsLost
PROPERTIES FinishedPartsStay
CHECK_DEADLOCK FALSE
