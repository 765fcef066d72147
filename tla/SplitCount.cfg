SPECIFICATION Spec
CONSTANTS
  None = None
  MaxPackets = 4
  MaxSecs = 2
  MaxRuns = 3
  Inputs <- AllInputs
  Limits <- OneByOne
INVARIANTS NothingIsLostByLimits
CHECK_DEADLOCK FALSE
