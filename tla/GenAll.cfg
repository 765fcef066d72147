SPECIFICATION Spec
CONSTANTS
  FrameSize = 2
  Rate = 3
  Delay = 2
  MaxPts = 8
  MaxDuration = 2
  MaxSamples = 5
  Requests <- AllRequests
INVARIANTS FramesReadBack ReplayRises
PROPERTIES GenEnds
CHECK_DEADLOCK FALSE
