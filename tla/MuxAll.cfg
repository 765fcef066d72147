SPECIFICATION FairSpec
CONSTANTS
  MaxPackets = 3
  MaxPts = 3
  Inputs <- AllInputs
  Tick <- MCTick
  StreamTick <- MCStreamTick
INVARIANTS NeverRefused ReturnsWhenComplete RaisesReachCaller FileIsMergedInput
PROPERTIES MuxEnds
CHECK_DEADLOCK FALSE
