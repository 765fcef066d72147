SPECIFICATION Spec
CONSTANTS
  MaxPackets = 4
  MaxPts = 2
  Interval = 1
  CcMod = 3
  MaxCcs = 2
  Ccs <- SomeCcs
  Inputs <- AllInputs
INVARIANTS SegmentsConcatenate SegmentsSplitExactly CountersContinue
CHECK_DEADLOCK FALSE
