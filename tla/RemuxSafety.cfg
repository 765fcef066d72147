SPECIFICATION SpecScan
CONSTANTS
  MaxPackets = 4
  CcMod = 3
  MaxCcs = 2
  Ccs <- NoCcs
  Befores <- SomeBefores
  Inputs <- AllInputs
  Filters <- AllFilters
  Offsets <- SomeOffsets
INVARIANTS CopyIsFilteredInput OffsetsReachTheirStream ConcatenationContinues RaisesReachCaller
CHECK_DEADLOCK FALSE
