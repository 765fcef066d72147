SPECIFICATION SpecAll
CONSTANTS
  NbFrames = 4
  MaxRaise = 10
  Inputs <- AllInputs
  Commands <- AllCommands
  MinWindow = 2
  MaxParams = 2
  MaxArchives = 4
INVARIANTS FramesTile MixedOnlyWhenStartLost ProfileDescribesFrames MuxedIsComplete
CHECK_DEADLOCK FALSE
