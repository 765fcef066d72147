SPECIFICATION SpecTimes
CONSTANTS
  None = None
  MaxCutPackets = 4
  MaxSecs = 2
  MaxParts = 3
  MaxPackets = 5
  Archives <- AllArchives
  Begins <- SomeBegins
  Ends <- SomeEnds
  Recordings <- AllRecordings
  Sizings <- SomeSizings
INVARIANTS OffsetsAreExact CutIsTimeRange SliceIsDecodable WindowsMeet
CHECK_DEADLOCK FALSE
