SPECIFICATION ScanSpec
CONSTANTS
  NbParts = 3
  MaxPkts = 2
  Archives <- SomeArchives
  Targets <- SomeTargets
  Offsets <- NoOffsets
  MatchSets <- SomeMatchSets
  Stops <- SomeStops
  Counts <- SomeCounts
INVARIANTS WalkIsContiguous WalkIsComplete SearchFindsNearest RestoringRestores ComputeFoldsAtMostOnce
PROPERTIES LoopsEnd
