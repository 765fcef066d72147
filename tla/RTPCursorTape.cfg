SPECIFICATION ReadingSpec
CONSTANTS
  NbParts = 3
  MaxPkts = 3
  MaxOffset = 3
  Archives <- CleanArchives
  Targets <- AnyTargets
  Offsets <- AnyOffsets
PROPERTIES ImplementsTape
