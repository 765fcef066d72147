SPECIFICATION FairSpec
CONSTANTS
  NbParts = 3
  MaxPkts = 2
  MaxOffset = 2
  Archives <- AnyArchives
  Targets <- AnyTargets
  Offsets <- AnyOffsets
INVARIANTS PositionIsSound PacketIsFromPosition
PROPERTIES PrevIsPredecessor NextIsSuccessor BackSeekIsExact SeekEnds
