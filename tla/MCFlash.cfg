CONSTANTS
  Size = 6
  Bits = {1}
  PageSize = 3
  ChunkSize = 2
  BlockSizes = {3, 6}
  MaxLen = 4
  Writes <- FittingWrites
SPECIFICATION FairSpec
INVARIANTS ChipListens QuadAgrees
PROPERTIES ImplementsNorArray EveryCallReturns
