CONSTANTS
  BufferSize = 6
  Granule = 2
  Unit = 2
  MaxBytes = 11
  WriteCounts <- AnyWrites
  ReadCounts <- AnyReads
SPECIFICATION FairSpec
INVARIANTS IInv WindowStable NoDataRace PositionsCount ReservationHolds
PROPERTIES ClearDropsAllOld WordsStayWhole ImplementsFIFO EveryByteTaken
