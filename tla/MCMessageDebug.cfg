CONSTANTS
  BufferSize = 6
  Parsers = {"standart", "short"}
  BytesOf <- PeerBytes
  MaxChunk = 3
  MaxBytes = 7
  Expiry = {FALSE}
  Granule = 1
  Burst = 2
  Longest = 4
  StartPlaces = {3, 4}
SPECIFICATION FairSpecLine
INVARIANTS InOrder DrainComplete CompactedToOneFrame NothingLost
PROPERTIES EveryMessageArrives
