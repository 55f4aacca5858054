CONSTANTS
  BufferSize = 6
  Parsers = {"standart", "short"}
  BytesOf <- PeerBytes
  MaxChunk = 3
  MaxBytes = 8
  Expiry = {FALSE, TRUE}
SPECIFICATION Spec
INVARIANTS TimeoutStartsAfresh
