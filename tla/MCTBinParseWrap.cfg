CONSTANTS
  BufferSize = 5
  Header = 2
  Modulus = 16
  Sizes = {1, 3, 14}
  Commands = {1}
  MaxPayload = 4
  MaxFrames = 2
SPECIFICATION Spec
INVARIANTS OversizedIsRefused
