CONSTANTS
  BufferSize = 5
  Header = 2
  Modulus = 16
  Sizes = {0, 1, 3, 4}
  Commands = {0, 1}
  MaxPayload = 4
  MaxFrames = 3
SPECIFICATION Spec
INVARIANTS DeliversFramesInOrder DrainComplete RoomAfterDrain
PROPERTIES FailsOnlyForCause
