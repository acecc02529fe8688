CONSTANTS
  BufferSize = 11
  MaxLen = 5
  SigLen = 2
  Arrives <- MCArrives
SPECIFICATION Spec
INVARIANT
  NoStrayWrite
