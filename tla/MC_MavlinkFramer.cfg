CONSTANTS
  BufferSize = 13
  MaxLen = 5
  SigLen = 2
  Arrives <- MCArrives
SPECIFICATION FairSpec
INVARIANTS
  FramerInv
  NoStrayWrite
  PayloadReceived
PROPERTIES
  DecodesFrames
  AlwaysResynchronises
