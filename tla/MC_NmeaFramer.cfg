CONSTANTS
  Char <- MCChar
  BufferSize = 3
  MaxFields = 2
  TalkerLen = 1
  TypeLen = 1
SPECIFICATION Spec
INVARIANTS
  FramerInv
  ViewsInBounds
  HeldViewReadable
  RunningChecksum
  FieldsTile
  ResynchronisesInTime
PROPERTIES
  AcceptsWellFormed
  DecodesSentences
