CONSTANTS
  Char <- MCChar
  BufferSize = 2
  MaxFields = 1
  TalkerLen = 1
  TypeLen = 1
SPECIFICATION Spec
INVARIANT ErrorRestarts
