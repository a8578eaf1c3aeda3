SPECIFICATION Spec
CONSTANTS
  BufferSize = 6
  ReadSize = 7
  MaxFile = 8
  MaxChunks = 0
INVARIANT FileAsIs
CHECK_DEADLOCK FALSE
