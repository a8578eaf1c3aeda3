SPECIFICATION FairSpec
CONSTANTS
  BufferSize = 6
  ReadSize = 7
  MaxFile = 10
  MaxChunks = 3
INVARIANTS
  ArrivesInOrder
  InStepWithBlocks
  GivesUpOnLongLines
PROPERTY TransferEnds
CHECK_DEADLOCK FALSE
