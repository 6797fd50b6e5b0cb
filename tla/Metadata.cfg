SPECIFICATION Spec

CONSTANTS
  Base = 2
  BlockCounts = {0, 1, 2, 3, 6, 7}
  SeCounts = {0, 1, 2, 3, 4}
  TailsSeLen = 3
  SgxWords = 3
  MaxReKeys = 2

INVARIANTS
  IInv
  TypeOK
  ReaderFindsBlocks
  BoundsKept
  StreamRoundTrip

PROPERTIES
  WriteBackChangesNothing
  SearchEnds

CHECK_DEADLOCK FALSE
