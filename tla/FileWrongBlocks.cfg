SPECIFICATION Spec

CONSTANTS
  w1 = w1
  w2 = w2
  Workers = {w1, w2}
  NBlocks = 4
  MaxWrites = 0
  Faults = {}
  SeChoices <- LastOfFour

INVARIANTS
  ReKeysSuperEncrypted

CHECK_DEADLOCK FALSE
