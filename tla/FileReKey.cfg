SPECIFICATION FairSpec

CONSTANTS
  w1 = w1
  w2 = w2
  Workers = {w1, w2}
  NBlocks = 2
  MaxWrites = 1
  Faults = {"crash", "loss"}
  SeChoices <- LastOfTwo

INVARIANTS
  IInv
  TypeOK
  OthersUntouched
  TornOnlyIfExposed
  ReportedReplaced

PROPERTIES
  ReportedIsWrittenEventually

CHECK_DEADLOCK FALSE
