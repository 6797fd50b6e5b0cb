SPECIFICATION Spec

CONSTANTS
  w1 = w1
  w2 = w2
  admin = admin
  Workers = {w1, w2}
  Admin = admin
  NFiles = 4
  PrevFiles = 3
  BatchCount = 2
  MaxPending = 2
  Faults = {"query"}

INVARIANTS
  StatusMeansDone

SYMMETRY WorkerSymmetry

CHECK_DEADLOCK FALSE
