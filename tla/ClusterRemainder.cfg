SPECIFICATION Spec

CONSTANTS
  w1 = w1
  w2 = w2
  admin = admin
  Workers = {w1, w2}
  Admin = admin
  NFiles = 5
  PrevFiles = 3
  BatchCount = 2
  MaxPending = 2
  Faults = {}

INVARIANTS
  EveryFileReKeyed

SYMMETRY WorkerSymmetry
