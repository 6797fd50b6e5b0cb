SPECIFICATION Spec

CONSTANTS
  w1 = w1
  w2 = w2
  admin = admin
  Workers = {w1, w2}
  Admin = admin
  NFiles = 4
  PrevFiles = 3
  BatchCount = 2
  MaxPending = 1
  Faults = {"crash", "expire", "loss", "query", "insert", "files", "truncate"}

INVARIANTS
  FaultsInv
  ReKeyedOncePerBatch
  RegisteredWorkersListen

PROPERTIES
  QuietAfterFinish

SYMMETRY WorkerSymmetry

CHECK_DEADLOCK FALSE
