SPECIFICATION Spec

CONSTANTS
  NMachines = 2
  Uses <- TwoOneTwo
  BatchCount = 2
  MaxFaults = 1
  Faults = {"expire", "interrupt", "sameId", "slow", "crash"}

INVARIANTS
  IInv
  TypeOK
  StatusOfThisRound
  FinishedRoundComplete
  FinishedLeavesQuiet
  NotSkipped
  OneWorkerPerBatch

PROPERTIES
  LastRoundFinishes
  ImplementsJobs

CHECK_DEADLOCK FALSE
