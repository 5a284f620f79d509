SPECIFICATION FairFanOutSpec
CONSTANTS
  MaxGpidx = 4
  MaxEpoch = 1
  MaxBatch = 2
  MaxInFlight = 1
  MaxSession = 5
  MaxOutages = 2
  Faults = {"kill", "power"}
INVARIANTS
  CommitBacked
  NoSilentLoss
  HeaderTrue
  ClientContiguous
  ClientDurable
PROPERTIES
  ResumeForward
  ClientCatchesUp
