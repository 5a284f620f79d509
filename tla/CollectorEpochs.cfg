SPECIFICATION FairCollectorSpec
CONSTANTS
  MaxGpidx = 3
  MaxEpoch = 2
  MaxBatch = 2
  MaxInFlight = 2
  MaxSession = 8
  MaxOutages = 1
  Faults = {"power"}
INVARIANTS
  ExactlyOnce
  NoJumpSeen
PROPERTIES
  CatchesUp
  IsRelay
