SPECIFICATION CollectorSpec
CONSTANTS
  MaxGpidx = 2
  MaxEpoch = 1
  MaxBatch = 1
  MaxInFlight = 2
  MaxSession = 3
  MaxOutages = 1
  Faults = {"io"}
INVARIANTS
  NoSilentLoss
