SPECIFICATION CollectorSpec
CONSTANTS
  MaxGpidx = 2
  MaxEpoch = 1
  MaxBatch = 2
  MaxInFlight = 2
  MaxSession = 2
  MaxOutages = 1
  Faults = {"io"}
INVARIANTS
  ExactlyOnce
