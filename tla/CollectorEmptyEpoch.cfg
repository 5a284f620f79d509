SPECIFICATION CollectorSpec
CONSTANTS
  MaxGpidx = 2
  MaxEpoch = 2
  MaxBatch = 2
  MaxInFlight = 2
  MaxSession = 8
  MaxOutages = 0
  Faults = {"noid"}
INVARIANTS
  ExactlyOnce
