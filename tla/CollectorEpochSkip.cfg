SPECIFICATION CollectorSpec
CONSTANTS
  MaxGpidx = 2
  MaxEpoch = 2
  MaxBatch = 2
  MaxInFlight = 2
  MaxSession = 4
  MaxOutages = 0
  Faults = {}
INVARIANTS
  NoSilentLoss
