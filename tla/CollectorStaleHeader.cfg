SPECIFICATION CollectorSpec
CONSTANTS
  MaxGpidx = 2
  MaxEpoch = 2
  MaxBatch = 2
  MaxInFlight = 2
  MaxSession = 6
  MaxOutages = 1
  Faults = {"kill"}
INVARIANTS
  HeaderTrue
