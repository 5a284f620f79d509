SPECIFICATION FairFanOutSpec
CONSTANTS
  MaxGpidx = 3
  MaxEpoch = 1
  MaxBatch = 2
  MaxInFlight = 1
  MaxSession = 4
  MaxOutages = 0
  Faults = {}
PROPERTIES
  EveryClientCatchesUp
