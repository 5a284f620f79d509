SPECIFICATION FairCollectorSpec
CONSTANTS
  MaxGpidx = 2
  MaxEpoch = 2
  MaxBatch = 2
  MaxInFlight = 1
  MaxSession = 6
  MaxOutages = 1
  Faults = {"io"}
PROPERTIES
  CatchesUp
