SPECIFICATION CollectorSpec
CONSTANTS
  MaxGpidx = 2
  MaxEpoch = 2
  MaxBatch = 2
  MaxInFlight = 1
  MaxSession = 9
  MaxOutages = 2
  Faults = {"io", "kill", "power", "noid"}
PROPERTIES
  SealedStays
