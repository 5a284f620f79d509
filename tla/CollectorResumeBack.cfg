SPECIFICATION CollectorSpec
CONSTANTS
  MaxGpidx = 2
  MaxEpoch = 1
  MaxBatch = 2
  MaxInFlight = 2
  MaxSession = 6
  MaxOutages = 2
  Faults = {"io", "kill"}
PROPERTIES
  ResumeForward
