SPECIFICATION FairReconcileSpec
CONSTANTS
  Containers = {"c1"}
  MaxPid = 2
  MaxEdits = 1
  MaxOutages = 2
INVARIANTS
  HooksTracked
PROPERTIES
  Converges
  ExcludedStops
  HooksRun
