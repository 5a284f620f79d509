SPECIFICATION FairReconcileSpec
CONSTANTS
  Containers = {"c1"}
  MaxPid = 1
  MaxEdits = 1
  MaxOutages = 0
PROPERTIES
  EditsApplied
