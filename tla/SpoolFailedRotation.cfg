SPECIFICATION Spec
CONSTANTS
  MaxPackets = 3
  MaxSeq = 3
  MaxOutages = 2
  RotateRecs = 2
  RetentionRecs = 6
  Faults = {"io", "kill"}
INVARIANTS
  OneIdentity
