SPECIFICATION Spec
CONSTANTS
  MaxPackets = 4
  MaxSeq = 4
  MaxOutages = 1
  RotateRecs = 2
  RetentionRecs = 2
  Faults = {"kill"}
INVARIANTS
  OneIdentity
