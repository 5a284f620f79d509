SPECIFICATION Spec
CONSTANTS
  MaxPackets = 3
  MaxSeq = 3
  MaxOutages = 2
  RotateRecs = 2
  RetentionRecs = 3
  Faults = {"kill", "power"}
INVARIANTS
  OneIdentity
