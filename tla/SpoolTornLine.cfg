SPECIFICATION Spec
CONSTANTS
  MaxPackets = 3
  MaxSeq = 3
  MaxOutages = 1
  RotateRecs = 2
  RetentionRecs = 6
  Faults = {"power", "torn"}
INVARIANTS
  NothingVanishes
