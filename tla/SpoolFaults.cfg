SPECIFICATION Spec
CONSTANTS
  MaxPackets = 3
  MaxSeq = 3
  MaxOutages = 2
  RotateRecs = 3
  RetentionRecs = 1
  Faults = {"kill", "power", "torn", "io"}
INVARIANTS
  TypeOK
  ActiveOnDisk
