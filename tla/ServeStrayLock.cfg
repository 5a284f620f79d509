SPECIFICATION ServeSpec
CONSTANTS
  MaxPackets = 3
  MaxSeq = 3
  MaxOutages = 0
  RotateRecs = 1
  RetentionRecs = 1
  BatchMaxPackets = 2
  Faults = {}
INVARIANTS
  LockedByReader
