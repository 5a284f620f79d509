SPECIFICATION ServeSpec
CONSTANTS
  MaxPackets = 4
  MaxSeq = 2
  MaxOutages = 1
  RotateRecs = 2
  RetentionRecs = 3
  BatchMaxPackets = 2
  Faults = {"kill", "power"}
INVARIANTS
  Aligned
  WireTrue
  NoForwardJump
  GapIsLoss
