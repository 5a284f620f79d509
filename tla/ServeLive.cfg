SPECIFICATION FairServeSpec
CONSTANTS
  MaxPackets = 3
  MaxSeq = 3
  MaxOutages = 1
  RotateRecs = 1
  RetentionRecs = 1
  BatchMaxPackets = 2
  Faults = {"kill", "power"}
PROPERTIES
  StreamCatchesUp
