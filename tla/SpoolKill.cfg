SPECIFICATION FairSpec
CONSTANTS
  MaxPackets = 6
  MaxSeq = 6
  MaxOutages = 2
  RotateRecs = 2
  RetentionRecs = 5
  Faults = {"kill"}
INVARIANTS
  OneIdentity
  NothingVanishes
  NeverRefuses
  OldestIsTrue
  OldestAnchored
PROPERTIES
  EveryPacketShown
  RetentionEnforced
