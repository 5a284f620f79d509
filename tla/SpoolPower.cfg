SPECIFICATION Spec
CONSTANTS
  MaxPackets = 6
  MaxSeq = 6
  MaxOutages = 2
  RotateRecs = 2
  RetentionRecs = 5
  Faults = {"power"}
INVARIANTS
  OneIdentity
  AdvertisedDurable
  NothingVanishes
  OldestAnchored
