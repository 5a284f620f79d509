SPECIFICATION FairKeylogSpec
CONSTANTS
  Targets = {"t1"}
  Keys = {"k1", "k2"}
  MaxLog = 5
  ChunkLen = 2
  MaxLineLen = 1
  MaxOutages = 1
  Faults = {"kill", "power", "io"}
INVARIANTS
  KeylogTypeOK
  Resumable
  KeysOnce
  OnlyHooked
PROPERTIES
  KeysArrive
