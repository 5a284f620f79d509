SPECIFICATION EpochSpec
CONSTANTS
  Callers = {c1, c2}
  Ids = {1, 2, 3, 4}
  MaxCrashes = 1
  Faults = {"power"}
INVARIANTS
  OneEpoch
