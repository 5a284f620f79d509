SPECIFICATION EpochSpec
CONSTANTS
  Callers = {c1, c2}
  Ids = {1, 2, 3}
  MaxCrashes = 0
  Faults = {}
INVARIANTS
  AllAgree
