SPECIFICATION EpochSpec
CONSTANTS
  Callers = {c1, c2, c3}
  Ids = {1, 2, 3, 4}
  MaxCrashes = 2
  Faults = {"kill", "power"}
PROPERTIES
  EpochStays
