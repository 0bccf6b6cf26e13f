SPECIFICATION Spec
CONSTANTS
  Binaries = {"c", "rust"}
  MaxStarts = 2
  MaxStops = 3
INVARIANTS
  TypeOK
  Tracked
PROPERTIES
  ForceStopEnds
  StopEndsC
CHECK_DEADLOCK FALSE
