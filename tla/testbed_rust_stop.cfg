SPECIFICATION Spec
CONSTANTS
  Binaries = {"rust"}
  MaxStarts = 1
  MaxStops = 1
PROPERTY StopEnds
CHECK_DEADLOCK FALSE
