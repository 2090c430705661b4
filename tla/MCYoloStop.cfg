SPECIFICATION FairSpec
CONSTANTS
  MaxFrames = 1
  MaxStarts = 1
  Faults = {"late_reader"}
PROPERTIES DetectorEnds
CHECK_DEADLOCK FALSE
