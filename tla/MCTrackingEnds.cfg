SPECIFICATION FairSpec
CONSTANTS
  Programs = {"rtp"}
  MaxFrames = 2
  MaxStale = 1
  Faults = {"end"}
PROPERTIES ClientEnds
CHECK_DEADLOCK FALSE
