SPECIFICATION FairSpec
CONSTANTS
  MaxFrames = 1
  MaxStarts = 1
  Faults = {}
PROPERTIES BothEnd
CHECK_DEADLOCK FALSE
