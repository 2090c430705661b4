SPECIFICATION FairSpec
CONSTANTS
  MaxFrames = 4
  MaxStarts = 1
  Faults = {"convert"}
INVARIANTS FrameHandOver
PROPERTIES ProgramsEnd
CHECK_DEADLOCK FALSE
