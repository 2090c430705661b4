SPECIFICATION Spec
CONSTANTS
  MaxFrames = 2
  MaxStarts = 2
  Faults = {"crash", "stall"}
INVARIANTS ReadyMeansNewFrame
CHECK_DEADLOCK FALSE
