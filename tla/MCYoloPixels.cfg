SPECIFICATION Spec
CONSTANTS
  MaxFrames = 2
  MaxStarts = 1
  Faults = {}
INVARIANTS DetectionOfItsFrame
CHECK_DEADLOCK FALSE
