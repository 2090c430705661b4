SPECIFICATION Spec
CONSTANTS
  Programs <- AllPrograms
  NumPulls = 1
  MaxFrames = 2
  HeldFrames = 0
  Faults = {}
INVARIANTS MapIsGuarded
CHECK_DEADLOCK FALSE
