SPECIFICATION Spec
CONSTANTS
  MaxFrames = 2
  MaxStarts = 3
  Faults <- AllFaults
INVARIANTS BuffersExclusive ResultHandOver ResultsInOrder
CHECK_DEADLOCK FALSE
