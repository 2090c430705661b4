SPECIFICATION FairSpec
CONSTANTS
  Programs <- AllPrograms
  NumPulls = 2
  MaxFrames = 2
  HeldFrames = 1
  Faults <- AllFaults
INVARIANTS TimeIsRecorded LatencyIsItsFrames LogIsOrdered LogIsComplete
PROPERTIES Terminates
CHECK_DEADLOCK FALSE
