SPECIFICATION FairSpec
CONSTANTS
  NumOutputs = 2
  MaxPackets = 2
  CodecDepth = 1
  FilterDepths = {0, 1}
  Faults <- AllFaults
INVARIANTS OutputsInOrder FramesAreOwned OutputsAreIsolated
PROPERTIES Progress Terminates
