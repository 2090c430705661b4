SPECIFICATION FairSpec
CONSTANTS
  Programs <- AllPrograms
  NumOutputs = 2
  MaxPackets = 2
  CodecDepth = 1
  RateNum = 3
  RateDen = 2
  Faults <- AllFaults
INVARIANTS StampsNeverDecrease ReturnsAfterDrained
PROPERTIES Streams NoPushAfterFinished Progress Terminates
CHECK_DEADLOCK FALSE
