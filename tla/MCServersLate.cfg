SPECIFICATION FairSpec
CONSTANTS
  Programs <- AllPrograms
  NumOutputs = 1
  MaxPackets = 1
  CodecDepth = 0
  RateNum = 3
  RateDen = 2
  Faults = {"init"}
PROPERTIES EndsWhateverFails
CHECK_DEADLOCK FALSE
