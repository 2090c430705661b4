SPECIFICATION Spec
CONSTANTS
  Programs <- AllPrograms
  NumOutputs = 1
  MaxPackets = 2
  CodecDepth = 0
  RateNum = 3
  RateDen = 2
  Faults = {"codec"}
INVARIANTS SuccessMeansEncoded
