SPECIFICATION Spec
CONSTANTS
  Programs <- AllPrograms
  NumOutputs = 2
  MaxPackets = 3
  CodecDepth = 1
  RateNum = 3
  RateDen = 2
  Faults = {}
INVARIANTS CleanRunComplete
