SPECIFICATION Spec
CONSTANTS
  Keys = {k1}
  Rntis = {r1}
  RntiOf <- SameRnti
  Workers = {w1, w2}
  MaxRequests = 1
  Packets = 2
  MaxHellos = 2
  MaxMishaps = 1
  MaxTrackers = 2
  Faults <- AllFaults
SYMMETRY AnyWorker
INVARIANTS CompleteMeansAllPackets NobodyStuck
CHECK_DEADLOCK FALSE
