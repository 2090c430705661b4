SPECIFICATION Spec
CONSTANTS
  Keys = {k1}
  Rntis = {r1}
  RntiOf <- SameRnti
  Workers = {w1, w2}
  MaxRequests = 2
  Packets = 2
  MaxHellos = 1
  MaxMishaps = 2
  MaxTrackers = 1
  Faults = {"controller"}
SYMMETRY AnyWorker
INVARIANTS CompletesOnce RequestBeforeDone NothingLeftOver
CHECK_DEADLOCK FALSE
