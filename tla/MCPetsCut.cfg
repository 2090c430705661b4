SPECIFICATION Spec
CONSTANTS
  Keys = {k1}
  Rntis = {r1}
  RntiOf <- SameRnti
  Workers = {w1, w2}
  MaxRequests = 2
  Packets = 1
  MaxHellos = 1
  MaxMishaps = 1
  MaxTrackers = 1
  Faults = {"controller"}
INVARIANTS EveryRequestAnswered
CHECK_DEADLOCK FALSE
