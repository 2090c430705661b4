SPECIFICATION Spec
CONSTANTS
  Keys = {k1}
  Rntis = {r1}
  RntiOf <- SameRnti
  Workers = {w1, w2}
  MaxRequests = 1
  Packets = 1
  MaxHellos = 2
  MaxMishaps = 0
  MaxTrackers = 2
  Faults = {"idle"}
INVARIANTS AnswersOnListenPort
CHECK_DEADLOCK FALSE
