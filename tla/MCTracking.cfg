SPECIFICATION FairSpec
CONSTANTS
  Programs = {"tcp", "rtp"}
  MaxFrames = 3
  MaxStale = 1
  Faults <- AllFaults
INVARIANTS ResultsInOrder ResultsAreKept LatencyIsItsFrames LogIsOrdered CountMeansAnswered
PROPERTIES EndsWhenTold
CHECK_DEADLOCK FALSE
