SPECIFICATION FairSpec
CONSTANTS
  Programs <- AllPrograms
  NumSessions <- Configurations
  NumRequests = 2
  NumChunks = 2
  MaxHandshakes = 2
  MaxMishaps = 1
  Faults <- AllFaults
INVARIANTS RecordsAreOrdered RecordedMeansServed RttOfItsHandshake
PROPERTIES SessionsEndUnlessCut
CHECK_DEADLOCK FALSE
