CONSTANTS
  NumFrames = 3
  NumSignals = 5
  RewindMax = 1
  FaultTol <- NoLimit
  MaxBatch = 1
  Files <- FaultyFiles
  Calls <- FaultyCalls
SPECIFICATION FairSpec
INVARIANTS TypeOK EndOnlyAtEnd
PROPERTIES CallsReturn
