CONSTANTS
  NumFrames = 5
  NumSignals = 5
  RewindMax = 2
  FaultTol = 2
  MaxBatch = 2
  Files <- PlayedFiles
  Calls <- PlayedCalls
SPECIFICATION FairSpec
INVARIANTS FaultTolIsALimit IterationIsComplete
PROPERTIES ImplementsCursor
