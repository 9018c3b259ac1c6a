CONSTANTS
  NumFrames = 3
  NumSignals = 1
  RewindMax = 1
  FaultTol <- NoLimit
  MaxBatch = 1
  Files <- IntactFiles
  Calls <- OverrunCalls
SPECIFICATION Spec
INVARIANTS FramesAreThoseAsked
