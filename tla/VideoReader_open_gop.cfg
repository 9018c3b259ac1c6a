CONSTANTS
  NumFrames = 4
  NumSignals = 1
  RewindMax = 1
  FaultTol <- NoLimit
  MaxBatch = 1
  Files <- OpenGOPFiles
  Calls <- OpenGOPCalls
SPECIFICATION Spec
INVARIANTS FramesAreThoseAsked
