CONSTANTS
  NumSignals = 2
  MaxSignals = 1
  MaxPackets = 2
  MaxClears = 0
SPECIFICATION Spec
INVARIANTS
  DecodeFailureIsRaised
