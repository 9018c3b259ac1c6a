SPECIFICATION FairSpec
CONSTANTS
  MaxSurfaces = 0
  Unpacks = TRUE
  MaxPackets = 3
  MaxClears = 1
INVARIANTS NoOldFrames
