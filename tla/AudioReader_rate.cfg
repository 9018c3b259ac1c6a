SPECIFICATION AudioSpec
CONSTANTS
  Streams <- ShortStreams
  Clips <- OneClip
  Width = 4
  Monos = {TRUE}
  Rates <- Unchanged
  Second = 2
  Significand = 16
INVARIANT AudioMatchesFrames
CHECK_DEADLOCK FALSE
