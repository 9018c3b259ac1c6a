SPECIFICATION AudioSpec
CONSTANTS
  Streams <- ShortStreams
  Clips <- ShortClips
  Width = 4
  Monos = {FALSE}
  Rates = {2}
  Second = 2
  Significand = 16
INVARIANT AudioMatchesFrames
CHECK_DEADLOCK FALSE
