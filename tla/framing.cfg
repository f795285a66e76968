SPECIFICATION FairSpec
CONSTANTS
  DataLen = 3
  BufSize = 8
  RingSize = 16
  Sensors = 2
  Frames = 2
  StxAt = {2}
INVARIANT FramingInvariant
PROPERTIES RoundIsOneFrame RoundKeepsItsBytes RoundsKeepStarting
