\* A keyframe and the frames behind it.
SPECIFICATION Spec
CONSTANTS
  MaxFrame = 4
  Gop = 2
  Slices = 1
  Depth = 1
  PipeMax = 1
  FifoBound = 3
PROPERTIES
  KeyframesAreSent
CHECK_DEADLOCK FALSE
