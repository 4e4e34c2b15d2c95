\* libx264 with two threads: two slices to a picture.
SPECIFICATION Spec
CONSTANTS
  MaxFrame = 2
  Gop = 2
  Slices = 2
  Depth = 1
  PipeMax = 2
  FifoBound = 2
INVARIANTS
  WholeFrames
CHECK_DEADLOCK FALSE
