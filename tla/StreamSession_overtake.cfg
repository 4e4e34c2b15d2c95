\* A frame of a new encoder overtakes the VideoConfig that announces it.
SPECIFICATION Spec
CONSTANTS
  MaxGen = 2
  Depth  = 2
  MaxOut = 0
  Faults = {}
INVARIANT FramesMatchConfig
CHECK_DEADLOCK FALSE
