\* A feeder that always finds a frame never sees its stop flag.
SPECIFICATION Spec
CONSTANTS
  MaxGen = 2
  Depth  = 2
  MaxOut = 0
  Faults = {}
PROPERTY FeederHeedsStop
CHECK_DEADLOCK FALSE
