\* Liveness: one mode change, a phone that vanishes, an encoder that cannot
\* be restarted.
SPECIFICATION Spec
CONSTANTS
  MaxGen = 2
  Depth  = 2
  MaxOut = 0
  Faults = {"vanish", "restart"}
PROPERTIES
  StopEndsEveryThread
  SilenceIsReported
  ModeChangesComplete
\* A session that has ended takes no further step.
CHECK_DEADLOCK FALSE
