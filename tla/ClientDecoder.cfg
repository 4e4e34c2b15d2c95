\* Frames arrive while the surface is recreated and the format changes.
SPECIFICATION Spec
CONSTANTS
  MaxCodec   = 3
  MaxConfig  = 2
  MaxSurface = 1
  Buffers    = 2
  LateCallbacks = TRUE
INVARIANTS
  TypeOK
  SurfaceIsHarmless
  NeverStalls
PROPERTIES
  NetworkGoesOn
  PictureReturns
\* A failed session, or codecs that have been used up, take no further step.
CHECK_DEADLOCK FALSE
