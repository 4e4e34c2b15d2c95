\* A VideoConfig arrives while the surface is being recreated.
SPECIFICATION Spec
CONSTANTS
  MaxCodec   = 3
  MaxConfig  = 2
  MaxSurface = 1
  Buffers    = 1
  LateCallbacks = FALSE
INVARIANT SessionUp
CHECK_DEADLOCK FALSE
