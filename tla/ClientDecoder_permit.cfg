\* A frame is being fed while the surface is recreated: a second permit.
SPECIFICATION Spec
CONSTANTS
  MaxCodec   = 2
  MaxConfig  = 1
  MaxSurface = 1
  Buffers    = 2
  LateCallbacks = FALSE
INVARIANT OneInFlight
