\* A rebound decoder is fed before the next keyframe: the picture stays frozen.
SPECIFICATION Spec
CONSTANTS
  MaxCodec   = 2
  MaxConfig  = 1
  MaxSurface = 1
  Buffers    = 2
  LateCallbacks = FALSE
PROPERTY PictureComesBack
