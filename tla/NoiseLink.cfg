\* Messages of one full chunk and of one byte more.
SPECIFICATION Spec
CONSTANTS
  Sizes = {1, 2}
  ChunkMax = 5
  TagLen = 1
  NoiseMsgMax = 6
  Window = 1
  MaxSent = 3
INVARIANTS
  TypeOK
  OnlyACutIsAnError
PROPERTIES
  Implements
  EverythingArrives
  RefusalIsHeard
\* A connection that has ended does nothing more.
CHECK_DEADLOCK FALSE
