\* A message of two chunks for a client that retries after a timeout.
SPECIFICATION RetrySpec
CONSTANTS
  Sizes = {1, 2}
  ChunkMax = 5
  TagLen = 1
  NoiseMsgMax = 6
  Window = 1
  MaxSent = 2
INVARIANT
  TimeoutIsHarmless
CHECK_DEADLOCK FALSE
