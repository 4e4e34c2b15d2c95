\* Two clients at once, after a mode change could not restart the encoder.
SPECIFICATION SafetySpec
CONSTANTS
  Conns  = {c1, c2}
  Paired = {c1, c2}
  NoConn = nobody
  Faults = {"restart"}
INVARIANT OneClientAtATime
CHECK_DEADLOCK FALSE
