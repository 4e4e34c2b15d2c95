\* Every failure the code handles, one mode change, one queued ping.
SPECIFICATION Spec
CONSTANTS
  MaxGen = 2
  Depth  = 2
  MaxOut = 1
  Faults = {"capture", "ffmpeg", "format", "start", "clone", "restart", "read", "vanish"}
INVARIANTS
  TypeOK
  NoStaleFrame
  AnnouncementsKeepUp
\* A session that has ended takes no further step.
CHECK_DEADLOCK FALSE
