\* Three connections, one of them not paired; every failure the code handles.
SPECIFICATION Spec
CONSTANTS
  Conns  = {c1, c2, c3}
  Paired = {c1, c2}
  NoConn = nobody
  Faults = {"register", "start", "restart"}
INVARIANTS
  TypeOK
  RegistryIsCurrent
PROPERTIES
  OneHolder
  OnlyThePairedDisturb
  StoppedSessionsUnwind
  VanishedPhoneReleases
\* Once every connection has come and gone nothing happens any more.
CHECK_DEADLOCK FALSE
