\* Two processes, one after the other while they start; two addresses.
SPECIFICATION Spec
CONSTANTS
  Files <- MCFiles
  Hardware <- MCHardware
  Address = {"", "10.0.0.1", "10.0.0.2"}
  Chosen = {"h264_nvenc", "h264_vaapi"}
  Secret <- MCSecret
  MaxChange = 1
  MaxStart = 3
  Exclusive = TRUE
INVARIANTS
  TypeOK
  PersistForever
  PinIsHonoured
PROPERTIES
  DoctorPredicts
  PairingInfoFollows
\* Every process may have ended and the bound on starts been reached.
CHECK_DEADLOCK FALSE
