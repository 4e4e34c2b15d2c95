SPECIFICATION Spec
CONSTANTS
  Devices <- MCDevices
  Source <- MCSource
  MaxConnections = 2
  MaxChoices = 2
INVARIANTS
  TypeOK
  HeardAsSaid
  FitsTheDevice
  PickerTellsTheTruth
\* After the last connection nothing happens any more.
CHECK_DEADLOCK FALSE
