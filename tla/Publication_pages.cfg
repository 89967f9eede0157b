SPECIFICATION FairSpec
CONSTANTS
  DeviceCount = 2
  PageSize = 1
  JobCount = 4
  MaxAttempts = 2
  MaxTime = 1
  Pushes = {"on"}
  MaxEdits = 0
  MaxRetries = 0
  MaxFaults = 1
INVARIANT
  FanoutComplete
PROPERTIES
  RunStaysOpen
  EveryDeviceReached
CHECK_DEADLOCK FALSE
