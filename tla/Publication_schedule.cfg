SPECIFICATION FairSpec
CONSTANTS
  DeviceCount = 1
  PageSize = 2
  JobCount = 4
  MaxAttempts = 2
  MaxTime = 2
  Pushes = {"on", "off", "unwanted"}
  MaxEdits = 1
  MaxRetries = 1
  MaxFaults = 2
INVARIANTS
  TypeOK
  ScheduledHasJob
PROPERTIES
  ScheduleEnds
  CancelFinal
CHECK_DEADLOCK FALSE
