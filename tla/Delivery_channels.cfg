SPECIFICATION FairSpec
CONSTANTS
  d1 = d1
  d2 = d2
  d3 = d3
  j1 = j1
  j2 = j2
  j3 = j3
  j4 = j4
  j5 = j5
  Deliveries = {d1, d2, d3}
  Jobs = {j1, j2, j3, j4, j5}
  Channel <- AllChannels
  JobFor <- JobsOfAll
  MaxRows = 1
  MaxAttempts = 2
  MessageEvents = {"cancel", "expire"}
  MaxFaults = 2
  MaxRetries = 1
INVARIANTS
  TypeOK
  ClaimOwnsDelivery
  NoAutomaticResend
  ExposureOnRecord
  NotOrphaned
  RunFollows
PROPERTIES
  Settles
  KeepsPromise
CHECK_DEADLOCK FALSE
