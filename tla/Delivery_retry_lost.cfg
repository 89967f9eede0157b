SPECIFICATION Spec
CONSTANTS
  d1 = d1
  d2 = d2
  d3 = d3
  j1 = j1
  j2 = j2
  j3 = j3
  j4 = j4
  j5 = j5
  Deliveries = {d1}
  Jobs = {j1, j2}
  Channel <- OnePush
  JobFor <- TwoJobsOfOne
  MaxRows = 1
  MaxAttempts = 2
  MessageEvents = {}
  MaxFaults = 0
  MaxRetries = 1
INVARIANT
  RetriedIsQueued
CHECK_DEADLOCK FALSE
