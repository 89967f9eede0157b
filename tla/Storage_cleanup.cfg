\* Two screenshots of one user, two requests in flight, two faults, two
\* attempts of an erasure.
SPECIFICATION FairSpec
CONSTANTS
  Uploads = {"one", "two"}
  Users = {"a", "b"}
  Calls = {1, 2}
  Keys = {1, 2}
  Plans <- ScreenshotPlans
  MaxFaults = 2
  MaxAttempts = 2
  NoFile = "none"
PROPERTIES
  ExpiredIsSwept
  EventEnds
\* every upload may be finished and every account left
CHECK_DEADLOCK FALSE
