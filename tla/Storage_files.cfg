\* Two uploads of every kind, two requests in flight, one fault.
SPECIFICATION Spec
CONSTANTS
  Uploads = {"one", "two"}
  Users = {"a", "b"}
  Calls = {1, 2}
  Keys = {1, 2}
  Plans <- FilePlans
  MaxFaults = 1
  MaxAttempts = 1
  NoFile = "none"
INVARIANTS
  TypeOK
  UsedIsReadable
  ObjectHasOwner
  ErasedIsGone
\* every upload may be finished and every account left
CHECK_DEADLOCK FALSE
