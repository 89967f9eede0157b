SPECIFICATION FairSpec
CONSTANTS
  Crons = {"minute", "second", "unknown"}
  Evaluable = {"minute", "second"}
  NextOf <- MCNextOf
  Inputs <- SlotInputs
  Keys = {}
  Horizon = 3
  Copies = 2
  CatchUpLimit = 2
  MaxAttempts = 1
  MaxFaults = 0
  MaxEdits = 1
INVARIANTS
  AskedOnce
  NoGap
PROPERTIES
  DueIsServed
CHECK_DEADLOCK FALSE
