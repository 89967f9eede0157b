SPECIFICATION Spec
CONSTANTS
  Crons = {"minute", "second", "unknown"}
  Evaluable = {"minute", "second"}
  NextOf <- MCNextOf
  Inputs <- WorkerInputs
  Keys = {1}
  Horizon = 2
  Copies = 1
  CatchUpLimit = 2
  MaxAttempts = 2
  MaxFaults = 2
  MaxEdits = 0
INVARIANTS
  ActiveRunHasJob
PROPERTIES
  ReplacedStaysDown
CHECK_DEADLOCK FALSE
