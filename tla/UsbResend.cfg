SPECIFICATION Spec
CONSTANTS
  NReq = 9
  BogusAfter = 5
  Tries = 1
  SleepEnough = FALSE
  MaxPlugs = 0
INVARIANTS
  DoneMeansExecuted
CHECK_DEADLOCK FALSE
