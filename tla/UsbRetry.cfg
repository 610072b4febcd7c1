SPECIFICATION FairSpec
CONSTANTS
  NReq = 9
  BogusAfter = 5
  Tries = 1
  SleepEnough = TRUE
  MaxPlugs = 0
PROPERTIES
  ResentIfFailed
CHECK_DEADLOCK FALSE
