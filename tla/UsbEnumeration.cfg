SPECIFICATION FairSpec
CONSTANTS
  NReq = 9
  BogusAfter = 5
  Tries = 2
  SleepEnough = TRUE
  MaxPlugs = 2
INVARIANTS
  TypeOK
  SetupTaken
  DoneMeansExecuted
PROPERTIES
  KeepsPolling
CHECK_DEADLOCK FALSE
