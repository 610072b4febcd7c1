SPECIFICATION FairSpec
CONSTANTS
  BufLen = 3
  HwDepth = 2
  Margin = 1
  MaxCall = 2
  MaxSent = 3
  MaxTyped = 3
INVARIANTS
  TypeOK
  NoneUnhandled
  Armed
PROPERTIES
  StreamSpec
  AllHeard
  CallsReturn
CHECK_DEADLOCK FALSE
