SPECIFICATION FairSpec
CONSTANTS
  TickPeriod = 3
  MaxResets = 1
INVARIANTS
  NeverZero
PROPERTIES
  EveryLaneServed
