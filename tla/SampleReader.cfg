SPECIFICATION FairSpec
CONSTANTS
  MDiv = 8
  CtrVal = 2
  Words = 4
  MinPress = 5
  MaxPresses = 2
INVARIANTS
  TypeOK
  LoadedSkew
PROPERTIES
  StreamSpec
  SamplesAfterInit
  Plays
