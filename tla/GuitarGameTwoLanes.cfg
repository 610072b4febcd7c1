SPECIFICATION FairSpec
CONSTANTS
  green = green
  red = red
  none = none
  Lanes = {green, red}
  NoKey = none
  Codes <- MCCodes
  KeyCode <- MCKeyCode
  YMax = 11
  YStep = 3
  HitLo = 2
  HitHi = 8
  ScoreMod = 2
  TurnVal = 1
INVARIANTS
  TypeOK
  OnePointPerNote
  CountedNoteIsScored
  BoundedTurn
PROPERTIES
  HitIsScored
  NoPointLost
  BoardSpec
  NoteLands
