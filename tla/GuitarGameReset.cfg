SPECIFICATION Spec
CONSTANTS
  green = green
  red = red
  none = none
  Lanes = {green}
  NoKey = none
  Codes <- MCCodes
  KeyCode <- MCKeyCode
  YMax = 4
  YStep = 1
  HitLo = 0
  HitHi = 3
  ScoreMod = 2
  TurnVal = 3
PROPERTIES
  EveryHitIsScored
