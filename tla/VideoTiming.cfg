SPECIFICATION FairSpec
CONSTANTS
  H_TOTAL = 10
  V_TOTAL = 9
  HDisplay = 6
  VDisplay = 5
  HSyncLo = 7
  HSyncHi = 9
  VSyncLo = 6
  VSyncHi = 8
  SpriteX = 3
  SpriteSize = 2
  YStep = 2
  MaxResets = 2
INVARIANTS
  TypeOK
  PixelOfTheBeam
  SyncOutsidePicture
PROPERTIES
  MovesUnseen
  FramesGoOn
