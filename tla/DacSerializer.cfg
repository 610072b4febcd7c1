SPECIFICATION Spec
CONSTANTS
  Width = 4
  Slots = 6
  HalfMin = 4
  HalfMax = 5
  Samples = {1, 2}
  MaxResets = 1
INVARIANTS
  TypeOK
  FrameWhole
