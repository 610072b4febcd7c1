SPECIFICATION FairSpec
CONSTANTS
  Period = 16
  RegRom <- SCI_REG_ROM
  DatRom <- SCI_DAT_ROM
  MaxResets = 1
INVARIANTS
  WordsInOrder
  DoneMeansConfigured
PROPERTIES
  BusDiscipline
  SetupSpec
  Configured
