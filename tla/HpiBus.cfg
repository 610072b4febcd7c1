SPECIFICATION Spec
CONSTANTS
  Size = 2
  Unknown = Unknown
  Idle = Idle
  Gap = 4
  Access = 1
  MaxResets = 1
INVARIANTS
  NoContention
PROPERTIES
  MemorySpec
