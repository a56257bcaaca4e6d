CONSTANTS
  Threads = {t}
  Buffers = {b1, b2}
  Levels <- OneLevel
  Sizes <- OneSize
  Capacity = 3
  Messages = 2
  MaxDrains = 2
SPECIFICATION Spec
SYMMETRY BufferSymmetry
INVARIANTS
  NothingLostInSilence
  SourceOrder
CHECK_DEADLOCK FALSE
