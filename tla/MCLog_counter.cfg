CONSTANTS
  Threads = {t}
  Buffers = {b}
  Levels <- TwoLevels
  Sizes <- TwoSizes
  Capacity = 3
  Messages = 2
  MaxDrains = 1
SPECIFICATION Spec
INVARIANTS
  CountedWereWritten
CHECK_DEADLOCK FALSE
