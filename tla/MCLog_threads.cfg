CONSTANTS
  Threads = {t1, t2}
  Buffers = {b}
  Levels <- OneLevel
  Sizes <- TwoSizes
  Capacity = 3
  Messages = 2
  MaxDrains = 2
SPECIFICATION Spec
SYMMETRY ThreadSymmetry
INVARIANTS
  BufferHoldsItsRecords
  CounterNeverAhead
CHECK_DEADLOCK FALSE
