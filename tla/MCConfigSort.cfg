CONSTANTS
  Keys <- FiveKeys
  Garbage = Garbage
  MaxEntries = 5
SPECIFICATION FairSpec
INVARIANTS
  TypeOK
  PassMerges
PROPERTIES
  SortReturns
  ImplementsSort
CHECK_DEADLOCK FALSE
