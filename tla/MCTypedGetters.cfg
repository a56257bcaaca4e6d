CONSTANTS
  Base = 3
  LongMax = 15
  MaxCharacters = 5
SPECIFICATION Spec
INVARIANTS
  IntegerIsTheNumber
  AcceptedIsRead
CHECK_DEADLOCK FALSE
