CONSTANTS
  Programs <- AllPrograms
  Arguments <- AllArguments
  MaxArguments = 4
  Values <- Any
  NoValue = NoValue
  IntegerTexts <- Integers
  BooleanTexts <- Booleans
  MaxOptions = 2
  KeyBufferSize = 4
SPECIFICATION Spec
INVARIANTS
  TypeOK
  StatusFollowsArguments
  StoreHoldsWhatHelpSays
  UnreadUnlessOk
PROPERTIES
  AlwaysAdvances
CHECK_DEADLOCK FALSE
