CONSTANTS
  MaxReentries = 2
SPECIFICATION FairSpec
INVARIANTS
  TypeOK
  NothingUsedAfterFree
  AllOrNothing
  CallbacksInOrder
  OneSuccessAtMost
PROPERTIES
  SignalsStopTheRun
