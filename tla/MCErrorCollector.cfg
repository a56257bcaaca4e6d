CONSTANTS
  Workers = {w1, w2}
  Appends = 2
  MaxFlushes = 2
SPECIFICATION FairSpec
INVARIANTS
  TypeOK
  CountTracksRecords
  NoAppendLost
  FlushPrintsTheRecords
PROPERTIES
  EveryAppendReturns
  AppendsAreAtomic
CHECK_DEADLOCK FALSE
