CONSTANTS
  Keys = {k1, k2}
  EnvironmentKeys = {k1}
  NoKey = NoKey
  BufferCapacity = 1
  MaxLines = 3
  MaxEntries = 2
SPECIFICATION FairSpec
INVARIANTS
  TypeOK
  WholeFileRead
  LastLayerWins
PROPERTIES
  LoadingEnds
CHECK_DEADLOCK FALSE
