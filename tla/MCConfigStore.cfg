CONSTANTS
  Keys <- FourKeys
  Items = {a, b}
  InitialCapacity = 1
  MaxItems = 2
SPECIFICATION FairSpec
INVARIANTS
  TypeOK
  ArrayIsSound
  SortedMeansOrdered
  LookupWindow
PROPERTIES
  LookupEnds
  EachCallAnswers
