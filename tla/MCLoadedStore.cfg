CONSTANTS
  Keys <- ThreeKeys
  Items <- ItemsOfThree
  InitialCapacity = 1
  MaxItems = 1
  EnvironmentKeys = {2}
  NoKey = NoKey
  BufferCapacity = 1
  MaxLines = 2
  MaxEntries = 1
SPECIFICATION LoadedSpec
PROPERTIES
  GettersAnswerTheLastLayer
CHECK_DEADLOCK FALSE
