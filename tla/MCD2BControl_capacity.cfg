SPECIFICATION ControlSpec
CONSTANTS
  MaxMessage = 14
  MaxDepth = 2
  MaxNodes = 5
  MaxMembers = 2
  MaxItems = 2
  MaxPerObject = 2
  MaxString = 8
  PoolSize = 15
  Strings <- MCStrings
  Documents <- MCDocuments
INVARIANT StoresAreInside
