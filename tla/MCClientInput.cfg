SPECIFICATION Spec
CONSTANTS
  MaxHeader = 46
  MaxTarget = 4
  MaxName = 4
  MaxValue = 4
  MaxOrigin = 3
  Requests <- MCRequests
  Openers <- MCOpeners
  MaxRequests = 2
  MaxBlock = 7
  MaxWaiting = 3
  MaxMessage = 14
  MaxDepth = 2
  MaxNodes = 5
  MaxMembers = 2
  MaxItems = 2
  MaxPerObject = 2
  MaxString = 8
  PoolSize = 15
  Strings <- MCStrings
  Documents <- MCDocuments
INVARIANTS
  TypeOK
  ScannerAgrees
  DocumentIsSound
  VerdictMatchesMessage
