SPECIFICATION FairSpec
CONSTANTS
  OwnerMax = 3
  RequestMax = 2
  SocketMax = 2
  QueueMax = 2
INVARIANTS
  OneWorkPerRequest
  StopsForGood
  ReportedStopsAreReal
  OwnersAgree
PROPERTIES
  VerdictStays
  ImplementsLocalStop
  StopNeedsNoDeadline
