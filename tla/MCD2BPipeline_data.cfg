SPECIFICATION FairSpec
CONSTANTS
  AcqDepth = 1
  OutDepth = 1
  SeqLimit = 4
  TokenMax = 3
  PumpBurst = 2
  Samples = 3
  MaxServer = 1
  MaxOwner = 1
  MaxStream = 1
CHECK_DEADLOCK FALSE
INVARIANT
  WireIsHonest
PROPERTIES
  ImplementsContract
  OrderlyStopEnds
  SamplesDrain
