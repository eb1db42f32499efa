SPECIFICATION Spec
CONSTANTS
  AcqDepth = 1
  OutDepth = 1
  SeqLimit = 1
  TokenMax = 3
  PumpBurst = 1
  Samples = 1
  MaxServer = 2
  MaxOwner = 2
  MaxStream = 2
CHECK_DEADLOCK FALSE
INVARIANTS
  PendingIsQueued
  ProducerFollowsPipeline
  QuietAfterStopServer
PROPERTY
  SendsReachTheirOwner
