CONSTANTS
  Capacity = 2
  Indexes = 4
  CounterMax = 2
  SequenceMax = 8
SPECIFICATION FairSpec
\* The system stops once the numbers are exhausted or no task could be created.
CHECK_DEADLOCK FALSE
INVARIANTS
  NoDataRace
  LossIsCounted
PROPERTIES
  ImplementsLog
  QueuedIsWritten
