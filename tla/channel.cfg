SPECIFICATION FairSpec
CONSTANTS
  QueueCapacity = 3
  PopsPerCallback = 2
  SwapsPerCallback = 1
  Kinds <- EveryKind
  MaxIssued = 4
  MaxFailures = 1
  MaxFaults = 1
  NoCmd = NoCmd
INVARIANTS AckGapless AckReproducesProcessedSeq LatestWins Conservation
PROPERTIES NoStaleIr EveryPushIsAcked
CHECK_DEADLOCK FALSE
