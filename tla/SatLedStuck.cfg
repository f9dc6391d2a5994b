CONSTANTS
  PoolSize <- MCPoolSize
  RingSize <- MCRingSize
  MaxPackets <- MCMaxPackets
  Faults <- FailedSending
SPECIFICATION FairSpec
INVARIANT TransmittingOnlyInside
CHECK_DEADLOCK FALSE
