CONSTANTS
  PoolSize <- MCPoolSize
  RingSize <- MCRingSize
  MaxPackets <- MCMaxPackets
  Faults <- NoFaults
SPECIFICATION FairSpec
PROPERTY AckFollowsCommand
CHECK_DEADLOCK FALSE
