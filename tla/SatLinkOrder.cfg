CONSTANTS
  PoolSize <- MCPoolSize
  RingSize <- MCRingSize
  MaxPackets <- MCMaxPackets
  Faults <- FaultKinds
SPECIFICATION FairSpec
INVARIANTS TypeOK InOrder BufferBalance InFlightBound IndInv PoolNeverStuck
PROPERTIES AckIsOwn LinkRefines AckArrives WindowCloses
CHECK_DEADLOCK FALSE
