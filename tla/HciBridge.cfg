\* Broken packets, refused packets and events nobody asked for.
CONSTANTS
  Kinds <- MCKinds
  Pool <- MCPool
  Credit <- MCCredit
  EventPool = 2
  RingSize = 1
  MaxPackets = 2
  Faults <- FaultKinds
SPECIFICATION Spec
INVARIANTS
  TypeOK
  NothingLost
PROPERTY PacketAnswered
\* The host may have nothing more to send.
CHECK_DEADLOCK FALSE
