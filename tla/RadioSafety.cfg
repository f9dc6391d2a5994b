\* Every fault, one shell thread.
CONSTANTS
  Shells <- MCShells
  Faults <- FaultKinds
SPECIFICATION Spec
INVARIANTS
  TypeOK
  MutexOwner
  StackAgreement
  UserOffSticks
  BeaconRefreshed
  OneWindowPerArm
  IndInv
PROPERTY MarkStable
CONSTRAINT LapseBound
\* A request in the gap of the stack switch stops main() for ever.
CHECK_DEADLOCK FALSE
