\* No fault, the button as the only user, fair scheduling.
CONSTANTS
  Shells <- NoShells
  Faults <- NoFaults
SPECIFICATION FairSpec
INVARIANT NoUnexplainedExit
PROPERTIES
  BindReturns
  WindowEnds
  UserServed
  BeaconResumes
CHECK_DEADLOCK FALSE
