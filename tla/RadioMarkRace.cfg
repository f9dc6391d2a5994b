\* The mark at the end of a satellite window.
CONSTANTS
  Shells <- NoShells
  Faults <- NoFaults
SPECIFICATION Spec
INVARIANT HostBootsController
CHECK_DEADLOCK FALSE
