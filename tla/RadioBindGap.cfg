\* The documented time limit on the binding.
CONSTANTS
  Shells <- NoShells
  Faults <- NoFaults
SPECIFICATION FairSpec
PROPERTY BindTimesOut
CHECK_DEADLOCK FALSE
