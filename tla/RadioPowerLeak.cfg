\* The end of a satellite window whose link did not open.
CONSTANTS
  Shells <- NoShells
  Faults <- OpenFault
SPECIFICATION Spec
INVARIANT WindowPowersDown
CHECK_DEADLOCK FALSE
