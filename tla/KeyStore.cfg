\* Every failure of the flash and a reset at any time.
CONSTANTS
  Shells <- MCShells
  Keys <- MCKeys
  Blank = "blank"
  Faults <- FaultKinds
SPECIFICATION Spec
INVARIANTS
  TypeOK
  KeySurvives
  KeyWhole
PROPERTY WaitEnds
