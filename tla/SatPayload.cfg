\* Two shells, texts of 0, 1, 12 and 13 characters.
CONSTANTS
  Shells <- MCShells
  Names <- MCNames
  Lengths <- MCLengths
  Intervals <- MCIntervals
SPECIFICATION Spec
INVARIANTS
  TypeOK
  SettingsApplied
  PacketMatchesSetting
