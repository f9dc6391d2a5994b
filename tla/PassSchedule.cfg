\* Both builds, overlapping passes, entries in every order.
CONSTANTS
  Second = 2
  TableSize = 3
  Reported = 2
  MaxEntries = 2
  Horizon = 9
  Nowhere = "nowhere"
  Listed <- MCListed
  Locations <- MCLocations
  Orbit <- MCOrbit
SPECIFICATION Spec
INVARIANTS
  TypeOK
  OnePassThroughout
  NothingLeft
  StatusInTable
PROPERTIES
  EarliestArmed
  ScheduleRefines
  PassServed
\* main() waits for ever once the last pass has begun.
CHECK_DEADLOCK FALSE
