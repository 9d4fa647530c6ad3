\* Two binders with faults and repeated calls, or one that an inspector watches.
SPECIFICATION InspectionSpec
CONSTANTS
  b1 = b1
  b2 = b2
  w1 = w1
  w2 = w2
  Binders <- MCBinders
  Wishes <- MCWishes
  MaxFaults = 2
  MaxRetries = 1
  MaxForeign = 1
  MaxInspections = 1
SYMMETRY Symmetric
CONSTRAINT RivalsUnwatched
INVARIANTS
  CallersConverge
  ReportsAreTrue
PROPERTIES
  KeepsContract
CHECK_DEADLOCK FALSE
