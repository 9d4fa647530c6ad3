SPECIFICATION Spec
CONSTANTS
  MaxFaults = 3
  MaxMeddles = 3
INVARIANTS
  LedgerTellsTheEffect
  InspectionIsRight
PROPERTIES
  KeepsContract
CHECK_DEADLOCK FALSE
