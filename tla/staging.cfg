SPECIFICATION MCSpec
CONSTANTS
  Items = 2
  Adopts = FALSE
  MaxFaults = 3
  MaxMeddles = 3
  MaxCleanups = 2
  Paths = 2
  Calls <- Inspections
  MaxMeddling = 2
INVARIANTS
  SealedWhileActive
  CleanupVerdictIsRight
  MeasuredTogether
  RestsOnLiveLeases
  NothingProtectedIsRead
PROPERTIES
  OthersAreLeftAlone
CHECK_DEADLOCK FALSE
