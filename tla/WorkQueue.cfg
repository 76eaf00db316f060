SPECIFICATION McSpec
CONSTANTS
  Items <- McItems
  Coordinators <- McCoordinators
  Workers = 2
  MaxAttempts = 2
  DryRun = FALSE
  MaxInterruptions = 2
CHECK_DEADLOCK FALSE
INVARIANTS
  TypeOK
  CompletedHasBars
  RowsWithinCrashes
  AttemptsWithinLimit
PROPERTIES
  SettledStays
  EveryItemSettles
