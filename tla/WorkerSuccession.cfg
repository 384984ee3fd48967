SPECIFICATION Spec
CONSTANTS
  MaxGens = 2
  MaxTenures = 2
  MaxWaves = 2
  MaxConflicts = 1
  MaxTroubles = 2
  MaxSessions = 1
  MayClose = TRUE
CHECK_DEADLOCK FALSE
INVARIANTS
  NoOrphanLease
PROPERTY
  LeaseKept
  Recovers
