SPECIFICATION Spec
CONSTANTS
  SnapshotThreshold = 2
  MaxWrites = 4
  MaxLegacy = 2
  MaxAppends = 6
  MaxCrashes = 2
  MaxFailures = 1
INVARIANTS
  TypeOK
  BloomsSound
PROPERTY CrashKeepsState
CHECK_DEADLOCK FALSE
