SPECIFICATION Spec
CONSTANTS
  v1 = v1
  v2 = v2
  Videos = {v1, v2}
  MaxBytes = 1
  Backups <- SomeBackups
  MaxLsn = 1
  MaxPulls = 1
  MaxFaults = 1
INVARIANTS TypeOK OldOrNew HitIsComplete DirBounded
PROPERTIES NeverOlder
CHECK_DEADLOCK FALSE
SYMMETRY AnyOrder
