SPECIFICATION Spec
CONSTANTS
  v1 = v1
  v2 = v2
  Videos = {v1}
  MaxBytes = 1
  Backups <- SomeBackups
  MaxLsn = 1
  MaxPulls = 1
  MaxFaults = 0
PROPERTIES HealthyStays
CHECK_DEADLOCK FALSE
