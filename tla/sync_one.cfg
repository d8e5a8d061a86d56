SPECIFICATION FairSpec
CONSTANTS
  Devices = {d1}
  Files = {f1}
  TaskIds = {t1}
  MaxEdits = 3
  MaxTime = 2
  Threshold = 2
  MaxAttempts = 3
  NoMan = NoMan
  NoDb = NoDb
INVARIANTS
  TypeOK
  SuspendedAfterFailures
  ManifestNotAhead
  RecordedIsOnDrive
PROPERTIES
  SyncEnds
