SPECIFICATION MobileFairSpec
CONSTANTS
  Devices = {d1}
  Files = {f1}
  TaskIds = {t1}
  MaxEdits = 1
  MaxTime = 1
  Threshold = 1
  MaxAttempts = 1
  Starts <- MCStarts
  MaxLsn = 3
  MaxBreaks = 1
  NoMan = NoMan
  NoDb = NoDb
INVARIANTS
  MobileTypeOK
  SuspendedEverywhere
PROPERTIES
  PhoneSettles
