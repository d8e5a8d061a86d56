SPECIFICATION Spec
CHECK_DEADLOCK FALSE
CONSTANTS
  Contents <- MCContents
  Passwords <- MCPasswords
  Given <- MCGiven
  Clients <- MCClients
  MaxUploads = 2
  MaxQueue = 1
  MaxBackups = 1
  MaxRotations = 1
  MaxRestores = 1
  MaxEvents = 2
INVARIANTS
  TypeOK
  KeyOpensVideo
  PasswordOpens
  RestoreGivesBack
PROPERTIES
  ReadableStays
