SPECIFICATION Spec
CHECK_DEADLOCK FALSE
CONSTANTS
  Paths <- OnePath
  Base <- OneBase
  Contents <- OneContent
  Parts <- OnePart
  MaxParts = 1
  FirstLocal <- OneLocal
  MaxUploads = 2
  MaxQueue = 2
  MaxFaults = 1
PROPERTIES
  OnlyOrphansGo
