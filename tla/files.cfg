SPECIFICATION Spec
CHECK_DEADLOCK FALSE
CONSTANTS
  Paths <- MCPaths
  Base <- MCBase
  Contents <- MCContents
  Parts <- MCParts
  MaxParts = 2
  FirstLocal <- MCLocal
  MaxUploads = 2
  MaxQueue = 2
  MaxFaults = 1
INVARIANTS
  TypeOK
  RowNamesItsVideo
  WholeFile
PROPERTIES
  DownloadIsGenuine
