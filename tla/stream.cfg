SPECIFICATION Spec
CHECK_DEADLOCK FALSE
CONSTANTS
  Source = 3
  Repair = 2
  DataCells = 2
  FrameCells = 6
  MinFrames = 8
  MaxTracked = 2
  Kept = 0
  Sizes = {3, 8}
  TwinSets <- MCTwinSets
  Overheads = {0, 1}
  Misread <- MCMisread
  MaxFaults = 2
INVARIANTS
  TypeOK
  Exact
  Repaired
  InOrder
