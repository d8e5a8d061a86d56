SPECIFICATION Spec
CHECK_DEADLOCK FALSE
CONSTANTS
  Source = 3
  Repair = 2
  DataCells = 2
  FrameCells = 6
  MinFrames = 8
  MaxTracked = 2
  Kept = 0
  Sizes = {3, 8}
  TwinSets = {{}}
  Overheads = {0}
  Misread <- MCMisread
  MaxFaults = 1
INVARIANTS
  LossRepaired
