SPECIFICATION FairSpec
CHECK_DEADLOCK FALSE
CONSTANTS
  UploadIds = {u1}
  VideoIds = {v1}
  Cap = 1
  MaxGen = 2
  MaxCrashes = 0
  NoTask = NoTask
PROPERTIES
  AddTaskReturns
