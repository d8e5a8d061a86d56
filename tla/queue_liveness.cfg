SPECIFICATION FairSpec
CHECK_DEADLOCK FALSE
CONSTANTS
  UploadIds = {u1}
  VideoIds = {v1}
  Cap = 3
  MaxGen = 1
  MaxCrashes = 1
  NoTask = NoTask
PROPERTIES
  AddTaskReturns
  QueuedIsFinished
  StoredUploadStarts
  FinishedIsForgotten
