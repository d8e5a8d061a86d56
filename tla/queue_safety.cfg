SPECIFICATION Spec
CHECK_DEADLOCK FALSE
CONSTANTS
  UploadIds = {u1}
  VideoIds = {v1}
  Cap = 2
  MaxGen = 2
  MaxCrashes = 2
  NoTask = NoTask
INVARIANTS
  TypeOK
  DeliveredOnce
  PendingIsQueued
  PendingUploadIsStored
  ListedIsStored
  RemovedDoesNotResume
PROPERTIES
  FinishedIsFinal
  ImplementsJobQueue
