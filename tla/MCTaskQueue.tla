---------------------------- MODULE MCTaskQueue -----------------------------
(* Instances of TaskQueue for TLC; each .cfg file names its constants.      *)
EXTENDS TaskQueue, TLC
=============================================================================
