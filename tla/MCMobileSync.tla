---------------------------- MODULE MCMobileSync ----------------------------
(* Instances of MobileSync for TLC; the .cfg file names its constants.      *)
EXTENDS MobileSync, TLC

\* A file is saved and then trashed on a desktop; the phone has pulled once.
Saved    == [EmptyDb EXCEPT !.upd = [f \in Files |-> 1], !.lsn = 1]
Trashed  == [Saved EXCEPT !.trash = Files, !.lsn = 2]
MCStarts == {<<EmptyDb, EmptyDb>>, <<Trashed, Saved>>}
=============================================================================
