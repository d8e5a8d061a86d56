---------------------------- MODULE MCLocalDisk ----------------------------
(* Backups of another device: a plain and a sealed one, and one whose      *)
(* manifest names a newer database.                                        *)
EXTENDS LocalDisk, TLC
CONSTANTS v1, v2
Pushed(sealed, lsn) ==
  [lsn |-> 1, sealed |-> sealed, db |-> [lsn |-> lsn, by |-> "drive"]]
SomeBackups == {Pushed(FALSE, 1), Pushed(TRUE, 1), Pushed(FALSE, 0)}
AnyOrder == Permutations(Videos)
=============================================================================
