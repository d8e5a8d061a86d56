----------------------------- MODULE MCFileKeys -----------------------------
(* An instance of FileKeys for TLC: clients with their own salt or the daemon's.           *)
EXTENDS FileKeys, TLC

MCContents  == {"c"}
MCPasswords == {"p", "q"}
MCGiven     == {"q"}
MCClients   == {Master("p", 0), Master("p", 1)}
=============================================================================
