-------------------------- MODULE LocalDiskProofs --------------------------
(***************************************************************************)
(* Machine-checked proofs about LocalDisk, for every set of videos, limit, *)
(* set of backups and bound.                                               *)
(***************************************************************************)
EXTENDS LocalDisk, FiniteSetTheorems, TLAPS

-----------------------------------------------------------------------------
(* Kinds of files.                                                         *)
LEMMA FileKinds ==
  /\ Fresh \in Db /\ Nothing \in Files /\ Torn \in Files /\ Nothing # Torn
  /\ ~Whole(Nothing) /\ ~Whole(Torn)
  /\ \A d \in Files : Whole(d) <=> d \in Db
  /\ \A d \in Db : d \in Files /\ Whole(d) /\ d # Nothing /\ d # Torn /\ d.lsn \in Lsns
  /\ \A d \in Files : d.lsn \in Nat
  /\ Nothing.lsn = 0
  BY DiskAssumption DEF Files, Db, Fresh, Nothing, Torn, Whole, Lsns

LEMMA DriveKinds ==
  ASSUME NEW d \in Backups
  PROVE  d.db \in Db /\ d.lsn \in Lsns /\ d.lsn \in Nat /\ d.sealed \in BOOLEAN
  BY DiskAssumption DEF Remote, Lsns

\* NoPull is a pull.
LEMMA NoPullType == NoPull \in Pull /\ NoPull.pc = "idle" /\ ~NoPull.kept /\ NoPull.result = "none"
  BY FileKinds, DiskAssumption DEF NoPull, Pull, Stages, Lsns

-----------------------------------------------------------------------------
(* Types.  A WAL without its database does not exist.                      *)
TypeInv == TypeOK /\ (main = Nothing => wal = Nothing)

LEMMA OnDiskType ==
  ASSUME TypeInv
  PROVE  /\ OnDisk \in Files /\ Seen \in Files
         /\ OnDisk = Nothing <=> main = Nothing
  BY DEF TypeInv, TypeOK, OnDisk, Seen

LEMMA DisturbedType == TypeInv => Disturbed \in Pull
  BY NoPullType DEF TypeInv, TypeOK, Disturbed, Pull

LEMMA TypeInit == Init => TypeInv
<1> SUFFICES ASSUME Init PROVE TypeInv
  OBVIOUS
<1> USE DEF Init
<1>1. {main, wal, backup, temp, aside} \subseteq Files /\ main # Nothing
  BY FileKinds
<1>2. pull \in Pull
  BY NoPullType
<1>3. faults \in 0..MaxFaults /\ cuts \in 0..faults /\ pulls \in 0..MaxPulls
  BY DiskAssumption
<1>4. QED
  BY <1>1, <1>2, <1>3 DEF TypeInv, TypeOK

LEMMA TypeNext == TypeInv /\ [Next]_vars => TypeInv'
<1> SUFFICES ASSUME TypeInv, [Next]_vars PROVE TypeInv'
  OBVIOUS
<1> USE DEF TypeInv, TypeOK, disk, shards
<1>a. OnDisk \in Files /\ Seen \in Files /\ (OnDisk = Nothing <=> main = Nothing)
  BY OnDiskType
<1>b. Disturbed \in Pull
  BY DisturbedType
<1>c. \A stage \in Stages : [pull EXCEPT !.pc = stage] \in Pull
  BY DEF Pull
<1>d. \A r \in {"none", "ok", "failed", "stuck", "cut"} : Ended(r) \in Pull
  BY NoPullType DEF Pull, Ended
<1>e. entries \in SUBSET Videos /\ Found \subseteq SUBSET Videos
  BY DEF Found
<1>1. CASE Edit
  <2>1. Seen \in Db /\ Seen.lsn < MaxLsn
    BY <1>1, <1>a, FileKinds DEF Edit, Usable
  <2>2. [Seen EXCEPT !.lsn = @ + 1, !.by = "here"] \in Db
    <3>1. Seen.lsn + 1 \in Lsns
      BY <2>1, DiskAssumption DEF Db, Lsns
    <3>2. QED
      BY <2>1, <3>1 DEF Db
  <2>3. main # Nothing \/ wal' = Nothing
    BY <1>1, <1>a DEF Edit, Commit, Usable
  <2>4. QED
    BY <1>1, <1>b, <2>2, <2>3, FileKinds DEF Edit, Commit
<1>2. CASE Checkpoint
  BY <1>2, FileKinds DEF Checkpoint
<1>3. CASE NewBackup
  BY <1>3 DEF NewBackup
<1>4. ASSUME NEW force \in BOOLEAN, StartPull(force) PROVE TypeInv'
  <2>1. drive.lsn \in Lsns /\ drive.sealed \in BOOLEAN
    BY <1>4, DriveKinds DEF StartPull
  <2>2. pull' \in Pull
    BY <1>4, <1>a, <2>1, FileKinds DEF StartPull, Pull, Stages
  <2>3. pulls' \in 0..MaxPulls
    BY <1>4, DiskAssumption DEF StartPull
  <2>4. QED
    BY <1>4, <2>2, <2>3 DEF StartPull
<1>5. CASE CopyBackup
  <2>1. backup' \in Files
    BY <1>5, FileKinds DEF CopyBackup
  <2>2. pull' \in Pull
    BY <1>5, <2>1 DEF CopyBackup, Pull, Stages
  <2>3. QED
    BY <1>5, <2>1, <2>2 DEF CopyBackup
<1>6. CASE Fetch
  <2>1. drive.db \in Files
    BY DriveKinds, FileKinds DEF NoDrive
  <2>2. pull' \in Pull /\ temp' \in Files
    BY <1>6, <2>1, FileKinds DEF Fetch, Pull, Stages
  <2>3. QED
    BY <1>6, <2>2 DEF Fetch
<1>7. CASE FetchFails
  BY <1>7, <1>d DEF FetchFails, End
<1>8. CASE CloseDb
  <2>1. pull' \in Pull
    BY <1>8, <1>c DEF CloseDb, Go, Stages
  <2>2. QED
    BY <1>8, <1>a, <2>1, FileKinds DEF CloseDb
<1>9. CASE RenameIn
  <2>1. pull' \in Pull
    BY <1>9, <1>c, <1>d DEF RenameIn, Go, End, Stages
  <2>2. QED
    BY <1>9, <1>a, <2>1, FileKinds DEF RenameIn, Detach
<1>10. CASE OpenNew
  <2>1. pull' \in Pull
    BY <1>10, <1>c, <1>d DEF OpenNew, Go, End, Stages
  <2>2. QED
    BY <1>10, <1>a, <1>e, <2>1, FileKinds DEF OpenNew, InitDb, InitFails
<1>11. CASE RemoveBackup
  BY <1>11, <1>d, FileKinds DEF RemoveBackup, End
<1>12. CASE RemoveFaulty
  <2>1. pull' \in Pull
    BY <1>12, <1>c DEF RemoveFaulty, Go, Stages
  <2>2. QED
    BY <1>12, <1>a, <2>1, FileKinds DEF RemoveFaulty, Detach
<1>13. CASE RestoreBackup
  <2>1. pull' \in Pull
    BY <1>13, <1>c, <1>d DEF RestoreBackup, Go, End, Stages
  <2>2. QED
    BY <1>13, <1>a, <2>1, FileKinds DEF RestoreBackup, Detach
<1>14. CASE Reopen
  <2>1. pull' \in Pull
    BY <1>14, <1>d DEF Reopen, End
  <2>2. QED
    BY <1>14, <1>a, <1>e, <2>1, FileKinds DEF Reopen, InitDb, InitFails
<1>15. CASE MatrixCheck
  BY <1>15 DEF MatrixCheck
<1>16. CASE Quarantine
  BY <1>16, <1>a, <1>b, FileKinds DEF Quarantine, Detach
<1>17. CASE AfterQuarantine
  BY <1>17, <1>a, <1>b, <1>e, FileKinds DEF AfterQuarantine, InitDb
<1>18. ASSUME NEW v \in Videos, Miss(v) PROVE TypeInv'
  BY <1>18 DEF Miss, Work, Worker
<1>w. worker # Asleep =>
        /\ worker.video \in Videos
        /\ worker.pc \in {"write", "save"} =>
             worker = [pc |-> worker.pc, video |-> worker.video, data |-> worker.data]
             /\ worker.data \in Decodes
  BY DEF Worker
<1>19. CASE FetchShard
  <2>1. worker' \in Worker \cup {Asleep}
    BY <1>19, <1>w DEF FetchShard, Put, Worker, Doing, Decodes
  <2>2. faults' \in 0..MaxFaults /\ cuts' \in 0..faults'
    BY <1>19, DiskAssumption DEF FetchShard, Fault
  <2>3. QED
    BY <1>19, <2>1, <2>2 DEF FetchShard
<1>20. CASE WriteShard
  <2>1. worker' \in Worker /\ dir' \in [Videos -> {"none", "part"} \cup Decodes]
    BY <1>20, <1>w DEF WriteShard, Put, Worker, Doing
  <2>2. QED
    BY <1>20, <2>1 DEF WriteShard
<1>21. CASE SaveEntry
  BY <1>21 DEF SaveEntry, Work, Worker, Doing
<1>22. CASE Evict
  BY <1>22 DEF Evict, EvictOne, Worker, Doing
<1>23. CASE Damage
  <2>1. faults' \in 0..MaxFaults /\ cuts' \in 0..faults'
    BY <1>23, DiskAssumption DEF Damage, Fault
  <2>2. QED
    BY <1>23, <1>b, <2>1, FileKinds DEF Damage
<1>24. CASE Crash
  <2>1. pull' \in Pull
    BY <1>24, <1>d DEF Crash
  <2>2. faults' \in 0..MaxFaults /\ cuts' \in 0..faults'
    BY <1>24, DiskAssumption DEF Crash, Fault
  <2>3. {main', wal', backup', temp', aside'} \subseteq Files
    BY <1>24, <1>a, FileKinds DEF Crash
  <2>4. handle' = "open" => main' # Nothing
    BY <1>24, <1>a, FileKinds DEF Crash
  <2>5. QED
    BY <1>24, <1>a, <1>e, <2>1, <2>2, <2>3, <2>4, FileKinds DEF Crash
<1>25. CASE UNCHANGED vars
  BY <1>25 DEF vars
<1>26. QED
  BY <1>1, <1>2, <1>3, <1>4, <1>5, <1>6, <1>7, <1>8, <1>9, <1>10, <1>11, <1>12, <1>13,
     <1>14, <1>15, <1>16, <1>17, <1>18, <1>19, <1>20, <1>21, <1>22, <1>23, <1>24, <1>25
     DEF Next

(* Every variable keeps its type.                                          *)
THEOREM TypeCorrect == Spec => []TypeOK
<1>1. TypeInv => TypeOK
  BY DEF TypeInv
<1>2. QED
  BY <1>1, TypeInit, TypeNext, PTL DEF Spec

-----------------------------------------------------------------------------
(* The pull.                                                               *)
Before    == {"copy", "fetch", "close", "rename"}
Verified  == {"close", "rename", "open", "clean", "faulty", "restore", "reopen"}
Installed == {"open", "clean", "faulty"}

\* Where a pull is and what it has read go together.
PullShape ==
  /\ pull.pc # "idle" => drive # NoDrive
  /\ pull.result # "none" => pull.pc = "idle"
  /\ pull.kept => /\ pull.old # Nothing
                  /\ pull.pc = "idle" => pull.result # "none"
                  /\ pull.pc # "idle" => ~pull.edited
  /\ pull.pc \in Verified => pull.new \in Db
  /\ pull.pc \in {"close", "rename"} => temp \in {Nothing, pull.new}
  /\ (pull.pc # "idle" /\ ~pull.force /\ ~pull.blind) => pull.lsn > pull.old.lsn
  /\ handle = "moved" => (main = Nothing \/ pull.pc \in {"open", "reopen"})

\* As long as nobody edits, the old database stays until it is replaced.
OldStays ==
  /\ (pull.pc \in Before /\ ~pull.edited) => OnDisk = pull.old
  /\ (pull.pc = "rename" /\ ~pull.edited) => wal = Nothing

\* Then the backup keeps what was copied until the new one is open or the copy
\* is back.
Outcome ==
  pull.kept =>
    /\ pull.pc \in (Verified \ {"reopen"}) \cup {"fetch"} => backup = pull.saved
    /\ pull.pc \in {"faulty", "restore", "reopen"} => pull.saved # Nothing
    /\ pull.pc \in Installed => OnDisk = pull.new
    /\ pull.pc = "clean" => handle = "open"
    /\ pull.pc = "restore" => OnDisk = Nothing
    /\ pull.pc = "reopen" => OnDisk = pull.saved
    /\ pull.result = "ok" => OnDisk = pull.new /\ pull.new \in Db /\ handle = "open"
    /\ pull.result = "failed" => OnDisk \in {pull.old, pull.saved} \ {Nothing}
    /\ pull.result \in {"stuck", "cut"} =>
         \/ OnDisk \in {pull.old, pull.new, pull.saved} \ {Nothing}
         \/ OnDisk \in {Nothing, Fresh} /\ backup = pull.saved

PullInv == PullShape /\ OldStays /\ Outcome

LEMMA PullInit == Init => PullInv
  BY NoPullType, FileKinds
     DEF Init, PullInv, PullShape, OldStays, Outcome, NoPull, Before, Verified, Installed

\* A step that touches neither the files nor the pull.
LEMMA PullUntouched ==
  ASSUME PullInv, UNCHANGED <<main, wal, backup, temp, handle, pull>>,
         drive' = drive \/ drive' # NoDrive
  PROVE  PullInv'
  BY DEF PullInv, PullShape, OldStays, Outcome, OnDisk

\* A change by somebody else ends what the pull promises.
LEMMA PullDisturbed ==
  ASSUME TypeInv, PullInv, pull' = Disturbed, UNCHANGED <<temp, drive>>,
         handle' = "moved" => (main' = Nothing \/ pull.pc \in {"open", "reopen"})
  PROVE  PullInv'
<1>1. CASE pull.pc = "idle"
  BY <1>1, NoPullType
     DEF PullInv, PullShape, OldStays, Outcome, Disturbed, NoPull, Before, Verified, Installed
<1>2. CASE pull.pc # "idle"
  <2>1. /\ pull'.pc = pull.pc /\ ~pull'.kept /\ pull'.edited /\ pull'.result = pull.result
        /\ pull'.new = pull.new /\ pull'.force = pull.force /\ pull'.blind = pull.blind
        /\ pull'.lsn = pull.lsn /\ pull'.old = pull.old
    BY <1>2 DEF Disturbed, TypeInv, TypeOK, Pull
  <2>2. QED
    BY <1>2, <2>1 DEF PullInv, PullShape, OldStays, Outcome
<1>3. QED
  BY <1>1, <1>2

\* The fields of pull' after Go and End.
LEMMA PullFields ==
  ASSUME TypeInv
  PROVE  /\ \A stage \in Stages :
              LET p == [pull EXCEPT !.pc = stage] IN
              /\ p.pc = stage /\ p.result = pull.result /\ p.kept = pull.kept
              /\ p.edited = pull.edited /\ p.old = pull.old /\ p.new = pull.new
              /\ p.force = pull.force /\ p.blind = pull.blind /\ p.lsn = pull.lsn
              /\ p.saved = pull.saved
         /\ \A r :
              LET p == Ended(r) IN
              /\ p.pc = "idle" /\ p.kept = pull.kept
              /\ p.kept => /\ p.result = r /\ p.old = pull.old /\ p.saved = pull.saved
                           /\ p.new = pull.new
  BY DEF TypeInv, TypeOK, Pull, NoPull, Ended

LEMMA PullSteps ==
  ASSUME TypeInv, TypeInv', PullInv,
         \/ \E force \in BOOLEAN : StartPull(force)
         \/ CopyBackup \/ Fetch \/ FetchFails \/ CloseDb \/ RenameIn \/ OpenNew
         \/ RemoveBackup \/ RemoveFaulty \/ RestoreBackup \/ Reopen
  PROVE  PullInv'
<1> USE DEF PullInv, PullShape, OldStays, Outcome, Before, Verified, Installed, At
<1>a. pull.old \in Files /\ pull.kept \in BOOLEAN /\ pull.edited \in BOOLEAN
  BY DEF TypeInv, TypeOK, Pull
<1>1. ASSUME NEW force \in BOOLEAN, StartPull(force) PROVE PullInv'
  <2>1. /\ pull'.pc = "copy" /\ pull'.result = "none" /\ pull'.force = force
        /\ pull'.old = OnDisk /\ pull'.lsn = drive.lsn /\ pull'.edited = FALSE
        /\ pull'.kept = (OnDisk # Nothing) /\ pull'.blind = ~Usable
    BY <1>1 DEF StartPull
  <2>2. OnDisk' = OnDisk
    BY <1>1 DEF StartPull, disk, OnDisk
  <2>3. (~force /\ Usable) => drive.lsn > OnDisk.lsn
    <3> SUFFICES ASSUME ~force, Usable PROVE drive.lsn > OnDisk.lsn
      OBVIOUS
    <3>1. drive.lsn > Seen.lsn
      BY <1>1 DEF StartPull, Newer, LocalLSN
    <3>2. Seen.lsn \in Nat /\ drive.lsn \in Nat
      BY <1>1, OnDiskType, FileKinds, DriveKinds DEF StartPull, TypeInv, TypeOK
    <3>3. Seen = OnDisk \/ OnDisk.lsn = 0
      BY <1>1, OnDiskType, FileKinds DEF StartPull, Seen
    <3>4. QED
      BY <3>1, <3>2, <3>3
  <2>4. handle' = "moved" => main' = Nothing
    BY <1>1 DEF StartPull, disk
  <2>5. temp' = temp /\ drive' # NoDrive
    BY <1>1 DEF StartPull, disk
  <2>6. QED
    BY <2>1, <2>2, <2>3, <2>4, <2>5
<1>2. CASE CopyBackup
  <2>1. /\ pull'.pc = "fetch" /\ pull'.result = pull.result /\ pull'.edited = pull.edited
        /\ pull'.old = pull.old /\ pull'.force = pull.force /\ pull'.blind = pull.blind
        /\ pull'.lsn = pull.lsn /\ pull'.kept = pull.kept /\ pull'.saved = backup'
    BY <1>2 DEF CopyBackup, TypeInv, TypeOK, Pull
  <2>2. QED
    BY <1>2, <2>1 DEF CopyBackup, OnDisk
<1>3. CASE Fetch
  <2>1. /\ pull'.pc = "close" /\ pull'.result = pull.result /\ pull'.edited = pull.edited
        /\ pull'.old = pull.old /\ pull'.force = pull.force /\ pull'.blind = pull.blind
        /\ pull'.lsn = pull.lsn /\ pull'.kept = pull.kept /\ pull'.new = drive.db
        /\ pull'.saved = pull.saved
    BY <1>3 DEF Fetch, TypeInv, TypeOK, Pull
  <2>2. drive.db \in Db
    <3>1. drive # NoDrive
      BY <1>3 DEF Fetch
    <3>2. QED
      BY <3>1, DriveKinds DEF TypeInv, TypeOK
  <2>3. temp' \in {Nothing, pull'.new}
    BY <1>3, <2>1 DEF Fetch
  <2>4. QED
    BY <1>3, <2>1, <2>2, <2>3 DEF Fetch, OnDisk
<1>4. CASE FetchFails
  BY <1>4, PullFields DEF FetchFails, End, OnDisk, disk
<1>5. CASE CloseDb
  BY <1>5, PullFields DEF CloseDb, Go, OnDisk, Stages
<1>6. CASE RenameIn
  <2>1. CASE End("stuck") /\ UNCHANGED <<main, wal, temp, aside, handle>>
    <3>1. /\ pull'.pc = "idle" /\ pull'.kept = pull.kept
          /\ pull'.kept => /\ pull'.result = "stuck" /\ pull'.old = pull.old
                           /\ pull'.saved = pull.saved /\ pull'.new = pull.new
      BY <2>1, PullFields DEF End
    <3>2. QED
      BY <1>6, <2>1, <3>1 DEF RenameIn, OnDisk
  <2>2. CASE temp # Nothing /\ main' = temp /\ temp' = Nothing /\ Detach /\ Go("open")
    <3>1. /\ pull'.pc = "open" /\ pull'.result = pull.result /\ pull'.kept = pull.kept
          /\ pull'.old = pull.old /\ pull'.new = pull.new /\ pull'.edited = pull.edited
          /\ pull'.force = pull.force /\ pull'.blind = pull.blind /\ pull'.lsn = pull.lsn
          /\ pull'.saved = pull.saved
      BY <2>2, PullFields DEF Go, Stages
    <3>2. OnDisk' = pull'.new
      BY <1>6, <2>2, <3>1 DEF RenameIn, Detach, OnDisk
    <3>3. QED
      BY <1>6, <2>2, <3>1, <3>2 DEF RenameIn
  <2>3. QED
    BY <1>6, <2>1, <2>2 DEF RenameIn
<1>7. CASE OpenNew
  <2>1. ASSUME NEW stage \in {"clean", "faulty"}, Go(stage)
        PROVE  /\ pull'.pc = stage /\ pull'.result = pull.result /\ pull'.kept = pull.kept
               /\ pull'.old = pull.old /\ pull'.new = pull.new /\ pull'.edited = pull.edited
               /\ pull'.force = pull.force /\ pull'.blind = pull.blind /\ pull'.lsn = pull.lsn
               /\ pull'.saved = pull.saved
          /\ pull'.saved = pull.saved
    BY <2>1, PullFields DEF Go, Stages
  <2>2. pull.pc = "open" /\ pull.new \in Db /\ pull.new # Nothing
    BY <1>7, FileKinds DEF OpenNew
  <2>3. CASE InitDb /\ Go("clean")
    <3>1. handle' = "open" /\ (OnDisk # Nothing => OnDisk' = OnDisk)
      BY <2>3 DEF InitDb, OnDisk
    <3>2. QED
      BY <1>7, <2>1, <2>2, <2>3, <3>1 DEF OpenNew
  <2>4. CASE /\ InitFails /\ UNCHANGED <<main, wal, aside>>
             /\ IF backup # Nothing THEN Go("faulty") ELSE End("stuck")
    <3>1. handle' # "moved" /\ OnDisk' = OnDisk
      BY <2>4 DEF InitFails, OnDisk
    <3>2. CASE backup # Nothing /\ Go("faulty")
      BY <1>7, <2>1, <2>2, <2>4, <3>1, <3>2 DEF OpenNew
    <3>3. CASE End("stuck")
      <4>1. /\ pull'.pc = "idle" /\ pull'.kept = pull.kept
            /\ pull'.kept => /\ pull'.result = "stuck" /\ pull'.old = pull.old
                             /\ pull'.saved = pull.saved /\ pull'.new = pull.new
        BY <3>3, PullFields DEF End
      <4>2. QED
        BY <1>7, <2>2, <3>1, <4>1 DEF OpenNew
    <3>4. QED
      BY <2>4, <3>2, <3>3
  <2>5. QED
    BY <1>7, <2>3, <2>4 DEF OpenNew
<1>8. CASE RemoveBackup
  BY <1>8, PullFields DEF RemoveBackup, End, OnDisk
<1>9. CASE RemoveFaulty
  BY <1>9, PullFields DEF RemoveFaulty, Detach, Go, OnDisk, Stages
<1>10. CASE RestoreBackup
  <2>1. CASE End("stuck") /\ UNCHANGED <<main, wal, backup, aside, handle>>
    <3>1. /\ pull'.pc = "idle" /\ pull'.kept = pull.kept
          /\ pull'.kept => /\ pull'.result = "stuck" /\ pull'.old = pull.old
                           /\ pull'.saved = pull.saved /\ pull'.new = pull.new
      BY <2>1, PullFields DEF End
    <3>2. QED
      BY <1>10, <2>1, <3>1 DEF RestoreBackup, OnDisk
  <2>2. CASE main' = backup /\ backup' = Nothing /\ Detach /\ Go("reopen")
    <3>1. /\ pull'.pc = "reopen" /\ pull'.result = pull.result /\ pull'.kept = pull.kept
          /\ pull'.old = pull.old /\ pull'.new = pull.new /\ pull'.edited = pull.edited
          /\ pull'.force = pull.force /\ pull'.blind = pull.blind /\ pull'.lsn = pull.lsn
          /\ pull'.saved = pull.saved
      BY <2>2, PullFields DEF Go, Stages
    <3>2. OnDisk' = backup
      BY <2>2 DEF Detach, OnDisk
    <3>3. QED
      BY <1>10, <2>2, <3>1, <3>2 DEF RestoreBackup
  <2>3. QED
    BY <1>10, <2>1, <2>2 DEF RestoreBackup
<1>11. CASE Reopen
  <2>1. ASSUME NEW r, End(r)
        PROVE  /\ pull'.pc = "idle" /\ pull'.kept = pull.kept
               /\ pull'.kept => /\ pull'.result = r /\ pull'.old = pull.old
                                /\ pull'.saved = pull.saved /\ pull'.new = pull.new
    BY <2>1, PullFields DEF End
  <2>2. handle' # "moved" /\ (OnDisk # Nothing => OnDisk' = OnDisk)
    BY <1>11 DEF Reopen, InitDb, InitFails, OnDisk
  <2>3. QED
    BY <1>11, <2>1, <2>2 DEF Reopen
<1>12. QED
  BY <1>1, <1>2, <1>3, <1>4, <1>5, <1>6, <1>7, <1>8, <1>9, <1>10, <1>11

LEMMA PullNext == TypeInv /\ TypeInv' /\ PullInv /\ [Next]_vars => PullInv'
<1> SUFFICES ASSUME TypeInv, TypeInv', PullInv, [Next]_vars PROVE PullInv'
  OBVIOUS
<1> USE DEF disk, shards
<1>a. handle = "moved" => (main = Nothing \/ pull.pc \in {"open", "reopen"})
  BY DEF PullInv, PullShape
<1>1. CASE \/ \E force \in BOOLEAN : StartPull(force)
           \/ CopyBackup \/ Fetch \/ FetchFails \/ CloseDb \/ RenameIn \/ OpenNew
           \/ RemoveBackup \/ RemoveFaulty \/ RestoreBackup \/ Reopen
  BY <1>1, PullSteps
<1>2. CASE Edit
  BY <1>2, <1>a, PullDisturbed DEF Edit
<1>3. CASE Checkpoint
  <2>1. OnDisk' = OnDisk
    BY <1>3 DEF Checkpoint, OnDisk
  <2>2. QED
    BY <1>3, <2>1 DEF Checkpoint, PullInv, PullShape, OldStays, Outcome
<1>4. CASE NewBackup
  <2>1. drive' # NoDrive
    <3>1. drive'.db \in Db
      BY <1>4, DriveKinds DEF NewBackup
    <3>2. QED
      BY <3>1, FileKinds DEF NoDrive
  <2>2. QED
    BY <1>4, <2>1, PullUntouched DEF NewBackup
<1>5. CASE Quarantine
  BY <1>5, PullDisturbed DEF Quarantine
<1>6. CASE AfterQuarantine
  <2>1. CASE drive # NoDrive /\ UNCHANGED <<main, wal, handle, aside, entries, pull>>
    BY <1>6, <2>1, PullUntouched DEF AfterQuarantine
  <2>2. CASE InitDb /\ pull' = Disturbed
    BY <1>6, <2>2, PullDisturbed DEF AfterQuarantine, InitDb
  <2>3. QED
    BY <1>6, <2>1, <2>2 DEF AfterQuarantine
<1>7. CASE \/ MatrixCheck \/ FetchShard \/ WriteShard \/ SaveEntry \/ Evict
           \/ \E v \in Videos : Miss(v)
  <2>1. UNCHANGED <<main, wal, backup, temp, handle, pull, drive>>
    BY <1>7 DEF MatrixCheck, FetchShard, WriteShard, SaveEntry, Evict, Miss
  <2>2. QED
    BY <2>1, PullUntouched
<1>8. CASE Damage
  BY <1>8, PullDisturbed DEF Damage
<1>9. CASE Crash
  <2>1. CASE pull.pc = "idle"
    <3>1. pull' = pull /\ backup' = backup /\ drive' = drive /\ handle' # "moved"
      BY <1>9, <2>1 DEF Crash
    <3>2. OnDisk' = IF OnDisk = Nothing THEN Fresh ELSE OnDisk
      BY <1>9 DEF Crash, OnDisk, TypeInv
    <3>3. OnDisk # Torn => handle' = "open"
      BY <1>9 DEF Crash
    <3>4. \A d \in Db : d # Torn /\ d # Nothing
      BY FileKinds
    <3>5. QED
      BY <2>1, <3>1, <3>2, <3>3, <3>4
         DEF PullInv, PullShape, OldStays, Outcome, Before, Verified, Installed
  <2>2. CASE pull.pc # "idle"
    <3>1. /\ pull'.pc = "idle" /\ pull'.kept = pull.kept
          /\ pull'.kept => /\ pull'.result = "cut" /\ pull'.old = pull.old
                           /\ pull'.saved = pull.saved /\ pull'.new = pull.new
      BY <1>9, <2>2, PullFields DEF Crash
    <3>2. backup' = backup /\ handle' # "moved"
      BY <1>9 DEF Crash
    <3>3. OnDisk' = IF OnDisk = Nothing THEN Fresh ELSE OnDisk
      BY <1>9 DEF Crash, OnDisk, TypeInv
    <3>4. pull.kept => \/ OnDisk \in {pull.old, pull.new, pull.saved} \ {Nothing}
                       \/ OnDisk = Nothing /\ backup = pull.saved
      <4>1. pull.pc \in Stages
        BY DEF TypeInv, TypeOK, Pull
      <4>2. pull.kept => ~pull.edited
        BY <2>2 DEF PullInv, PullShape
      <4>3. \A d \in Db : d # Nothing
        BY FileKinds
      <4>4. QED
        BY <2>2, <4>1, <4>2, <4>3
           DEF PullInv, PullShape, OldStays, Outcome, Before, Verified, Installed, Stages
    <3>5. QED
      BY <3>1, <3>2, <3>3, <3>4
         DEF PullInv, PullShape, OldStays, Outcome, Before, Verified, Installed
  <2>3. QED
    BY <2>1, <2>2
<1>10. CASE UNCHANGED vars
  BY <1>10, PullUntouched DEF vars
<1>11. QED
  BY <1>1, <1>2, <1>3, <1>4, <1>5, <1>6, <1>7, <1>8, <1>9, <1>10 DEF Next

LEMMA InstallIsNewer ==
  ASSUME TypeInv, PullInv, [Next]_vars
  PROVE  [(/\ pull.pc = "rename" /\ pull'.pc = "open"
           /\ ~pull.force /\ ~pull.blind /\ ~pull.edited
           /\ pull.lsn = pull.new.lsn)
            => main'.lsn > main.lsn]_vars
<1> SUFFICES ASSUME pull.pc = "rename", pull'.pc = "open",
                    ~pull.force, ~pull.blind, ~pull.edited, pull.lsn = pull.new.lsn
             PROVE  main'.lsn > main.lsn
  OBVIOUS
<1>1. main = pull.old /\ wal = Nothing /\ pull.lsn > pull.old.lsn
  BY DEF PullInv, PullShape, OldStays, Before, OnDisk
<1>2. RenameIn
  <2>1. pull' # pull /\ pull' # Disturbed
    BY PullFields, NoPullType DEF Disturbed, TypeInv, TypeOK, Pull
  <2>2. /\ ~\E force \in BOOLEAN : StartPull(force)
        /\ ~CopyBackup /\ ~Fetch /\ ~FetchFails /\ ~CloseDb /\ ~OpenNew
        /\ ~RemoveBackup /\ ~RemoveFaulty /\ ~RestoreBackup /\ ~Reopen
    BY DEF StartPull, CopyBackup, Fetch, FetchFails, CloseDb, OpenNew,
           RemoveBackup, RemoveFaulty, RestoreBackup, Reopen, At
  <2>3. ~Edit /\ ~Checkpoint /\ ~NewBackup /\ ~MatrixCheck /\ ~Quarantine /\ ~Damage
    BY <2>1 DEF Edit, Checkpoint, NewBackup, MatrixCheck, Quarantine, Damage
  <2>4. ~AfterQuarantine /\ ~FetchShard /\ ~WriteShard /\ ~SaveEntry /\ ~Evict
    BY <2>1 DEF AfterQuarantine, FetchShard, WriteShard, SaveEntry, Evict
  <2>5. ~\E v \in Videos : Miss(v)
    BY <2>1 DEF Miss
  <2>6. ~Crash
    BY PullFields, NoPullType DEF Crash
  <2>7. QED
    BY <2>1, <2>2, <2>3, <2>4, <2>5, <2>6 DEF Next, vars
<1>3. main' = temp /\ temp # Nothing
  <2>1. ASSUME End("stuck") PROVE FALSE
    BY <2>1, PullFields DEF End
  <2>2. QED
    BY <1>2, <2>1 DEF RenameIn
<1>4. temp = pull.new
  BY <1>3 DEF PullInv, PullShape
<1>5. QED
  BY <1>1, <1>3, <1>4

LEMMA PullOutcome == TypeInv /\ PullInv => OldOrNew
<1> SUFFICES ASSUME TypeInv, PullInv, pull.kept
             PROVE  /\ pull.result = "ok" => OnDisk = pull.new /\ handle = "open"
                    /\ pull.result = "failed" => OnDisk \in {pull.old, pull.saved}
                    /\ pull.result \notin {"ok", "failed"} =>
                         \/ OnDisk \in {pull.old, pull.new, pull.saved}
                         \/ OnDisk \in {Nothing, Fresh} /\ backup = pull.saved
  BY SMT DEF OldOrNew
<1>1. pull.pc \in Stages /\ pull.result \in {"none", "ok", "failed", "stuck", "cut"}
  BY DEF TypeInv, TypeOK, Pull
<1>2. QED
  BY <1>1 DEF PullInv, PullShape, OldStays, Outcome, Before, Verified, Installed, Stages

(* A pull that nobody disturbs leaves the old database, the new one or the *)
(* one its backup holds, whatever fails and wherever the daemon dies: the  *)
(* old one is there until the new one replaces it, and from then on the    *)
(* backup keeps what was copied at the start, stale or torn as it may be   *)
(* (sync.go:489-595).                                                      *)
THEOREM OldOrNewHolds == Spec => []OldOrNew
<1>1. Init => TypeInv /\ PullInv
  BY TypeInit, PullInit
<1>2. TypeInv /\ PullInv /\ [Next]_vars => (TypeInv /\ PullInv)'
  BY TypeNext, PullNext
<1>3. TypeInv /\ PullInv => OldOrNew
  BY PullOutcome
<1>4. QED
  BY <1>1, <1>2, <1>3, PTL DEF Spec

(* What an unforced pull read at its start is still what it replaces, and  *)
(* what it verified is what it installs: the database only gets newer.     *)
THEOREM NeverOlderHolds == Spec => NeverOlder
<1>1. Init => TypeInv /\ PullInv
  BY TypeInit, PullInit
<1>2. TypeInv /\ PullInv /\ [Next]_vars => (TypeInv /\ PullInv)'
  BY TypeNext, PullNext
<1>3. TypeInv /\ PullInv /\ [Next]_vars
        => [(/\ pull.pc = "rename" /\ pull'.pc = "open"
             /\ ~pull.force /\ ~pull.blind /\ ~pull.edited
             /\ pull.lsn = pull.new.lsn)
              => main'.lsn > main.lsn]_vars
  BY InstallIsNewer
<1>4. QED
  BY <1>1, <1>2, <1>3, PTL DEF Spec, NeverOlder

-----------------------------------------------------------------------------
(* The shard cache.                                                        *)
Strays == {v \in Videos : dir[v] # "none" /\ v \notin entries}

\* The database nobody closed or replaced stays open and whole.
OwnDatabase ==
  ~foreign => /\ handle = "open" /\ OnDisk \in Db
              /\ pull.pc \in {"idle", "copy", "fetch", "close"}
              /\ matrix = "idle"

\* A partial file is being written, or its Put was cut.
PartIsWritten ==
  /\ cuts = 0 => \A v \in Videos : dir[v] = "part" => worker.pc = "write" /\ worker.video = v
  /\ worker.pc = "write" => dir[worker.video] = "part"
  /\ worker.pc = "save"  => dir[worker.video] \in Decodes

\* No entry names a partial file, nor the one the worker is about to write.
EntriesComplete ==
  ~foreign => /\ \A v \in entries : dir[v] # "part"
              /\ worker.pc \in {"fetch", "write", "save"} => worker.video \notin entries

\* Files without an entry, and the sum, stay within what the Puts account for.
Counted ==
  ~foreign =>
    /\ Cardinality(Strays) <= cuts + (IF worker.pc \in {"write", "save"} THEN 1 ELSE 0)
    /\ Cardinality(Strays) + Cardinality(entries) <=
         MaxBytes + cuts + (IF worker.pc \in {"write", "save", "evict"} THEN 1 ELSE 0)

CacheInv == OwnDatabase /\ PartIsWritten /\ EntriesComplete /\ Counted

LEMMA CacheFinite ==
  ASSUME TypeInv
  PROVE  /\ IsFiniteSet(Strays) /\ Cardinality(Strays) \in Nat
         /\ IsFiniteSet(entries) /\ Cardinality(entries) \in Nat
         /\ cuts \in Nat /\ MaxBytes \in Nat
         /\ worker.pc \in {"idle", "fetch", "write", "save", "evict"}
         /\ worker = Asleep \/ (worker.video \in Videos /\ worker.pc # "idle")
         /\ (worker # Asleep) <=> worker.pc # "idle"
<1>1. Strays \in SUBSET Videos /\ entries \in SUBSET Videos
  BY DEF Strays, TypeInv, TypeOK
<1>2. IsFiniteSet(Strays) /\ IsFiniteSet(entries)
  BY <1>1, FS_Subset, DiskAssumption
<1>3. Cardinality(Strays) \in Nat /\ Cardinality(entries) \in Nat
  BY <1>2, FS_CardinalityType
<1>4. cuts \in Nat /\ MaxBytes \in Nat
  BY DiskAssumption DEF TypeInv, TypeOK
<1>5. worker = Asleep \/ (worker.video \in Videos /\ worker.pc \in {"fetch", "write", "save", "evict"})
  BY DEF TypeInv, TypeOK, Worker
<1>6. QED
  BY <1>2, <1>3, <1>4, <1>5 DEF Asleep

LEMMA CacheInit == Init => TypeInv /\ CacheInv
<1> SUFFICES ASSUME Init PROVE TypeInv /\ CacheInv
  OBVIOUS
<1>1. TypeInv
  BY TypeInit
<1>2. Strays = {}
  BY DEF Init, Strays
<1>3. Cardinality(Strays) = 0 /\ Cardinality(entries) = 0
  BY <1>2, FS_EmptySet DEF Init
<1>4. OwnDatabase
  BY FileKinds, NoPullType DEF Init, OwnDatabase, OnDisk
<1>5. PartIsWritten /\ EntriesComplete
  BY DEF Init, PartIsWritten, EntriesComplete, Asleep
<1>6. Counted
  BY <1>3, DiskAssumption DEF Init, Counted, Asleep
<1>7. QED
  BY <1>1, <1>4, <1>5, <1>6 DEF CacheInv

\* A database of one's own keeps its type.
LEMMA OwnNext ==
  ASSUME TypeInv, OwnDatabase, [Next]_vars
  PROVE  OwnDatabase'
<1> USE DEF OwnDatabase, disk, shards
<1> SUFFICES ASSUME ~foreign' PROVE OwnDatabase'
  OBVIOUS
<1>a. \A stage \in Stages : [pull EXCEPT !.pc = stage].pc = stage
  BY PullFields
<1>b. Disturbed.pc = pull.pc
  BY NoPullType DEF Disturbed, TypeInv, TypeOK, Pull
<1>c. \A r : Ended(r).pc = "idle"
  BY PullFields
<1>1. CASE Edit
  <2>1. Seen \in Db /\ Seen.lsn < MaxLsn
    BY <1>1, OnDiskType, FileKinds DEF Edit, Usable
  <2>2. [Seen EXCEPT !.lsn = @ + 1, !.by = "here"] \in Db
    <3>1. Seen.lsn + 1 \in Lsns
      BY <2>1, DiskAssumption DEF Db, Lsns
    <3>2. QED
      BY <2>1, <3>1 DEF Db
  <2>3. ~foreign /\ handle' = handle /\ pull' = Disturbed /\ matrix' = matrix
    BY <1>1 DEF Edit
  <2>4. OnDisk' = [Seen EXCEPT !.lsn = @ + 1, !.by = "here"]
    BY <1>1, <2>2, <2>3, FileKinds DEF Edit, Commit, OnDisk
  <2>5. QED
    BY <1>b, <2>2, <2>3, <2>4
<1>2. CASE Checkpoint \/ NewBackup \/ UNCHANGED vars
  BY <1>2 DEF Checkpoint, NewBackup, vars, OnDisk
<1>3. CASE \E force \in BOOLEAN : StartPull(force)
  BY <1>3 DEF StartPull, OnDisk
<1>4. CASE CopyBackup \/ Fetch
  <2>1. pull'.pc \in {"fetch", "close"}
    BY <1>4 DEF CopyBackup, Fetch, TypeInv, TypeOK, Pull
  <2>2. QED
    BY <1>4, <2>1 DEF CopyBackup, Fetch, OnDisk
<1>5. CASE FetchFails
  BY <1>5, <1>c DEF FetchFails, End, OnDisk
<1>6. CASE CloseDb \/ Quarantine \/ Damage
  BY <1>6 DEF CloseDb, Quarantine, Damage
<1>7. CASE \/ RenameIn \/ OpenNew \/ RemoveBackup \/ RemoveFaulty \/ RestoreBackup \/ Reopen
           \/ AfterQuarantine
  BY <1>7 DEF RenameIn, OpenNew, RemoveBackup, RemoveFaulty, RestoreBackup, Reopen,
              AfterQuarantine, At
<1>8. CASE MatrixCheck
  BY <1>8, FileKinds DEF MatrixCheck, Usable, Seen
<1>9. CASE \/ FetchShard \/ WriteShard \/ SaveEntry \/ Evict \/ \E v \in Videos : Miss(v)
  BY <1>9 DEF FetchShard, WriteShard, SaveEntry, Evict, Miss, OnDisk
<1>10. CASE Crash
  <2>1. ~foreign /\ OnDisk # Nothing /\ OnDisk # Torn
    BY <1>10, FileKinds DEF Crash
  <2>2. handle' = "open" /\ OnDisk' = OnDisk /\ matrix' = "idle"
    BY <1>10, <2>1 DEF Crash, OnDisk
  <2>3. pull'.pc = "idle"
    BY <1>10, <1>c, <2>1 DEF Crash
  <2>4. QED
    BY <2>1, <2>2, <2>3
<1>11. QED
  BY <1>1, <1>2, <1>3, <1>4, <1>5, <1>6, <1>7, <1>8, <1>9, <1>10 DEF Next

\* Steps that leave the cache alone, or that only the closed or replaced
\* database of somebody else lets touch its entries.
LEMMA CacheUntouched ==
  ASSUME CacheInv, UNCHANGED <<dir, worker, cuts>>,
         foreign' = FALSE => foreign = FALSE /\ entries' = entries,
         foreign \in BOOLEAN, foreign' \in BOOLEAN
  PROVE  (PartIsWritten /\ EntriesComplete /\ Counted)'
<1>1. PartIsWritten'
  BY DEF CacheInv, PartIsWritten
<1>2. EntriesComplete'
  BY DEF CacheInv, EntriesComplete
<1>3. ~foreign' => Strays' = Strays
  BY DEF Strays
<1>4. Counted'
  BY <1>3 DEF CacheInv, Counted
<1>5. QED
  BY <1>1, <1>2, <1>4

LEMMA CacheNext == TypeInv /\ TypeInv' /\ CacheInv /\ [Next]_vars => CacheInv'
<1> SUFFICES ASSUME TypeInv, TypeInv', CacheInv, [Next]_vars PROVE CacheInv'
  OBVIOUS
<1> USE DEF disk, shards
<1>o. OwnDatabase'
  BY OwnNext DEF CacheInv
<1>t. /\ foreign \in BOOLEAN /\ foreign' \in BOOLEAN
      /\ entries \subseteq Videos /\ dir \in [Videos -> {"none", "part"} \cup Decodes]
      /\ "none" \notin Decodes /\ "part" \notin Decodes
  BY DEF TypeInv, TypeOK, Decodes
<1>f. /\ IsFiniteSet(Strays) /\ Cardinality(Strays) \in Nat
      /\ IsFiniteSet(entries) /\ Cardinality(entries) \in Nat
      /\ IsFiniteSet(Strays') /\ Cardinality(Strays') \in Nat
      /\ IsFiniteSet(entries') /\ Cardinality(entries') \in Nat
      /\ cuts \in Nat /\ cuts' \in Nat /\ MaxBytes \in Nat
  <2>1. Strays' \in SUBSET Videos /\ entries' \in SUBSET Videos
    BY DEF Strays, TypeInv, TypeOK
  <2>2. IsFiniteSet(Strays') /\ IsFiniteSet(entries')
    BY <2>1, FS_Subset, DiskAssumption
  <2>3. Cardinality(Strays') \in Nat /\ Cardinality(entries') \in Nat
    BY <2>2, FS_CardinalityType
  <2>4. cuts' \in Nat
    BY DiskAssumption DEF TypeInv, TypeOK
  <2>5. QED
    BY <2>2, <2>3, <2>4, CacheFinite
<1>w. worker = Asleep \/ worker.video \in Videos
  BY CacheFinite
<1>u. ~foreign => Usable
  BY FileKinds DEF CacheInv, OwnDatabase, Usable, Seen
<1>1. CASE \/ Edit \/ Checkpoint \/ NewBackup \/ \E force \in BOOLEAN : StartPull(force)
           \/ CopyBackup \/ Fetch \/ FetchFails \/ CloseDb \/ RenameIn
           \/ RemoveBackup \/ RemoveFaulty \/ RestoreBackup \/ MatrixCheck \/ Quarantine
           \/ Damage \/ UNCHANGED vars
  <2>1. UNCHANGED <<dir, worker, cuts, entries>> /\ (foreign' = FALSE => foreign = FALSE)
    BY <1>1, <1>t DEF Edit, Checkpoint, NewBackup, StartPull, CopyBackup, Fetch, FetchFails,
         CloseDb, RenameIn, RemoveBackup, RemoveFaulty, RestoreBackup, MatrixCheck,
         Quarantine, Damage, vars
  <2>2. QED
    BY <1>o, <1>t, <2>1, CacheUntouched DEF CacheInv
<1>2. CASE OpenNew \/ Reopen \/ AfterQuarantine
  <2>1. UNCHANGED <<dir, worker, cuts, foreign>> /\ foreign
    BY <1>2, <1>t DEF OpenNew, Reopen, AfterQuarantine, At, CacheInv, OwnDatabase
  <2>2. QED
    BY <1>o, <1>t, <2>1, CacheUntouched DEF CacheInv
<1>3. ASSUME NEW v \in Videos, Miss(v) PROVE CacheInv'
  <2>1. worker.pc = "idle" /\ worker'.pc = "fetch" /\ worker'.video = v
    BY <1>3 DEF Miss, Work, Asleep
  <2>2. /\ UNCHANGED <<dir, cuts, foreign>>
        /\ entries' = IF Usable THEN entries \ {v} ELSE entries
        /\ Usable /\ v \in entries => dir[v] = "none"
    BY <1>3 DEF Miss, Hit, Entry
  <2>3. PartIsWritten'
    <3>1. worker.pc # "write"
      BY <2>1
    <3>2. cuts = 0 => \A u \in Videos : dir[u] # "part"
      BY <1>3 DEF CacheInv, PartIsWritten, Miss, Asleep
    <3>3. QED
      BY <2>1, <2>2, <3>2 DEF PartIsWritten
  <2>4. EntriesComplete'
    BY <1>u, <2>1, <2>2 DEF CacheInv, EntriesComplete
  <2>5. Strays' = Strays
    BY <1>t, <2>2 DEF Strays
  <2>6. Cardinality(entries') <= Cardinality(entries)
    <3>1. entries' \in SUBSET entries
      BY <2>2
    <3>2. QED
      BY <1>f, <3>1, FS_Subset
  <2>7. Counted'
    BY <1>f, <2>1, <2>2, <2>5, <2>6 DEF CacheInv, Counted
  <2>8. QED
    BY <1>o, <2>3, <2>4, <2>7 DEF CacheInv
<1>4. CASE FetchShard
  <2>1. worker.pc = "fetch" /\ worker.video \in Videos /\ UNCHANGED <<entries, cuts, foreign>>
    BY <1>4, <1>w DEF FetchShard, Doing
  <2>2. CASE worker' = Asleep /\ UNCHANGED dir
    <3>1. PartIsWritten'
      BY <2>1, <2>2 DEF CacheInv, PartIsWritten, Asleep
    <3>2. EntriesComplete'
      BY <2>1, <2>2 DEF CacheInv, EntriesComplete, Asleep
    <3>3. Strays' = Strays
      BY <2>1, <2>2 DEF Strays
    <3>4. Counted'
      BY <2>1, <2>2, <3>3 DEF CacheInv, Counted, Asleep
    <3>5. QED
      BY <1>o, <3>1, <3>2, <3>4 DEF CacheInv
  <2>3. CASE /\ \E d \in Decodes : Put("write", worker.video, d)
             /\ dir' = [dir EXCEPT ![worker.video] = "part"]
    <3>0. worker'.pc = "write" /\ worker'.video = worker.video
      BY <2>3 DEF Put
    <3>1. PartIsWritten'
      <4>1. cuts = 0 => \A u \in Videos : dir[u] # "part"
        BY <2>1 DEF CacheInv, PartIsWritten
      <4>2. QED
        BY <1>t, <2>1, <2>3, <3>0, <4>1 DEF PartIsWritten
    <3>2. EntriesComplete'
      BY <1>t, <2>1, <2>3, <3>0 DEF CacheInv, EntriesComplete
    <3>3. Strays' \in SUBSET (Strays \cup {worker.video})
      BY <1>t, <2>1, <2>3 DEF Strays
    <3>4. Cardinality(Strays') <= Cardinality(Strays) + 1
      <4>1. /\ IsFiniteSet(Strays \cup {worker.video})
            /\ Cardinality(Strays \cup {worker.video}) <= Cardinality(Strays) + 1
        <5>1. /\ IsFiniteSet(Strays \cup {worker.video})
              /\ Cardinality(Strays \cup {worker.video}) =
                   IF worker.video \in Strays THEN Cardinality(Strays)
                   ELSE Cardinality(Strays) + 1
          BY <1>f, FS_AddElement
        <5>2. QED
          BY <1>f, <5>1
      <4>2. /\ Cardinality(Strays') <= Cardinality(Strays \cup {worker.video})
            /\ Cardinality(Strays \cup {worker.video}) \in Nat
        BY <3>3, <4>1, FS_Subset, FS_CardinalityType
      <4>3. QED
        BY <1>f, <4>1, <4>2
    <3>5. Counted'
      BY <1>f, <2>1, <3>0, <3>4 DEF CacheInv, Counted
    <3>6. QED
      BY <1>o, <3>1, <3>2, <3>5 DEF CacheInv
  <2>4. QED
    BY <1>4, <2>2, <2>3 DEF FetchShard, Decodes
<1>5. CASE WriteShard
  <2>1. /\ worker.pc = "write" /\ worker.video \in Videos /\ UNCHANGED <<entries, cuts, foreign>>
        /\ dir' = [dir EXCEPT ![worker.video] = worker.data] /\ worker.data \in Decodes
        /\ worker'.pc = "save" /\ worker'.video = worker.video
    <3>1. worker.pc = "write" => worker.data \in Decodes
      BY DEF TypeInv, TypeOK, Worker, Asleep
    <3>2. QED
      BY <1>5, <1>w, <3>1 DEF WriteShard, Doing, Put
  <2>2. dir[worker.video] = "part"
    BY <2>1 DEF CacheInv, PartIsWritten
  <2>3. PartIsWritten'
    <3>1. cuts = 0 => \A u \in Videos : dir[u] = "part" => u = worker.video
      BY <2>1 DEF CacheInv, PartIsWritten
    <3>2. QED
      BY <1>t, <2>1, <3>1 DEF PartIsWritten
  <2>4. EntriesComplete'
    BY <1>t, <2>1 DEF CacheInv, EntriesComplete
  <2>5. Strays' = Strays
    BY <1>t, <2>1, <2>2 DEF Strays
  <2>6. Counted'
    BY <2>1, <2>5 DEF CacheInv, Counted
  <2>7. QED
    BY <1>o, <2>3, <2>4, <2>6 DEF CacheInv
<1>6. CASE SaveEntry
  <2>1. /\ worker.pc = "save" /\ worker.video \in Videos /\ UNCHANGED <<dir, cuts, foreign>>
        /\ entries' = IF Usable THEN entries \cup {worker.video} ELSE entries
        /\ worker'.pc = "evict" /\ worker'.video = worker.video
    BY <1>6, <1>w DEF SaveEntry, Doing, Work
  <2>2. dir[worker.video] \in Decodes
    BY <2>1 DEF CacheInv, PartIsWritten
  <2>3. PartIsWritten'
    <3>1. cuts = 0 => \A u \in Videos : dir[u] # "part"
      BY <2>1 DEF CacheInv, PartIsWritten
    <3>2. QED
      BY <2>1, <3>1 DEF PartIsWritten
  <2>4. EntriesComplete'
    BY <1>t, <2>1, <2>2 DEF CacheInv, EntriesComplete
  <2>5. ASSUME ~foreign
        PROVE  /\ Cardinality(Strays') = Cardinality(Strays) - 1
               /\ Cardinality(entries') = Cardinality(entries) + 1
    <3>1. Strays' = Strays \ {worker.video} /\ worker.video \in Strays
      BY <1>t, <1>u, <2>1, <2>2, <2>5 DEF Strays, CacheInv, EntriesComplete
    <3>2. entries' = entries \cup {worker.video} /\ worker.video \notin entries
      BY <1>u, <2>1, <2>5 DEF CacheInv, EntriesComplete
    <3>3. Cardinality(Strays') = Cardinality(Strays) - 1
      BY <1>f, <3>1, FS_RemoveElement
    <3>4. Cardinality(entries') = Cardinality(entries) + 1
      BY <1>f, <3>2, FS_AddElement
    <3>5. QED
      BY <3>3, <3>4
  <2>6. Counted'
    BY <1>f, <2>1, <2>5 DEF CacheInv, Counted
  <2>7. QED
    BY <1>o, <2>3, <2>4, <2>6 DEF CacheInv
<1>7. CASE Evict
  <2>1. worker.pc = "evict" /\ UNCHANGED <<cuts, foreign>>
    BY <1>7 DEF Evict, Doing
  <2>2. ASSUME NEW v \in entries, EvictOne(v), UNCHANGED worker PROVE CacheInv'
    <3>1. /\ entries' = entries \ {v} /\ dir' = [dir EXCEPT ![v] = "none"] /\ v \in Videos
      BY <1>t, <2>2 DEF EvictOne
    <3>2. PartIsWritten'
      BY <1>t, <2>1, <2>2, <3>1 DEF CacheInv, PartIsWritten
    <3>3. EntriesComplete'
      BY <1>t, <2>1, <2>2, <3>1 DEF CacheInv, EntriesComplete
    <3>4. Strays' = Strays
      BY <1>t, <3>1 DEF Strays
    <3>5. Cardinality(entries') = Cardinality(entries) - 1
      BY <1>f, <3>1, FS_RemoveElement
    <3>6. Counted'
      BY <1>f, <2>1, <2>2, <3>4, <3>5 DEF CacheInv, Counted
    <3>7. QED
      BY <1>o, <3>2, <3>3, <3>6 DEF CacheInv
  <2>3. CASE ~OverLimit /\ worker' = Asleep /\ UNCHANGED <<entries, dir>>
    <3>1. PartIsWritten' /\ EntriesComplete'
      BY <2>1, <2>3 DEF CacheInv, PartIsWritten, EntriesComplete, Asleep
    <3>2. Strays' = Strays
      BY <2>3 DEF Strays
    <3>3. ~foreign => Cardinality(entries) <= MaxBytes
      BY <1>f, <1>u, <2>3 DEF OverLimit
    <3>4. Counted'
      BY <1>f, <2>1, <2>3, <3>2, <3>3 DEF CacheInv, Counted, Asleep
    <3>5. QED
      BY <1>o, <3>1, <3>4 DEF CacheInv
  <2>4. QED
    BY <1>7, <2>2, <2>3 DEF Evict
<1>8. CASE Crash
  <2>1. /\ worker'.pc = "idle" /\ UNCHANGED <<dir, foreign>>
        /\ cuts' = IF worker.pc \in {"write", "save", "evict"} THEN cuts + 1 ELSE cuts
    BY <1>8 DEF Crash, Asleep
  <2>2. ~foreign => entries' = entries
    BY <1>8 DEF Crash, Found
  <2>3. PartIsWritten'
    BY <1>f, <2>1 DEF CacheInv, PartIsWritten
  <2>4. EntriesComplete'
    BY <1>t, <2>1, <2>2 DEF CacheInv, EntriesComplete
  <2>5. ~foreign => Strays' = Strays
    BY <2>1, <2>2 DEF Strays
  <2>6. Counted'
    BY <1>f, <2>1, <2>2, <2>5 DEF CacheInv, Counted
  <2>7. QED
    BY <1>o, <2>3, <2>4, <2>6 DEF CacheInv
<1>9. QED
  BY <1>1, <1>2, <1>3, <1>4, <1>5, <1>6, <1>7, <1>8 DEF Next

LEMMA CacheMeans == TypeInv /\ CacheInv => HitIsComplete /\ DirBounded
<1> SUFFICES ASSUME TypeInv, CacheInv PROVE HitIsComplete /\ DirBounded
  OBVIOUS
<1>t. dir \in [Videos -> {"none", "part"} \cup Decodes] /\ entries \subseteq Videos
  BY DEF TypeInv, TypeOK
<1>1. HitIsComplete
  <2> SUFFICES ASSUME foreign => cuts = 0, NEW v \in Videos, worker = Asleep, Hit(v)
               PROVE  dir[v] \in Decodes
    BY DEF HitIsComplete
  <2>1. dir[v] # "none" /\ v \in entries
    BY DEF Hit, Entry
  <2>2. dir[v] # "part"
    BY <2>1 DEF CacheInv, PartIsWritten, EntriesComplete, Asleep
  <2>3. QED
    BY <1>t, <2>1, <2>2
<1>2. DirBounded
  <2> DEFINE F == {v \in Videos : dir[v] # "none"}
  <2> SUFFICES ASSUME ~foreign
               PROVE  Cardinality(F) <=
                        MaxBytes + cuts + (IF worker = Asleep THEN 0 ELSE 1)
    BY DEF DirBounded
  <2>1. F \in SUBSET (Strays \cup entries)
    BY DEF Strays
  <2>2. /\ IsFiniteSet(Strays \cup entries)
        /\ Cardinality(Strays \cup entries) =
             Cardinality(Strays) + Cardinality(entries) - Cardinality(Strays \cap entries)
    BY CacheFinite, FS_Union
  <2>3. Strays \cap entries = {}
    BY DEF Strays
  <2>4. Cardinality(F) <= Cardinality(Strays \cup entries) /\ Cardinality(F) \in Nat
    BY <2>1, <2>2, FS_Subset, FS_CardinalityType
  <2>5. Cardinality(Strays \cup entries) = Cardinality(Strays) + Cardinality(entries)
    BY <2>2, <2>3, CacheFinite, FS_EmptySet
  <2> HIDE DEF F
  <2>6. worker.pc \in {"write", "save", "evict"} => worker # Asleep
    BY DEF Asleep
  <2>7. QED
    BY <2>4, <2>5, <2>6, CacheFinite DEF CacheInv, Counted
<1>3. QED
  BY <1>1, <1>2

(* The cache, whatever is closed, replaced or cut.                         *)
LEMMA CacheSafe == Spec => [](HitIsComplete /\ DirBounded)
<1>1. TypeInv /\ CacheInv /\ [Next]_vars => (TypeInv /\ CacheInv)'
  BY TypeNext, CacheNext
<1>2. QED
  BY <1>1, CacheInit, CacheMeans, PTL DEF Spec

(* What the cache hands out is all that one Put was given, right or wrong: *)
(* an entry is saved only once its file is written, and a file that a      *)
(* crash cut is known to no entry of the database that was open.           *)
THEOREM HitIsCompleteHolds == Spec => []HitIsComplete
  BY CacheSafe, PTL

(* The files stay within the limit, because only a Put makes one and every *)
(* Put that ends has evicted: a file without an entry is one that a Put is *)
(* writing or that a crash cut.                                            *)
THEOREM DirBoundedHolds == Spec => []DirBounded
  BY CacheSafe, PTL
=============================================================================
