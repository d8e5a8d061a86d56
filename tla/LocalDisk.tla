------------------------------ MODULE LocalDisk ------------------------------
(***************************************************************************)
(* The daemon's files: nexus.db with its WAL, replaced as a whole by       *)
(* PullDBFromDrive and moved aside by RunSyncMatrix (nexus-daemon/sync.go, *)
(* db.go, main.go), and the shard cache, whose table is in that database   *)
(* and whose files are not (cache.go, queue.go).                           *)
(*                                                                         *)
(* A database is its LSN and who wrote it last.  Its cache_entries are     *)
(* kept apart: once the file was closed, moved or replaced, opening it may *)
(* find any.  One pull runs at a time (s.mu); the sync matrix and the      *)
(* queue's worker run beside it.                                           *)
(*                                                                         *)
(* Left out: pushes (SyncProtocol), an empty backup on Drive, which is     *)
(* refused, a -wal file found by a database it does not belong to, entries *)
(* of the cache by age (those of one second are in any order) and the size *)
(* of a shard that was decoded short, which counts as one, a disk without  *)
(* room, and pulls that end before they touch a file.                      *)
(***************************************************************************)
EXTENDS Naturals, FiniteSets

CONSTANTS Videos,       \* videos of shards, all of one size
          MaxBytes,     \* the cache's limit, in shards
          Backups,      \* what other devices may push
          MaxLsn,       \* bound: edits
          MaxPulls,     \* bound: pulls that do not end at once
          MaxFaults     \* bound: crashes, damaged files, wrong decodes

VARIABLES main,      \* nexus.db
          wal,       \* the database as its WAL shows it, if there is one
          backup,    \* nexus.db.backup_pre_pull
          temp,      \* nexus.db.downloading
          aside,     \* the file an open handle reads that lost its name
          handle,    \* s.db.db
          drive,     \* the backup on Drive and its manifest
          pull,      \* the pull under way, or the last one
          matrix,    \* RunSyncMatrix after a failed integrity check
          entries,   \* cache_entries of the database in use
          dir,       \* dir[v]: v.shard in the cache's directory
          worker,    \* handleDownload between Get and the end of Put
          foreign,   \* history: the database was closed or replaced
          cuts,      \* history: Puts that a crash cut
          pulls, faults     \* counters of the bounds

vars == <<main, wal, backup, temp, aside, handle, drive, pull, matrix, entries, dir, worker,
          foreign, cuts, pulls, faults>>

-----------------------------------------------------------------------------
Lsns    == 0..MaxLsn
Db      == [lsn : Lsns, by : {"here", "drive"}]
Fresh   == [lsn |-> 0, by |-> "here"]
Torn    == [lsn |-> 0, by |-> "torn"]
Nothing == [lsn |-> 0, by |-> "nobody"]
Files   == Db \cup {Torn, Nothing}
Whole(d)   == d.by \in {"here", "drive"}

\* A manifest and the file beside it, which need not be the one it names.
Remote  == [lsn : Lsns, sealed : BOOLEAN, db : Db]
NoDrive == [lsn |-> 0, sealed |-> FALSE, db |-> Nothing]

ASSUME DiskAssumption ==
  /\ IsFiniteSet(Videos) /\ MaxBytes \in Nat
  /\ Backups \subseteq Remote
  /\ MaxLsn \in Nat /\ MaxPulls \in Nat /\ MaxFaults \in Nat

\* The steps of a pull.
Stages == {"idle", "copy", "fetch", "close", "rename", "open", "clean", "faulty",
           "restore", "reopen"}
\* old: the database it found; saved: what the backup holds after the copy;
\* kept: nothing was edited, damaged or moved since the start, nor after the
\* end; edited: the same until the end; blind: the local LSN could not be read
\* at the start.
Pull   == [pc : Stages, force : BOOLEAN, lsn : Lsns, sealed : BOOLEAN,
           old : Files, saved : Files, new : Files,
           kept : BOOLEAN, edited : BOOLEAN, blind : BOOLEAN,
           result : {"none", "ok", "failed", "stuck", "cut"}]
NoPull == [pc |-> "idle", force |-> FALSE, lsn |-> 0, sealed |-> FALSE,
           old |-> Nothing, saved |-> Nothing, new |-> Nothing,
           kept |-> FALSE, edited |-> FALSE, blind |-> FALSE, result |-> "none"]

\* What the decoder makes of a video: the shard, or something else.
Decodes == {"right", "wrong"}
Worker == [pc : {"fetch", "evict"}, video : Videos]
          \cup [pc : {"write", "save"}, video : Videos, data : Decodes]
Asleep == [pc |-> "idle"]

TypeOK ==
  /\ {main, wal, backup, temp, aside} \subseteq Files
  /\ handle \in {"open", "closed", "moved", "off"}
  /\ handle = "open" => main # Nothing
  /\ drive \in Backups \cup {NoDrive}
  /\ pull \in Pull
  /\ matrix \in {"idle", "bad", "gone"}
  /\ entries \subseteq Videos
  /\ dir \in [Videos -> {"none", "part"} \cup Decodes]
  /\ worker \in Worker \cup {Asleep}
  /\ foreign \in BOOLEAN
  /\ faults \in 0..MaxFaults /\ cuts \in 0..faults
  /\ pulls \in 0..MaxPulls

Init ==
  /\ main = Fresh /\ wal = Nothing /\ backup = Nothing /\ temp = Nothing
  /\ aside = Nothing
  /\ handle = "open"
  /\ drive = NoDrive
  /\ pull = NoPull
  /\ matrix = "idle"
  /\ entries = {}
  /\ dir = [v \in Videos |-> "none"]
  /\ worker = Asleep
  /\ foreign = FALSE /\ cuts = 0
  /\ pulls = 0 /\ faults = 0

\* What the next open of nexus.db shows, and what the handle shows.
OnDisk == IF wal # Nothing THEN wal ELSE main
Seen   == IF handle = "moved" THEN aside ELSE OnDisk
Usable == handle \in {"open", "moved"} /\ Whole(Seen)
\* GetLocalLSN, whose errors count as 0.
LocalLSN == IF Usable THEN Seen.lsn ELSE 0

\* A transaction through the handle.
Commit(d) == IF handle = "moved" THEN aside' = d /\ UNCHANGED wal
             ELSE wal' = d /\ UNCHANGED aside
\* nexus.db goes or is replaced under the handle.
Detach == /\ handle' = IF handle = "open" THEN "moved" ELSE handle
          /\ aside'  = IF handle = "open" THEN OnDisk ELSE aside
          /\ wal'    = Nothing

Fault == faults < MaxFaults /\ faults' = faults + 1
At(stage)  == pull.pc = stage /\ handle # "off"
Go(stage)  == pull' = [pull EXCEPT !.pc = stage]
\* Of a pull that was disturbed there is nothing more to say.
Ended(result) == IF ~pull.kept THEN NoPull
                 ELSE [NoPull EXCEPT !.old = pull.old, !.saved = pull.saved,
                                     !.new = pull.new, !.kept = TRUE, !.result = result]
End(result) == pull' = Ended(result)
\* The local files changed by other means than the pull.
Disturbed == IF pull.pc = "idle" THEN NoPull ELSE [pull EXCEPT !.kept = FALSE, !.edited = TRUE]
disk  == <<main, wal, backup, temp, aside, handle>>
shards == <<entries, dir, worker, cuts>>

-----------------------------------------------------------------------------
(* The database and the Drive.                                             *)
Edit ==
  /\ Usable /\ Seen.lsn < MaxLsn
  /\ Commit([Seen EXCEPT !.lsn = @ + 1, !.by = "here"])
  /\ pull' = Disturbed
  /\ UNCHANGED <<main, backup, temp, handle, drive, matrix, shards, foreign, pulls, faults>>

\* Checkpoint, or SQLite's own.
Checkpoint ==
  /\ handle = "open" /\ wal # Nothing
  /\ main' = wal /\ wal' = Nothing
  /\ UNCHANGED <<backup, temp, aside, handle, drive, pull, matrix, shards, foreign, pulls, faults>>

\* Another device pushes.
NewBackup ==
  /\ drive' \in Backups \ {drive}
  /\ UNCHANGED <<disk, pull, matrix, shards, foreign, pulls, faults>>

-----------------------------------------------------------------------------
(* PullDBFromDrive.                                                        *)
\* Slip: a backup as old as the local database will do.
NotOlder(force) == force \/ drive.lsn >= LocalLSN
Newer(force)    == force \/ drive.lsn > LocalLSN

StartPull(force) ==
  /\ At("idle") /\ pulls < MaxPulls
  /\ drive # NoDrive
  /\ Newer(force)
  /\ pull' = [pc |-> "copy", force |-> force, lsn |-> drive.lsn, sealed |-> drive.sealed,
              old |-> OnDisk, saved |-> Nothing, new |-> Nothing,
              kept |-> OnDisk # Nothing, edited |-> FALSE, blind |-> ~Usable,
              result |-> "none"]
  /\ pulls' = pulls + 1
  /\ UNCHANGED <<disk, drive, matrix, shards, foreign, faults>>

\* copyFile reads nexus.db without its WAL, and nobody has checkpointed; its
\* failure, which leaves an older backup, a part or none, is only logged.
CopyBackup ==
  /\ At("copy")
  /\ \/ backup' = IF main = Nothing THEN backup ELSE main
     \/ main # Nothing /\ backup' \in {backup, Torn}
  /\ pull' = [pull EXCEPT !.pc = "fetch", !.saved = backup']
  /\ UNCHANGED <<main, wal, temp, aside, handle, drive, matrix, shards, foreign, pulls, faults>>

\* Slip: the download is not verified.
FetchUnchecked ==
  /\ At("fetch")
  /\ temp' \in {drive.db, Torn}
  /\ pull' = [pull EXCEPT !.pc = "close", !.new = drive.db]
  /\ UNCHANGED <<main, wal, backup, aside, handle, drive, matrix, shards, foreign, pulls, faults>>

\* DownloadFromDrive, the logical hash and the integrity check.  A sealed file
\* is removed once it is decrypted and only the decrypted one is verified.
Fetch ==
  /\ At("fetch")
  /\ drive.sealed = pull.sealed
  /\ drive.db.lsn = pull.lsn \/ LocalLSN = 0
  /\ temp' = IF pull.sealed THEN Nothing ELSE drive.db
  /\ pull' = [pull EXCEPT !.pc = "close", !.new = drive.db]
  /\ UNCHANGED <<main, wal, backup, aside, handle, drive, matrix, shards, foreign, pulls, faults>>

FetchFails ==
  /\ At("fetch")
  /\ End("failed")
  /\ UNCHANGED <<disk, drive, matrix, shards, foreign, pulls, faults>>

CloseDb ==
  /\ At("close")
  /\ main' = OnDisk /\ wal' = Nothing
  /\ handle' = "closed"
  /\ foreign' = TRUE
  /\ Go("rename")
  /\ UNCHANGED <<backup, temp, aside, drive, matrix, shards, pulls, faults>>

RenameIn ==
  /\ At("rename")
  /\ \/ /\ temp # Nothing
        /\ main' = temp /\ temp' = Nothing
        /\ Detach
        /\ Go("open")
     \/ /\ End("stuck")
        /\ UNCHANGED <<main, wal, temp, aside, handle>>
  /\ UNCHANGED <<backup, drive, matrix, shards, foreign, pulls, faults>>

\* The cache_entries an open finds.
Found == IF foreign THEN SUBSET Videos ELSE {entries}
\* Slip: a missing file is not made.
OpenOnly == /\ handle' = "open"
            /\ entries' \in Found
            /\ aside' = Nothing
            /\ UNCHANGED <<main, wal>>

\* Init opens the file of that name, or makes one.
InitDb == /\ handle' = "open"
          /\ main' = IF OnDisk = Nothing THEN Fresh ELSE main
          /\ entries' \in Found
          /\ aside' = Nothing
          /\ UNCHANGED wal

\* Init fails: until the next one, the new handle works or it does not.
InitFails == /\ entries' \in Found
             /\ handle' \in {"closed"} \cup (IF main = Nothing THEN {} ELSE {"open"})

OpenNew ==
  /\ At("open")
  /\ \/ InitDb /\ Go("clean")
     \/ /\ InitFails
        /\ IF backup # Nothing THEN Go("faulty") ELSE End("stuck")
        /\ UNCHANGED <<main, wal, aside>>
  /\ UNCHANGED <<backup, temp, drive, matrix, dir, worker, cuts, foreign, pulls, faults>>

RemoveBackup ==
  /\ At("clean")
  /\ backup' = Nothing
  /\ End("ok")
  /\ UNCHANGED <<main, wal, temp, aside, handle, drive, matrix, shards, foreign, pulls, faults>>

RemoveFaulty ==
  /\ At("faulty")
  /\ main' = Nothing
  /\ Detach
  /\ Go("restore")
  /\ UNCHANGED <<backup, temp, drive, matrix, shards, foreign, pulls, faults>>

RestoreBackup ==
  /\ At("restore")
  /\ \/ /\ main' = backup /\ backup' = Nothing
        /\ Detach
        /\ Go("reopen")
     \/ End("stuck") /\ UNCHANGED <<main, wal, backup, aside, handle>>
  /\ UNCHANGED <<temp, drive, matrix, shards, foreign, pulls, faults>>

Reopen ==
  /\ At("reopen")
  /\ \/ InitDb /\ End("failed")
     \/ InitFails /\ End("stuck") /\ UNCHANGED <<main, wal, aside>>
  /\ UNCHANGED <<backup, temp, drive, matrix, dir, worker, cuts, foreign, pulls, faults>>

-----------------------------------------------------------------------------
(* RunSyncMatrix: any error of the integrity check counts as corruption.   *)
MatrixCheck ==
  /\ matrix = "idle" /\ handle # "off"
  /\ ~Usable
  /\ matrix' = "bad"
  /\ UNCHANGED <<disk, drive, pull, shards, foreign, pulls, faults>>

\* nexus.db becomes nexus.db.corrupt.
Quarantine ==
  /\ matrix = "bad"
  /\ matrix' = "gone"
  /\ main' = Nothing
  /\ Detach
  /\ foreign' = TRUE
  /\ pull' = Disturbed
  /\ UNCHANGED <<backup, temp, drive, shards, pulls, faults>>

\* With a manifest a forced pull follows, whose outcome is not looked at;
\* without one, or if it could not be read, a fresh database.
AfterQuarantine ==
  /\ matrix = "gone"
  /\ matrix' = "idle"
  /\ \/ drive # NoDrive /\ UNCHANGED <<main, wal, handle, aside, entries, pull>>
     \/ InitDb /\ pull' = Disturbed
  /\ UNCHANGED <<backup, temp, drive, dir, worker, cuts, foreign, pulls, faults>>

-----------------------------------------------------------------------------
(* The shard cache: the worker's Get, the download of a miss, and Put.     *)
Entry(v) == Usable /\ v \in entries
Hit(v)   == Entry(v) /\ dir[v] # "none"
Work(pc, v) == worker' = [pc |-> pc, video |-> v]
Put(pc, v, d) == worker' = [pc |-> pc, video |-> v, data |-> d]
Doing(pc)   == worker # Asleep /\ worker.pc = pc /\ handle # "off"

\* An entry whose file is missing is dropped.
Miss(v) ==
  /\ worker = Asleep /\ handle # "off"
  /\ ~Hit(v)
  /\ entries' = IF Usable THEN entries \ {v} ELSE entries
  /\ Work("fetch", v)
  /\ UNCHANGED <<disk, drive, pull, matrix, dir, cuts, foreign, pulls, faults>>

\* Slip: the entry is saved before the file is whole.
SaveThenWrite ==
  /\ Doing("fetch")
  /\ Usable
  /\ Put("write", worker.video, "right")
  /\ dir' = [dir EXCEPT ![worker.video] = "part"]
  /\ entries' = entries \cup {worker.video}
  /\ UNCHANGED <<disk, drive, pull, matrix, cuts, foreign, pulls, faults>>

\* The video is downloaded and decoded, or that fails.  A Push that fails is
\* logged, and what Pop returns, short or wrong, goes to Put, whose WriteFile
\* truncates, before anything is decrypted (queue.go:1134, 1143, 1162, 1271).
FetchShard ==
  /\ Doing("fetch")
  /\ \/ /\ \/ Put("write", worker.video, "right") /\ UNCHANGED faults
           \/ Put("write", worker.video, "wrong") /\ Fault
        /\ dir' = [dir EXCEPT ![worker.video] = "part"]
     \/ worker' = Asleep /\ UNCHANGED <<dir, faults>>
  /\ UNCHANGED <<disk, drive, pull, matrix, entries, cuts, foreign, pulls>>

WriteShard ==
  /\ Doing("write")
  /\ dir' = [dir EXCEPT ![worker.video] = worker.data]
  /\ Put("save", worker.video, worker.data)
  /\ UNCHANGED <<disk, drive, pull, matrix, entries, cuts, foreign, pulls, faults>>

\* SaveCacheEntry, whose failure is logged.
SaveEntry ==
  /\ Doing("save")
  /\ entries' = IF Usable THEN entries \cup {worker.video} ELSE entries
  /\ Work("evict", worker.video)
  /\ UNCHANGED <<disk, drive, pull, matrix, dir, cuts, foreign, pulls, faults>>

\* Slip: the entry goes, the file stays.
EvictEntry(v) ==
  /\ entries' = entries \ {v}
  /\ UNCHANGED dir

\* One round of evictIfNeeded: os.Remove, then DeleteCacheEntry.
EvictOne(v) ==
  /\ entries' = entries \ {v}
  /\ dir' = [dir EXCEPT ![v] = "none"]

OverLimit == Usable /\ Cardinality(entries) > MaxBytes

Evict ==
  /\ Doing("evict")
  /\ \/ /\ OverLimit
        /\ \E v \in entries : EvictOne(v)
        /\ UNCHANGED worker
     \/ /\ ~OverLimit
        /\ worker' = Asleep
        /\ UNCHANGED <<entries, dir>>
  /\ UNCHANGED <<disk, drive, pull, matrix, cuts, foreign, pulls, faults>>

-----------------------------------------------------------------------------
(* Faults.                                                                 *)
Damage ==
  /\ Fault
  /\ handle = "open" /\ Whole(OnDisk)
  /\ main' = Torn /\ wal' = Nothing
  /\ foreign' = TRUE
  /\ pull' = Disturbed
  /\ UNCHANGED <<backup, temp, aside, handle, drive, matrix, shards, pulls>>

\* The daemon dies and is started; main ends if the database does not open.
Crash ==
  /\ handle # "off"
  /\ Fault
  /\ main'   = IF OnDisk = Nothing THEN Fresh ELSE main
  /\ handle' \in {"open"} \cup (IF OnDisk = Torn THEN {"off"} ELSE {})
  /\ aside' = Nothing /\ temp' = Nothing
  /\ pull' = IF pull.pc = "idle" THEN pull ELSE Ended("cut")
  /\ matrix' = "idle"
  /\ worker' = Asleep
  /\ cuts' = IF worker.pc \in {"write", "save", "evict"} THEN cuts + 1 ELSE cuts
  /\ entries' \in Found
  /\ UNCHANGED <<wal, backup, drive, dir, foreign, pulls>>

Next ==
  \/ Edit \/ Checkpoint \/ NewBackup
  \/ \E force \in BOOLEAN : StartPull(force)
  \/ CopyBackup \/ Fetch \/ FetchFails \/ CloseDb \/ RenameIn \/ OpenNew
  \/ RemoveBackup \/ RemoveFaulty \/ RestoreBackup \/ Reopen
  \/ MatrixCheck \/ Quarantine \/ AfterQuarantine
  \/ \E v \in Videos : Miss(v)
  \/ FetchShard \/ WriteShard \/ SaveEntry \/ Evict
  \/ Damage \/ Crash

Spec == Init /\ [][Next]_vars

-----------------------------------------------------------------------------
(* As long as nobody else edits, damages or moves the database, a pull     *)
(* that succeeds ends with the database it verified, open; one that fails  *)
(* ends with the one it found or with what its backup holds; and at every  *)
(* step, or after a crash, one of the three is in place - or, between the  *)
(* removal of a file that did not open and the return of the backup, that  *)
(* backup still waits, though a start meanwhile makes an empty database    *)
(* beside it (sync.go:489-595).  The backup is the database it found only  *)
(* if the copy succeeded and the WAL was empty (sync.go:495, 1103): the    *)
(* code promises no more, and what a rollback installs may be older.       *)
OldOrNew ==
  pull.kept =>
    CASE pull.result = "ok"     -> OnDisk = pull.new /\ handle = "open"
      [] pull.result = "failed" -> OnDisk \in {pull.old, pull.saved}
      [] OTHER -> \/ OnDisk \in {pull.old, pull.new, pull.saved}
                  \/ OnDisk \in {Nothing, Fresh} /\ backup = pull.saved

(* A pull that was not forced and that could read the local LSN never      *)
(* installs a database that is not newer than the one it replaces, unless  *)
(* that one was edited meanwhile or the backup's manifest lies             *)
(* (sync.go:475-482, 537-549).                                             *)
NeverOlder ==
  [][(/\ pull.pc = "rename" /\ pull'.pc = "open"
      /\ ~pull.force /\ ~pull.blind /\ ~pull.edited
      /\ pull.lsn = pull.new.lsn)
       => main'.lsn > main.lsn]_vars

(* What the cache hands out is what one Put was given, from the first byte *)
(* to the last, whatever crashed in the middle of a Put (cache.go:57-74)   *)
(* and whatever databases came and went, unless both happened.  It need    *)
(* not be the shard: a wrong decode is a hit from then on (queue.go:1162). *)
HitIsComplete ==
  (foreign => cuts = 0) => \A v \in Videos : (worker = Asleep /\ Hit(v)) => dir[v] \in Decodes

(* As long as the database is neither closed nor replaced, the files of    *)
(* the cache stay within its limit, but for the one being written and one  *)
(* for each Put that a crash cut (cache.go:100-113).                       *)
DirBounded ==
  ~foreign => Cardinality({v \in Videos : dir[v] # "none"}) <=
                MaxBytes + cuts + (IF worker = Asleep THEN 0 ELSE 1)

(* "Healthy (LSN > 0), local newer or equal: stay local" (README.md:242):  *)
(* only a corrupt or an empty database is moved aside (sync.go:72-82).     *)
HealthyStays ==
  [][(matrix' = "gone" /\ matrix # "gone" /\ Whole(OnDisk)) => OnDisk.lsn = 0]_vars
=============================================================================
