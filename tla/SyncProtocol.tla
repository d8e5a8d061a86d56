---------------------------- MODULE SyncProtocol ----------------------------
(***************************************************************************)
(* The database backup protocol of the desktop daemon (nexus-daemon:       *)
(* sync.go, and the parts of db.go, api.go and queue.go that drive it).    *)
(* Every device keeps a SQLite database whose manifest_version is its LSN; *)
(* Google Drive keeps one copy, nexus.db, and a manifest that describes    *)
(* it, nexus-sync.json.  A push uploads a snapshot and then its manifest,  *)
(* a pull replaces the whole database.                                     *)
(*                                                                         *)
(* Covered: the edits and their separate LSN step, the push with its       *)
(* decision, snapshot, uploads, retries, verification and circuit breaker, *)
(* the pull, the API's automatic choice, several devices, Drive calls that *)
(* fail with or without effect, the search for the recovery folder, which  *)
(* may never answer, and a crash between any two steps.                    *)
(*                                                                         *)
(* Left out: folders (counted and hashed as files are), encryption, the    *)
(* backup and rollback of the database file (a pull replaces it in one     *)
(* step), stealth mode and pending_sync (no code marks an entry failed).   *)
(* The mobile application's own push and pull are in MobileSync.           *)
(***************************************************************************)
EXTENDS Naturals, FiniteSets, FiniteSetsExt

CONSTANTS Devices,
          Files,        \* ids of rows of the files table
          TaskIds,      \* ids of rows of the tasks table
          MaxEdits,     \* bound: changes of rows, over all devices
          MaxTime,      \* bound: the clock, in seconds
          Threshold,    \* failures before pushes are suspended (3)
          MaxAttempts,  \* attempts of an upload (3)
          NoMan,        \* no manifest
          NoDb          \* no database

ASSUME SyncAssumption ==
  /\ IsFiniteSet(Devices) /\ IsFiniteSet(Files) /\ IsFiniteSet(TaskIds)
  /\ MaxEdits \in Nat
  /\ MaxTime \in Nat \ {0}
  /\ Threshold \in Nat \ {0}
  /\ MaxAttempts \in Nat \ {0}

\* last_update of a row, in seconds; 0: there is no such row.
Times == 0..MaxTime

\* What a database holds: the rows, and the kv_store table, which is part of
\* the file and travels with it: the LSN and the circuit breaker.
Db == [upd : [Files -> Times], trash : SUBSET Files, tasks : SUBSET TaskIds,
       lsn : Nat, fails : 0..Threshold, susp : BOOLEAN]

ASSUME NoneAssumption == NoDb \notin Db

\* The manifest; total is files + folders + tasks.
Manifest == [lsn : Nat, hash : [upd : [Files -> Times],
                                      tasks : SUBSET TaskIds],
             total : Nat, files : Nat, last : Times]

VARIABLES now,     \* the clock, the same on every device
          edits,   \* edits so far
          db,      \* device -> its database
          editing, \* device -> a row is written whose LSN step is to come
          pc,      \* device -> where the holder of SyncManager.mu is
          job,     \* device -> that push's or pull's local variables
          drive    \* nexus.db and nexus-sync.json

vars == <<now, edits, db, editing, pc, job, drive>>

\* "hung": in a call that will not answer, with SyncManager.mu held.
Steps    == {"idle", "decide", "snapshot", "hash", "stats", "upload",
             "manifest", "verify", "record", "download", "replace", "hung"}
NoJob    == [man |-> NoMan, snap |-> NoDb, tries |-> 0]
Job      == [man : Manifest \cup {NoMan}, snap : Db \cup {NoDb},
             tries : 0..MaxAttempts]
Pushing  == Steps \ {"idle", "download", "replace", "hung"}

EmptyDb  == [upd |-> [f \in Files |-> 0], trash |-> {}, tasks |-> {},
             lsn |-> 0, fails |-> 0, susp |-> FALSE]

Rows(x)  == {f \in Files : x.upd[f] # 0}
Total(x) == Cardinality(Rows(x)) + Cardinality(x.tasks)
\* COALESCE(MAX(last_update), 1970)
LastModified(x) == Max({x.upd[f] : f \in Files} \cup {0})
\* The hash covers ids and times; not the trash, and not the LSN.
Hash(x)  == [upd |-> x.upd, tasks |-> x.tasks]

Init ==
  /\ now = 1
  /\ edits = 0
  /\ db = [d \in Devices |-> EmptyDb]
  /\ editing = [d \in Devices |-> FALSE]
  /\ pc = [d \in Devices |-> "idle"]
  /\ job = [d \in Devices |-> NoJob]
  /\ drive = [db |-> NoDb, man |-> NoMan]

-----------------------------------------------------------------------------
(***************************************************************************)
(* Edits.  None takes the mutex of the SyncManager, so they fall between   *)
(* any two steps of a push or a pull.  The row and the LSN are written by  *)
(* two statements; one edit of a device is under way at a time.            *)
(***************************************************************************)
Edit(d, rows) ==
  /\ ~editing[d]
  /\ edits < MaxEdits
  /\ edits' = edits + 1
  /\ editing' = [editing EXCEPT ![d] = TRUE]
  /\ db' = [db EXCEPT ![d] = rows]
  /\ UNCHANGED <<now, pc, job, drive>>

SaveFile(d, f) ==
  Edit(d, [db[d] EXCEPT !.upd[f] = now, !.trash = @ \ {f}])

SoftDelete(d, f) ==
  /\ f \in Rows(db[d])
  /\ Edit(d, [db[d] EXCEPT !.trash = @ \cup {f}])

Restore(d, f) ==
  /\ f \in db[d].trash
  /\ Edit(d, [db[d] EXCEPT !.trash = @ \ {f}])

PermanentDelete(d, f) ==
  /\ f \in Rows(db[d])
  /\ Edit(d, [db[d] EXCEPT !.upd[f] = 0, !.trash = @ \ {f}])

IncrementLSN(d) ==
  /\ editing[d]
  /\ editing' = [editing EXCEPT ![d] = FALSE]
  /\ db' = [db EXCEPT ![d].lsn = @ + 1]
  /\ UNCHANGED <<now, edits, pc, job, drive>>

\* The task queue's rows come and go without an LSN step; saving a known id
\* again changes nothing that counts here.
SaveTask(d, t) ==
  /\ t \notin db[d].tasks
  /\ edits < MaxEdits
  /\ edits' = edits + 1
  /\ db' = [db EXCEPT ![d].tasks = @ \cup {t}]
  /\ UNCHANGED <<now, editing, pc, job, drive>>

DeleteTask(d, t) ==
  /\ t \in db[d].tasks
  /\ edits < MaxEdits
  /\ edits' = edits + 1
  /\ db' = [db EXCEPT ![d].tasks = @ \ {t}]
  /\ UNCHANGED <<now, editing, pc, job, drive>>

Tick ==
  /\ now < MaxTime
  /\ now' = now + 1
  /\ UNCHANGED <<edits, db, editing, pc, job, drive>>

-----------------------------------------------------------------------------
(***************************************************************************)
(* How a push ends: the deferred function of PushDBToDrive updates the     *)
(* circuit breaker, in the database of that moment.                        *)
(***************************************************************************)
RecordFailure(x) ==  \* the count stays at Threshold once it is there
  IF x.fails + 1 < Threshold THEN [x EXCEPT !.fails = @ + 1]
                             ELSE [x EXCEPT !.fails = Threshold, !.susp = TRUE]

End(d) ==
  /\ pc' = [pc EXCEPT ![d] = "idle"]
  /\ job' = [job EXCEPT ![d] = NoJob]
  /\ UNCHANGED <<now, edits, editing, drive>>

Succeed(d) ==
  /\ db' = [db EXCEPT ![d].fails = 0, ![d].susp = FALSE]
  /\ End(d)

Fail(d) ==
  /\ db' = [db EXCEPT ![d] = RecordFailure(@)]
  /\ End(d)

Goto(d, step, j) ==
  /\ pc' = [pc EXCEPT ![d] = step]
  /\ job' = [job EXCEPT ![d] = j]

\* A call that fails before it has any effect: the integrity check, the
\* checkpoint, the snapshot, the download of the verification, the record.
PushFails(d) ==
  /\ pc[d] \in Pushing \ {"upload", "manifest"}
  /\ Fail(d)

\* Faulty: clears the count and not the suspension.
CooldownOverCount(d) ==
  /\ pc[d] = "idle"
  /\ db[d].susp
  /\ db' = [db EXCEPT ![d].fails = 0]
  /\ UNCHANGED <<now, edits, editing, pc, job, drive>>

\* isPushSuspended: once the cooldown is over the next push clears it.
CooldownOver(d) ==
  /\ pc[d] = "idle"
  /\ db[d].susp
  /\ db' = [db EXCEPT ![d].susp = FALSE]
  /\ UNCHANGED <<now, edits, editing, pc, job, drive>>

PushStart(d) ==
  /\ pc[d] = "idle"
  /\ ~db[d].susp
  /\ db[d].lsn # 0
  /\ Goto(d, "decide",
          [NoJob EXCEPT !.man = [lsn |-> db[d].lsn, hash |-> Hash(EmptyDb),
                                 total |-> 0, files |-> 0, last |-> 0]])
  /\ UNCHANGED <<now, edits, db, editing, drive>>

PushOfEmpty(d) ==
  /\ pc[d] = "idle"
  /\ ~db[d].susp
  /\ db[d].lsn = 0
  /\ Fail(d)

\* Case 1 of the decision: same counts, same logical hash.
InSync(x, m) == Total(x) = m.total /\ Hash(x) = m.hash
\* Cases 2 and 4: more rows, or as many and a later last_update.
Richer(x, m) ==
  \/ Total(x) > m.total
  \/ Total(x) = m.total /\ LastModified(x) > m.last

Proceeds(x, m) == m # NoMan => ~InSync(x, m) /\ Richer(x, m)

\* The manifest and then the local counts, hash and time; NoMan when there is
\* none, and also when it cannot be read (the error is logged and dropped).
Decide(d, m) ==
  /\ pc[d] = "decide"
  /\ \/ /\ m # NoMan
        /\ InSync(db[d], m)
        /\ Succeed(d)
     \/ /\ m # NoMan
        /\ ~InSync(db[d], m) /\ ~Proceeds(db[d], m)
        /\ Fail(d)
     \/ /\ Proceeds(db[d], m)
        /\ Goto(d, "snapshot", job[d])
        /\ UNCHANGED <<now, edits, db, editing, drive>>

Snapshot(d) ==
  /\ pc[d] = "snapshot"
  /\ Goto(d, "hash", [job[d] EXCEPT !.snap = db[d]])
  /\ UNCHANGED <<now, edits, db, editing, drive>>

\* The hash and the counts are those of the live database, not of the snapshot.
ReadHash(d) ==
  /\ pc[d] = "hash"
  /\ Goto(d, "stats", [job[d] EXCEPT !.man.hash = Hash(db[d])])
  /\ UNCHANGED <<now, edits, db, editing, drive>>

\* Faulty: the manifest takes the LSN of after the snapshot.
ReadStatsAndLsn(d) ==
  /\ pc[d] = "stats"
  /\ Goto(d, "upload",
          [job[d] EXCEPT !.man.total = Total(db[d]),
                         !.man.lsn = db[d].lsn,
                         !.man.files = Cardinality(Rows(db[d])),
                         !.man.last = LastModified(db[d])])
  /\ UNCHANGED <<now, edits, db, editing, drive>>

ReadStats(d) ==
  /\ pc[d] = "stats"
  /\ Goto(d, "upload",
          [job[d] EXCEPT !.man.total = Total(db[d]),
                         !.man.files = Cardinality(Rows(db[d])),
                         !.man.last = LastModified(db[d])])
  /\ UNCHANGED <<now, edits, db, editing, drive>>

\* Faulty variants: without the count, and with one attempt too many.
RetryUncounted(d, effect) ==
  /\ Goto(d, "upload", job[d])
  /\ drive' = effect
  /\ UNCHANGED <<now, edits, db, editing>>
RetryOnceMore(d, effect) ==
  /\ Goto(d, "upload", [job[d] EXCEPT !.tries = @ + 1])
  /\ job[d].tries <= MaxAttempts
  /\ drive' = effect
  /\ UNCHANGED <<now, edits, db, editing>>

\* retryWithBackoff: the whole upload again, or the push fails.
Retry(d, effect) ==
  \/ /\ job[d].tries + 1 < MaxAttempts
     /\ Goto(d, "upload", [job[d] EXCEPT !.tries = @ + 1])
     /\ drive' = effect
     /\ UNCHANGED <<now, edits, db, editing>>
  \/ /\ job[d].tries + 1 = MaxAttempts
     /\ drive' = effect
     /\ db' = [db EXCEPT ![d] = RecordFailure(@)]
     /\ pc' = [pc EXCEPT ![d] = "idle"]
     /\ job' = [job EXCEPT ![d] = NoJob]
     /\ UNCHANGED <<now, edits, editing>>

\* UploadDBFileToDrive: nexus.db, then its manifest.
UploadDb(d) ==
  LET stored == [drive EXCEPT !.db = job[d].snap] IN
  /\ pc[d] = "upload"
  /\ \/ /\ Goto(d, "manifest", job[d])
        /\ drive' = stored
        /\ UNCHANGED <<now, edits, db, editing>>
     \/ Retry(d, drive)
     \/ Retry(d, stored)

\* Faulty: an upload of the manifest that failed is not tried again.
UploadManifestOnce(d) ==
  /\ pc[d] = "manifest"
  /\ Goto(d, "verify", job[d])
  /\ drive' \in {drive, [drive EXCEPT !.man = job[d].man]}
  /\ UNCHANGED <<now, edits, db, editing>>

UploadManifest(d) ==
  LET stored == [drive EXCEPT !.man = job[d].man] IN
  /\ pc[d] = "manifest"
  /\ \/ /\ Goto(d, "verify", job[d])
        /\ drive' = stored
        /\ UNCHANGED <<now, edits, db, editing>>
     \/ Retry(d, drive)
     \/ Retry(d, stored)

\* What the re-read nexus.db must be: the snapshot, with the manifest's hash.
Verified(x, j) == x = j.snap /\ Hash(x) = j.man.hash

Verify(d) ==
  /\ pc[d] = "verify"
  /\ \/ /\ Verified(drive.db, job[d])
        /\ Goto(d, "record", job[d])
        /\ UNCHANGED <<now, edits, db, editing, drive>>
     \/ ~Verified(drive.db, job[d]) /\ Fail(d)

Record(d) == pc[d] = "record" /\ Succeed(d)

-----------------------------------------------------------------------------
(***************************************************************************)
(* Pull.  One that is refused or fails before it replaces the database     *)
(* changes nothing, except that it ends.                                   *)
(***************************************************************************)
PullStart(d, force) ==
  /\ pc[d] = "idle"
  /\ drive.man # NoMan
  /\ force \/ drive.man.lsn > db[d].lsn
  /\ drive.man.files # 0
  /\ Goto(d, "download", [NoJob EXCEPT !.man = drive.man])
  /\ UNCHANGED <<now, edits, db, editing, drive>>

\* What may be installed: the hash agrees, or the local database is empty.
Installable(x, m, local) == Hash(x) = m.hash \/ local.lsn = 0

PullDownload(d) ==
  /\ pc[d] = "download"
  /\ drive.db # NoDb
  /\ Installable(drive.db, job[d].man, db[d])
  /\ Goto(d, "replace", [job[d] EXCEPT !.snap = drive.db])
  /\ UNCHANGED <<now, edits, db, editing, drive>>

PullReplace(d) ==
  /\ pc[d] = "replace"
  /\ db' = [db EXCEPT ![d] = job[d].snap]
  /\ Goto(d, "idle", NoJob)
  /\ UNCHANGED <<now, edits, editing, drive>>

PullFails(d) ==
  /\ pc[d] \in {"download", "replace"}
  /\ Goto(d, "idle", NoJob)
  /\ UNCHANGED <<now, edits, db, editing, drive>>

\* getRecoveryFolderID, the first call to Drive of every reading of the
\* manifest, every upload and every download: its requests carry no context, so
\* neither the 60 s of an attempt nor anything else ends one that hangs.
Hang(d) ==
  /\ pc[d] \in {"idle", "decide", "upload", "verify", "download"}
  /\ Goto(d, "hung", NoJob)
  /\ UNCHANGED <<now, edits, db, editing, drive>>

\* The process dies: what is in SQLite stays, an LSN step to come is lost.
Crash(d) ==
  /\ pc[d] # "idle" \/ editing[d]
  /\ editing' = [editing EXCEPT ![d] = FALSE]
  /\ Goto(d, "idle", NoJob)
  /\ UNCHANGED <<now, edits, db, drive>>

-----------------------------------------------------------------------------
EditStep(d) ==
  \/ \E f \in Files : \/ SaveFile(d, f) \/ SoftDelete(d, f)
                      \/ Restore(d, f) \/ PermanentDelete(d, f)
  \/ \E t \in TaskIds : SaveTask(d, t) \/ DeleteTask(d, t)
  \/ IncrementLSN(d)

PushStep(d) ==
  \/ \E m \in {drive.man, NoMan} : Decide(d, m)
  \/ Snapshot(d) \/ ReadHash(d) \/ ReadStats(d)
  \/ UploadDb(d) \/ UploadManifest(d) \/ Verify(d) \/ Record(d)
  \/ PushFails(d)

PullStep(d) == PullDownload(d) \/ PullReplace(d) \/ PullFails(d)

\* QueueManifestBackup, handleCloudSync, RunSyncMatrix, handleShutdown.
Request(d) ==
  \/ PushStart(d) \/ PushOfEmpty(d) \/ CooldownOver(d)
  \/ \E force \in BOOLEAN : PullStart(d, force)

Next ==
  \/ Tick
  \/ \E d \in Devices : \/ EditStep(d) \/ Request(d) \/ PushStep(d)
                        \/ PullStep(d) \/ Hang(d) \/ Crash(d)

Spec == Init /\ [][Next]_vars

\* The goroutine of a push or a pull runs on: the context of an attempt ends
\* its calls to the Drive after 60 s, except the ones that Hang is about.
FairSpec ==
  Spec /\ \A d \in Devices : WF_vars(PushStep(d)) /\ WF_vars(PullStep(d))

-----------------------------------------------------------------------------
\* The variables of a push, a pull and the Drive keep their types.
TypeOK ==
  /\ now \in 1..MaxTime
  /\ edits \in 0..MaxEdits
  /\ db \in [Devices -> Db]
  /\ editing \in [Devices -> BOOLEAN]
  /\ pc \in [Devices -> Steps]
  /\ job \in [Devices -> Job]
  /\ drive \in [db : Db \cup {NoDb}, man : Manifest \cup {NoMan}]

\* While one device uses the Drive, a push that is recorded has left there the
\* snapshot it took and its own manifest, and a pull will find that their hashes
\* agree - although only nexus.db is read back (sync.go:359-419), the manifest is
\* a second upload, and either may be repeated, or answered too late.
RecordedIsOnDrive ==
  \A d \in Devices : pc[d] = "record" =>
    /\ drive = [db |-> job[d].snap, man |-> job[d].man]
    /\ Hash(drive.db) = drive.man.hash

\* Pushes are suspended only in a database that counts Threshold failures,
\* also after a pull has replaced that database, and the breaker in it, by a
\* snapshot taken in the middle of another push.
SuspendedAfterFailures ==
  \A d \in Devices : db[d].susp => db[d].fails = Threshold

\* While one device uses the Drive, the manifest's LSN is never ahead of that
\* of the database it announces, whatever call failed: a device that pulls
\* because of a manifest gets a database that new, and does not pull for ever.
ManifestNotAhead ==
  drive.man # NoMan => drive.db # NoDb /\ drive.man.lsn <= drive.db.lsn

\* Every push and every pull ends and frees the mutex, whatever fails and is
\* repeated, unless it hangs in the search for the recovery folder: "The daemon
\* will never hang indefinitely on a network failure" (README.md:244) leaves
\* that one call out (recovery.go:423, 433).
SyncEnds ==
  \A d \in Devices : pc[d] \notin {"idle", "hung"} ~> pc[d] \in {"idle", "hung"}
=============================================================================
