----------------------------- MODULE SyncProofs -----------------------------
(***************************************************************************)
(* Machine-checked proofs about SyncProtocol and MobileSync, for every set *)
(* of devices, rows and tasks, every number of failures and attempts, and  *)
(* every bound: first desktops alone, then the same with a phone on their  *)
(* Drive, which keeps to it too.                                           *)
(***************************************************************************)
EXTENDS MobileSync, SequenceLemmas

-----------------------------------------------------------------------------
(* What a push reads of a database.                                         *)

\* The latest last_update is a time.
LEMMA LastModifiedType ==
  ASSUME NEW x \in Db
  PROVE  LastModified(x) \in Times
<1> DEFINE S == {x.upd[f] : f \in Files} \cup {0}
           U == {u \in Nat : \A s \in S : s <= u}
<1>1. S \subseteq Times /\ 0 \in S
  BY SyncAssumption DEF Db, Times
<1>2. MaxTime \in U
  BY <1>1, SyncAssumption DEF Times
<1>3. PICK u \in U : \A v \in U : u <= v
  BY <1>2, LeastNat
<1>4. u \in S
  <2>1. CASE u = 0
    BY <1>1, <2>1
  <2>2. CASE u # 0 /\ u \notin S
    <3>1. u - 1 \in U
      BY <1>1, <2>2 DEF Times
    <3>2. QED
      BY <1>3, <3>1
  <2>3. QED
    BY <2>1, <2>2
<1>5. \E s \in S : \A t \in S : s >= t
  BY <1>1, <1>4 DEF Times
<1>6. Max(S) \in S
  BY <1>5 DEF Max
<1>7. QED
  BY <1>1, <1>6 DEF LastModified

\* The counts are natural numbers.
LEMMA CountTypes ==
  ASSUME NEW x \in Db
  PROVE  Total(x) \in Nat /\ Cardinality(Rows(x)) \in Nat
<1>1. Rows(x) \in SUBSET Files /\ x.tasks \in SUBSET TaskIds
  BY DEF Rows, Db
<1>2. IsFiniteSet(Rows(x)) /\ IsFiniteSet(x.tasks)
  BY <1>1, FS_Subset, SyncAssumption
<1>3. QED
  BY <1>2, FS_CardinalityType DEF Total

\* The hash of a database has the type the manifest gives it.
LEMMA HashType ==
  ASSUME NEW x \in Db
  PROVE  Hash(x) \in [upd : [Files -> Times], tasks : SUBSET TaskIds]
BY DEF Hash, Db

LEMMA EmptyDbType == EmptyDb \in Db
BY SyncAssumption DEF EmptyDb, Db, Times

\* The deferred update of the breaker keeps a database a database.
LEMMA RecordFailureType ==
  ASSUME NEW x \in Db
  PROVE  RecordFailure(x) \in Db
<1>1. ASSUME x.fails + 1 < Threshold PROVE RecordFailure(x) \in Db
  <2>1. x.fails + 1 \in 0..Threshold
    BY <1>1, SyncAssumption DEF Db
  <2>2. RecordFailure(x) = [x EXCEPT !.fails = x.fails + 1]
    BY <1>1 DEF RecordFailure
  <2>3. QED
    BY <2>1, <2>2 DEF Db
<1>2. ASSUME ~(x.fails + 1 < Threshold) PROVE RecordFailure(x) \in Db
  <2>1. Threshold \in 0..Threshold
    BY SyncAssumption
  <2>2. RecordFailure(x) = [x EXCEPT !.fails = Threshold, !.susp = TRUE]
    BY <1>2 DEF RecordFailure
  <2>3. QED
    BY <2>1, <2>2 DEF Db
<1>3. QED
  BY <1>1, <1>2

-----------------------------------------------------------------------------
(* Type correctness.  TypeOK alone does not say when a push or a pull has   *)
(* its manifest and its snapshot, and that an attempt is left.              *)
HasMan  == Steps \ {"idle", "hung"}
HasSnap == {"hash", "stats", "upload", "manifest", "verify", "record",
            "replace"}
JobInv ==
  \A d \in Devices :
    /\ pc[d] \in HasMan  => job[d].man \in Manifest
    /\ pc[d] \in HasSnap => job[d].snap \in Db
    /\ pc[d] \notin {"idle", "hung", "verify", "record"} => job[d].tries < MaxAttempts

TypeInv == TypeOK /\ JobInv

LEMMA TypeInit == Init => TypeInv
<1> SUFFICES ASSUME Init PROVE TypeInv
  OBVIOUS
<1>1. NoJob \in Job
  BY SyncAssumption DEF NoJob, Job
<1>2. TypeOK
  BY <1>1, EmptyDbType, SyncAssumption DEF Init, TypeOK, Steps
<1>3. JobInv
  BY DEF Init, JobInv, HasMan, HasSnap
<1>4. QED
  BY <1>2, <1>3 DEF TypeInv

\* Everything in a push or pull that only moves d on keeps the types.
LEMMA GotoType ==
  ASSUME TypeInv, NEW d \in Devices, NEW step \in Steps, NEW j \in Job,
         Goto(d, step, j),
         step \in HasMan => j.man \in Manifest,
         step \in HasSnap => j.snap \in Db,
         step \notin {"idle", "hung", "verify", "record"} => j.tries < MaxAttempts
  PROVE  /\ pc' \in [Devices -> Steps] /\ job' \in [Devices -> Job]
         /\ JobInv'
<1>1. /\ pc'  = [pc EXCEPT ![d] = step]
      /\ job' = [job EXCEPT ![d] = j]
  BY DEF Goto
<1>2. pc' \in [Devices -> Steps] /\ job' \in [Devices -> Job]
  BY <1>1 DEF TypeInv, TypeOK
<1>3. JobInv'
  BY <1>1 DEF TypeInv, TypeOK, JobInv
<1>4. QED
  BY <1>2, <1>3

\* An end of a push or pull, with whatever it leaves in the device's database.
LEMMA IdleType ==
  ASSUME TypeInv, NEW d \in Devices,
         pc' = [pc EXCEPT ![d] = "idle"], job' = [job EXCEPT ![d] = NoJob]
  PROVE  /\ pc' \in [Devices -> Steps] /\ job' \in [Devices -> Job]
         /\ JobInv'
<1>1. NoJob \in Job /\ "idle" \in Steps /\ "idle" \notin HasMan \cup HasSnap
  BY SyncAssumption DEF NoJob, Job, Steps, HasMan, HasSnap
<1>2. Goto(d, "idle", NoJob)
  BY DEF Goto
<1>3. QED
  BY <1>1, <1>2, GotoType

\* A push that fails or succeeds ends with a database of the right type.
LEMMA EndType ==
  ASSUME TypeInv, NEW d \in Devices, Succeed(d) \/ Fail(d)
  PROVE  TypeInv'
<1>1. db' \in [Devices -> Db]
  <2>1. CASE Succeed(d)
    <3>0. db[d] \in Db /\ 0 \in 0..Threshold
      BY SyncAssumption DEF TypeInv, TypeOK
    <3>1. [db[d] EXCEPT !.fails = 0, !.susp = FALSE] \in Db
      BY <3>0 DEF Db
    <3>2. db' = [db EXCEPT ![d] = [db[d] EXCEPT !.fails = 0, !.susp = FALSE]]
      BY <2>1 DEF Succeed, TypeInv, TypeOK
    <3>3. QED
      BY <3>1, <3>2 DEF TypeInv, TypeOK
  <2>2. CASE Fail(d)
    <3>1. RecordFailure(db[d]) \in Db
      BY RecordFailureType DEF TypeInv, TypeOK
    <3>2. db' = [db EXCEPT ![d] = RecordFailure(db[d])]
      BY <2>2 DEF Fail
    <3>3. QED
      BY <3>1, <3>2 DEF TypeInv, TypeOK
  <2>3. QED
    BY <2>1, <2>2
<1>2. End(d)
  BY DEF Succeed, Fail
<1>3. /\ pc' \in [Devices -> Steps] /\ job' \in [Devices -> Job]
      /\ JobInv'
  BY <1>2, IdleType DEF End
<1>4. QED
  BY <1>1, <1>2, <1>3 DEF End, TypeInv, TypeOK

\* An upload that is repeated or given up, whatever reached the Drive.
LEMMA RetryType ==
  ASSUME TypeInv, NEW d \in Devices, pc[d] \in {"upload", "manifest"},
         NEW e \in [db : Db \cup {NoDb}, man : Manifest \cup {NoMan}],
         Retry(d, e)
  PROVE  TypeInv'
<1> DEFINE again == [job[d] EXCEPT !.tries = job[d].tries + 1]
<1>0. /\ job[d] \in Job /\ job[d].man \in Manifest /\ job[d].snap \in Db
      /\ job[d].tries < MaxAttempts
  BY DEF TypeInv, TypeOK, JobInv, HasMan, HasSnap, Steps
<1>1. CASE /\ job[d].tries + 1 < MaxAttempts
           /\ Goto(d, "upload", again)
           /\ drive' = e
           /\ UNCHANGED <<now, edits, db, editing>>
  <2>1. /\ again \in Job /\ again.man \in Manifest /\ again.snap \in Db
        /\ again.tries < MaxAttempts
    BY <1>0, <1>1, SyncAssumption DEF Job
  <2>2. /\ pc' \in [Devices -> Steps] /\ job' \in [Devices -> Job]
        /\ JobInv'
    BY <1>1, <2>1, GotoType DEF Steps
  <2>3. QED
    BY <1>1, <2>2 DEF TypeInv, TypeOK
<1>2. CASE /\ drive' = e
           /\ db' = [db EXCEPT ![d] = RecordFailure(db[d])]
           /\ pc' = [pc EXCEPT ![d] = "idle"]
           /\ job' = [job EXCEPT ![d] = NoJob]
           /\ UNCHANGED <<now, edits, editing>>
  <2>1. RecordFailure(db[d]) \in Db
    BY RecordFailureType DEF TypeInv, TypeOK
  <2>2. /\ pc' \in [Devices -> Steps] /\ job' \in [Devices -> Job]
        /\ JobInv'
    BY <1>2, IdleType
  <2>3. QED
    BY <1>2, <2>1, <2>2 DEF TypeInv, TypeOK
<1>3. QED
  BY <1>1, <1>2 DEF Retry

\* An edit keeps the types, whatever rows it leaves.
LEMMA EditType ==
  ASSUME TypeInv, NEW d \in Devices, NEW x \in Db, Edit(d, x)
  PROVE  TypeInv'
<1>1. edits' \in 0..MaxEdits
  BY SyncAssumption DEF Edit, TypeInv, TypeOK
<1>2. QED
  BY <1>1 DEF Edit, TypeInv, TypeOK, JobInv

LEMMA EditStepType ==
  ASSUME TypeInv, NEW d \in Devices, EditStep(d)
  PROVE  TypeInv'
<1> USE DEF TypeInv, TypeOK
<1>0. db[d] \in Db /\ now \in Times /\ 0 \in Times
  BY SyncAssumption DEF Times
<1>1. ASSUME NEW f \in Files, SaveFile(d, f) PROVE TypeInv'
  <2>1. [db[d] EXCEPT !.upd[f] = now, !.trash = db[d].trash \ {f}] \in Db
    BY <1>0 DEF Db
  <2>2. QED
    BY <1>1, <2>1, EditType DEF SaveFile
<1>2. ASSUME NEW f \in Files, SoftDelete(d, f) PROVE TypeInv'
  <2>1. [db[d] EXCEPT !.trash = db[d].trash \cup {f}] \in Db
    BY <1>0 DEF Db
  <2>2. QED
    BY <1>2, <2>1, EditType DEF SoftDelete
<1>3. ASSUME NEW f \in Files, Restore(d, f) PROVE TypeInv'
  <2>1. [db[d] EXCEPT !.trash = db[d].trash \ {f}] \in Db
    BY <1>0 DEF Db
  <2>2. QED
    BY <1>3, <2>1, EditType DEF Restore
<1>4. ASSUME NEW f \in Files, PermanentDelete(d, f) PROVE TypeInv'
  <2>1. [db[d] EXCEPT !.upd[f] = 0, !.trash = db[d].trash \ {f}] \in Db
    BY <1>0 DEF Db
  <2>2. QED
    BY <1>4, <2>1, EditType DEF PermanentDelete
<1>5. ASSUME NEW t \in TaskIds, SaveTask(d, t) \/ DeleteTask(d, t)
      PROVE  TypeInv'
  <2>0. PICK T \in SUBSET TaskIds :
          db' = [db EXCEPT ![d] = [db[d] EXCEPT !.tasks = T]]
    <3>1. db[d].tasks \cup {t} \in SUBSET TaskIds
          /\ db[d].tasks \ {t} \in SUBSET TaskIds
      BY <1>0 DEF Db
    <3>2. CASE SaveTask(d, t)
      BY <3>1, <3>2 DEF SaveTask
    <3>3. CASE DeleteTask(d, t)
      BY <3>1, <3>3 DEF DeleteTask
    <3>4. QED
      BY <1>5, <3>2, <3>3
  <2>1. db' \in [Devices -> Db]
    <3>1. [db[d] EXCEPT !.tasks = T] \in Db
      BY <1>0 DEF Db
    <3>2. QED
      BY <2>0, <3>1
  <2>2. edits' \in 0..MaxEdits
    BY <1>5, SyncAssumption DEF SaveTask, DeleteTask
  <2>3. /\ editing' \in [Devices -> BOOLEAN]
        /\ UNCHANGED <<now, pc, job, drive>>
    BY <1>5 DEF SaveTask, DeleteTask
  <2>4. QED
    BY <2>1, <2>2, <2>3 DEF JobInv
<1>6. CASE IncrementLSN(d)
  <2>0. [db[d] EXCEPT !.lsn = db[d].lsn + 1] \in Db
    <3>1. db[d].lsn + 1 \in Nat
      BY <1>0 DEF Db
    <3>2. QED
      BY <1>0, <3>1 DEF Db
  <2>1. db' \in [Devices -> Db]
    BY <1>6, <2>0 DEF IncrementLSN
  <2>2. QED
    BY <1>6, <2>1 DEF IncrementLSN, JobInv
<1>7. QED
  BY <1>1, <1>2, <1>3, <1>4, <1>5, <1>6 DEF EditStep

\* A step of a push keeps the types.
LEMMA PushStepType ==
  ASSUME TypeInv, NEW d \in Devices, PushStep(d)
  PROVE  TypeInv'
<1> USE DEF TypeInv, TypeOK
<1>0. /\ db[d] \in Db /\ job[d] \in Job
      /\ pc[d] \in HasMan => job[d].man \in Manifest
      /\ pc[d] \in HasSnap => job[d].snap \in Db
      /\ pc[d] \notin {"idle", "hung", "verify", "record"} =>
           job[d].tries < MaxAttempts
  BY DEF JobInv
<1>1. ASSUME NEW m, Decide(d, m) PROVE TypeInv'
  <2>1. CASE Succeed(d) \/ Fail(d)
    BY <2>1, EndType
  <2>2. CASE pc[d] = "decide" /\ Goto(d, "snapshot", job[d])
             /\ UNCHANGED <<now, edits, db, editing, drive>>
    <3>1. /\ pc' \in [Devices -> Steps] /\ job' \in [Devices -> Job]
          /\ JobInv'
      BY <1>0, <2>2, GotoType DEF Steps, HasMan, HasSnap
    <3>2. QED
      BY <2>2, <3>1
  <2>3. QED
    BY <1>1, <2>1, <2>2 DEF Decide
<1>2. CASE Snapshot(d)
  <2>1. [job[d] EXCEPT !.snap = db[d]] \in Job
    BY <1>0 DEF Job
  <2>2. /\ pc' \in [Devices -> Steps] /\ job' \in [Devices -> Job]
        /\ JobInv'
    BY <1>0, <1>2, <2>1, GotoType DEF Snapshot, Steps, HasMan, HasSnap, Job
  <2>3. QED
    BY <1>2, <2>2 DEF Snapshot
<1>3. CASE ReadHash(d)
  <2> DEFINE j == [job[d] EXCEPT !.man.hash = Hash(db[d])]
  <2>1. [job[d].man EXCEPT !.hash = Hash(db[d])] \in Manifest
    BY <1>0, <1>3, HashType DEF ReadHash, HasMan, Steps, Manifest
  <2>2. /\ j \in Job /\ j.man \in Manifest /\ j.snap = job[d].snap
        /\ j.tries = job[d].tries
    BY <1>0, <2>1 DEF Job
  <2>3. /\ pc' \in [Devices -> Steps] /\ job' \in [Devices -> Job]
        /\ JobInv'
    BY <1>0, <1>3, <2>2, GotoType DEF ReadHash, Steps, HasMan, HasSnap
  <2>4. QED
    BY <1>3, <2>3 DEF ReadHash
<1>4. CASE ReadStats(d)
  <2> DEFINE m == [job[d].man EXCEPT !.total = Total(db[d]),
                                     !.files = Cardinality(Rows(db[d])),
                                     !.last = LastModified(db[d])]
             j == [job[d] EXCEPT !.man = m]
  <2>1. m \in Manifest
    BY <1>0, <1>4, CountTypes, LastModifiedType
       DEF ReadStats, HasMan, Steps, Manifest
  <2>2. /\ j \in Job /\ j.man \in Manifest /\ j.snap = job[d].snap
        /\ j.tries = job[d].tries
    BY <1>0, <2>1 DEF Job
  <2>3. Goto(d, "upload", j)
    BY <1>0, <1>4 DEF ReadStats, Job
  <2>4. /\ pc' \in [Devices -> Steps] /\ job' \in [Devices -> Job]
        /\ JobInv'
    BY <1>0, <1>4, <2>2, <2>3, GotoType DEF ReadStats, Steps, HasMan, HasSnap
  <2>5. QED
    BY <1>4, <2>4 DEF ReadStats
<1>5. CASE UploadDb(d)
  <2> DEFINE stored == [drive EXCEPT !.db = job[d].snap]
  <2>1. stored \in [db : Db \cup {NoDb}, man : Manifest \cup {NoMan}]
    BY <1>0, <1>5 DEF UploadDb, HasSnap
  <2>2. CASE Retry(d, drive) \/ Retry(d, stored)
    BY <1>5, <2>1, <2>2, RetryType DEF UploadDb
  <2>3. CASE /\ Goto(d, "manifest", job[d])
             /\ drive' = stored
             /\ UNCHANGED <<now, edits, db, editing>>
    <3>1. /\ pc' \in [Devices -> Steps] /\ job' \in [Devices -> Job]
          /\ JobInv'
      BY <1>0, <1>5, <2>3, GotoType DEF UploadDb, Steps, HasMan, HasSnap
    <3>2. QED
      BY <2>1, <2>3, <3>1
  <2>4. QED
    BY <1>5, <2>2, <2>3 DEF UploadDb
<1>6. CASE UploadManifest(d)
  <2> DEFINE stored == [drive EXCEPT !.man = job[d].man]
  <2>1. stored \in [db : Db \cup {NoDb}, man : Manifest \cup {NoMan}]
    BY <1>0, <1>6 DEF UploadManifest, HasMan, Steps
  <2>2. CASE Retry(d, drive) \/ Retry(d, stored)
    BY <1>6, <2>1, <2>2, RetryType DEF UploadManifest
  <2>3. CASE /\ Goto(d, "verify", job[d])
             /\ drive' = stored
             /\ UNCHANGED <<now, edits, db, editing>>
    <3>1. /\ pc' \in [Devices -> Steps] /\ job' \in [Devices -> Job]
          /\ JobInv'
      BY <1>0, <1>6, <2>3, GotoType DEF UploadManifest, Steps, HasMan, HasSnap
    <3>2. QED
      BY <2>1, <2>3, <3>1
  <2>4. QED
    BY <1>6, <2>2, <2>3 DEF UploadManifest
<1>7. CASE Verify(d)
  <2>1. CASE Fail(d)
    BY <2>1, EndType
  <2>2. CASE Goto(d, "record", job[d])
             /\ UNCHANGED <<now, edits, db, editing, drive>>
    <3>1. /\ pc' \in [Devices -> Steps] /\ job' \in [Devices -> Job]
          /\ JobInv'
      BY <1>0, <1>7, <2>2, GotoType DEF Verify, Steps, HasMan, HasSnap
    <3>2. QED
      BY <2>2, <3>1
  <2>3. QED
    BY <1>7, <2>1, <2>2 DEF Verify
<1>8. CASE Record(d) \/ PushFails(d)
  BY <1>8, EndType DEF Record, PushFails
<1>9. QED
  BY <1>1, <1>2, <1>3, <1>4, <1>5, <1>6, <1>7, <1>8 DEF PushStep

\* A step of a pull, a call that hangs and a crash keep the types.
LEMMA PullStepType ==
  ASSUME TypeInv, NEW d \in Devices, PullStep(d) \/ Hang(d) \/ Crash(d)
  PROVE  TypeInv'
<1> USE DEF TypeInv, TypeOK
<1>0. /\ job[d] \in Job
      /\ pc[d] \in HasMan => job[d].man \in Manifest
      /\ pc[d] \in HasSnap => job[d].snap \in Db
      /\ pc[d] \notin {"idle", "hung", "verify", "record"} =>
           job[d].tries < MaxAttempts
  BY DEF JobInv
<1>1. CASE PullDownload(d)
  <2> DEFINE j == [job[d] EXCEPT !.snap = drive.db]
  <2>1. /\ j \in Job /\ j.snap \in Db /\ j.man = job[d].man
        /\ j.tries = job[d].tries
    BY <1>0, <1>1 DEF PullDownload, Job
  <2>2. /\ pc' \in [Devices -> Steps] /\ job' \in [Devices -> Job]
        /\ JobInv'
    BY <1>0, <1>1, <2>1, GotoType DEF PullDownload, Steps, HasMan
  <2>3. QED
    BY <1>1, <2>2 DEF PullDownload
<1>2. CASE PullReplace(d)
  <2>1. db' \in [Devices -> Db]
    BY <1>0, <1>2 DEF PullReplace, HasSnap
  <2>2. /\ pc' \in [Devices -> Steps] /\ job' \in [Devices -> Job]
        /\ JobInv'
    BY <1>2, IdleType DEF PullReplace, Goto
  <2>3. QED
    BY <1>2, <2>1, <2>2 DEF PullReplace
<1>3. CASE PullFails(d)
  <2>1. /\ pc' \in [Devices -> Steps] /\ job' \in [Devices -> Job]
        /\ JobInv'
    BY <1>3, IdleType DEF PullFails, Goto
  <2>2. QED
    BY <1>3, <2>1 DEF PullFails
<1>4. CASE Crash(d)
  <2>1. /\ pc' \in [Devices -> Steps] /\ job' \in [Devices -> Job]
        /\ JobInv'
    BY <1>4, IdleType DEF Crash, Goto
  <2>2. QED
    BY <1>4, <2>1 DEF Crash
<1>5. CASE Hang(d)
  <2>1. NoJob \in Job
    BY SyncAssumption DEF NoJob, Job
  <2>2. /\ pc' \in [Devices -> Steps] /\ job' \in [Devices -> Job]
        /\ JobInv'
    BY <1>5, <2>1, GotoType DEF Hang, Steps, HasMan, HasSnap
  <2>3. QED
    BY <1>5, <2>2 DEF Hang
<1>6. QED
  BY <1>1, <1>2, <1>3, <1>4, <1>5 DEF PullStep

\* A request for a push or a pull keeps the types.
LEMMA RequestType ==
  ASSUME TypeInv, NEW d \in Devices, Request(d)
  PROVE  TypeInv'
<1> USE DEF TypeInv, TypeOK
<1>1. CASE PushStart(d)
  <2> DEFINE m == [lsn |-> db[d].lsn, hash |-> Hash(EmptyDb),
                   total |-> 0, files |-> 0, last |-> 0]
             j == [NoJob EXCEPT !.man = m]
  <2>1. m \in Manifest
    BY HashType, EmptyDbType, SyncAssumption, SMTT(30) DEF Manifest, Db, Times
  <2>2. j \in Job /\ j.man \in Manifest /\ j.tries < MaxAttempts
    BY <2>1, SyncAssumption DEF NoJob, Job
  <2>3. /\ pc' \in [Devices -> Steps] /\ job' \in [Devices -> Job]
        /\ JobInv'
    BY <1>1, <2>2, GotoType DEF PushStart, Steps, HasSnap
  <2>4. QED
    BY <1>1, <2>3 DEF PushStart
<1>2. CASE PushOfEmpty(d)
  BY <1>2, EndType DEF PushOfEmpty
<1>3. CASE CooldownOver(d)
  <2>0. db[d] \in Db
    OBVIOUS
  <2>1. [db[d] EXCEPT !.susp = FALSE] \in Db
    BY <2>0 DEF Db
  <2>2. db' \in [Devices -> Db]
    BY <1>3, <2>1 DEF CooldownOver
  <2>3. QED
    BY <1>3, <2>2 DEF CooldownOver, JobInv
<1>4. ASSUME NEW force \in BOOLEAN, PullStart(d, force) PROVE TypeInv'
  <2> DEFINE j == [NoJob EXCEPT !.man = drive.man]
  <2>1. j \in Job /\ j.man \in Manifest /\ j.tries < MaxAttempts
    BY <1>4, SyncAssumption DEF PullStart, NoJob, Job
  <2>2. /\ pc' \in [Devices -> Steps] /\ job' \in [Devices -> Job]
        /\ JobInv'
    BY <1>4, <2>1, GotoType DEF PullStart, Steps, HasSnap
  <2>3. QED
    BY <1>4, <2>2 DEF PullStart
<1>5. QED
  BY <1>1, <1>2, <1>3, <1>4 DEF Request

LEMMA TypeStep == TypeInv /\ [Next]_vars => TypeInv'
<1> SUFFICES ASSUME TypeInv, [Next]_vars PROVE TypeInv'
  OBVIOUS
<1>1. CASE Tick
  BY <1>1, SyncAssumption DEF Tick, TypeInv, TypeOK, JobInv
<1>2. ASSUME NEW d \in Devices, EditStep(d) \/ Request(d) \/ PushStep(d)
                                 \/ PullStep(d) \/ Hang(d) \/ Crash(d)
      PROVE  TypeInv'
  BY <1>2, EditStepType, RequestType, PushStepType, PullStepType
<1>3. CASE UNCHANGED vars
  BY <1>3 DEF vars, TypeInv, TypeOK, JobInv
<1>4. QED
  BY <1>1, <1>2, <1>3 DEF Next

LEMMA TypeAlways == Spec => []TypeInv
<1>1. QED
  BY TypeInit, TypeStep, PTL DEF Spec

\* Every variable of the protocol keeps its type, for every instance.
THEOREM TypeCorrect == Spec => []TypeOK
<1>1. TypeInv => TypeOK
  BY DEF TypeInv
<1>2. QED
  BY <1>1, TypeAlways, PTL

-----------------------------------------------------------------------------
(* The circuit breaker.  A pull installs the breaker of the Drive's copy,   *)
(* and a push uploads that of its snapshot: the invariant speaks of them    *)
(* all.                                                                     *)
Sound(x) == x.susp => x.fails = Threshold
BreakerInv ==
  /\ \A d \in Devices :
       /\ Sound(db[d])
       /\ pc[d] \in HasSnap => Sound(job[d].snap)
  /\ drive.db # NoDb => Sound(drive.db)

\* A failure leaves a sound breaker.
LEMMA RecordFailureSound ==
  ASSUME NEW x \in Db, Sound(x)
  PROVE  Sound(RecordFailure(x))
<1>1. CASE x.fails + 1 < Threshold
  <2>1. x.fails # Threshold
    BY <1>1, SyncAssumption DEF Db
  <2>2. x.susp = FALSE
    BY <2>1 DEF Db, Sound
  <2>3. RecordFailure(x).susp = FALSE
    BY <1>1, <2>2 DEF RecordFailure, Db
  <2>4. QED
    BY <2>3 DEF Sound
<1>2. CASE ~(x.fails + 1 < Threshold)
  BY <1>2 DEF RecordFailure, Sound, Db
<1>3. QED
  BY <1>1, <1>2

\* A step that leaves d with a sound database, and the snapshots and the Drive
\* as they are or idle, keeps the invariant.
LEMMA DbSound ==
  ASSUME TypeInv, BreakerInv, NEW d \in Devices, NEW x, Sound(x),
         db' = [db EXCEPT ![d] = x], UNCHANGED drive,
         \/ UNCHANGED <<pc, job>>
         \/ /\ pc' = [pc EXCEPT ![d] = "idle"]
            /\ job' = [job EXCEPT ![d] = NoJob]
  PROVE  BreakerInv'
BY DEF TypeInv, TypeOK, BreakerInv, Sound, HasSnap

\* A step that only moves d on, with a sound snapshot if it has one.
LEMMA GotoSound ==
  ASSUME TypeInv, BreakerInv, NEW d \in Devices, NEW step, NEW j,
         Goto(d, step, j), UNCHANGED db,
         step \in HasSnap => Sound(j.snap),
         drive'.db # NoDb => drive'.db = drive.db \/ Sound(drive'.db)
  PROVE  BreakerInv'
BY DEF TypeInv, TypeOK, BreakerInv, Sound, HasSnap, Goto

LEMMA EndSound ==
  ASSUME TypeInv, BreakerInv, NEW d \in Devices, Succeed(d) \/ Fail(d)
  PROVE  BreakerInv'
<1>0. db[d] \in Db /\ Sound(db[d])
  BY DEF TypeInv, TypeOK, BreakerInv
<1>1. CASE Fail(d)
  BY <1>0, <1>1, RecordFailureSound, DbSound DEF Fail, End
<1>2. CASE Succeed(d)
  <2> DEFINE x == [db[d] EXCEPT !.fails = 0, !.susp = FALSE]
  <2>1. Sound(x)
    BY <1>0 DEF Sound, Db
  <2>2. db' = [db EXCEPT ![d] = x]
    BY <1>2 DEF Succeed, TypeInv, TypeOK
  <2> HIDE DEF x
  <2>3. QED
    BY <1>2, <2>1, <2>2, DbSound DEF Succeed, End
<1>3. QED
  BY <1>1, <1>2

LEMMA RetrySound ==
  ASSUME TypeInv, BreakerInv, NEW d \in Devices,
         pc[d] \in {"upload", "manifest"},
         NEW e, e.db # NoDb => e.db = drive.db \/ Sound(e.db), Retry(d, e)
  PROVE  BreakerInv'
<1>0. db[d] \in Db /\ Sound(db[d]) /\ Sound(job[d].snap) /\ job[d] \in Job
  BY DEF TypeInv, TypeOK, BreakerInv, HasSnap
<1>1. CASE /\ Goto(d, "upload", [job[d] EXCEPT !.tries = job[d].tries + 1])
           /\ drive' = e /\ UNCHANGED db
  <2>1. Sound([job[d] EXCEPT !.tries = job[d].tries + 1].snap)
    BY <1>0 DEF Job
  <2>2. QED
    BY <1>1, <2>1, GotoSound
<1>2. CASE /\ drive' = e
           /\ db' = [db EXCEPT ![d] = RecordFailure(db[d])]
           /\ pc' = [pc EXCEPT ![d] = "idle"]
           /\ job' = [job EXCEPT ![d] = NoJob]
  <2>1. Sound(RecordFailure(db[d]))
    BY <1>0, RecordFailureSound
  <2>2. QED
    BY <1>2, <2>1 DEF TypeInv, TypeOK, BreakerInv, Sound, HasSnap
<1>3. QED
  BY <1>1, <1>2 DEF Retry

\* Edits do not touch the breaker.
LEMMA EditSound ==
  ASSUME TypeInv, BreakerInv, NEW d \in Devices, EditStep(d)
  PROVE  BreakerInv'
<1> USE DEF TypeInv, TypeOK
<1>1. /\ db'[d].susp = db[d].susp /\ db'[d].fails = db[d].fails
      /\ \A e \in Devices \ {d} : db'[e] = db[e]
      /\ UNCHANGED <<pc, job, drive>>
  <2>0. db[d] \in Db
    OBVIOUS
  <2>1. ASSUME NEW f \in Files,
               \/ SaveFile(d, f) \/ SoftDelete(d, f)
               \/ Restore(d, f) \/ PermanentDelete(d, f)
        PROVE  <1>1!:
    <3> DEFINE Same(x) == x.susp = db[d].susp /\ x.fails = db[d].fails
    <3>1. ASSUME NEW x, Same(x), Edit(d, x) PROVE <1>1!:
      BY <3>1 DEF Edit
    <3>2. /\ Same([db[d] EXCEPT !.upd[f] = now, !.trash = @ \ {f}])
          /\ Same([db[d] EXCEPT !.upd[f] = 0, !.trash = @ \ {f}])
          /\ Same([db[d] EXCEPT !.trash = @ \cup {f}])
          /\ Same([db[d] EXCEPT !.trash = @ \ {f}])
      BY <2>0 DEF Db
    <3> HIDE DEF Same
    <3>3. QED
      BY <2>1, <3>1, <3>2
         DEF SaveFile, SoftDelete, Restore, PermanentDelete
  <2>2. ASSUME NEW t \in TaskIds, SaveTask(d, t) \/ DeleteTask(d, t)
        PROVE  <1>1!:
    BY <2>0, <2>2 DEF SaveTask, DeleteTask, Db
  <2>3. CASE IncrementLSN(d)
    BY <2>0, <2>3 DEF IncrementLSN, Db
  <2>4. QED
    BY <2>1, <2>2, <2>3 DEF EditStep
<1>2. QED
  BY <1>1 DEF BreakerInv, Sound

LEMMA BreakerStep == TypeInv /\ BreakerInv /\ [Next]_vars => BreakerInv'
<1> SUFFICES ASSUME TypeInv, BreakerInv, [Next]_vars PROVE BreakerInv'
  OBVIOUS
<1>1. CASE Tick \/ UNCHANGED vars
  BY <1>1 DEF Tick, vars, BreakerInv, Sound
<1>2. ASSUME NEW d \in Devices, EditStep(d) PROVE BreakerInv'
  BY <1>2, EditSound
<1>3. ASSUME NEW d \in Devices, Request(d) PROVE BreakerInv'
  <2>1. CASE PushStart(d) \/ \E force \in BOOLEAN : PullStart(d, force)
    BY <2>1, GotoSound DEF PushStart, PullStart, HasSnap
  <2>2. CASE PushOfEmpty(d)
    BY <2>2, EndSound DEF PushOfEmpty
  <2>3. CASE CooldownOver(d)
    <3> DEFINE x == [db[d] EXCEPT !.susp = FALSE]
    <3>1. db[d] \in Db
      BY DEF TypeInv, TypeOK
    <3>2. Sound(x) /\ db' = [db EXCEPT ![d] = x]
      BY <2>3, <3>1 DEF CooldownOver, Sound, Db
    <3> HIDE DEF x
    <3>3. QED
      BY <2>3, <3>2, DbSound DEF CooldownOver
  <2>4. QED
    BY <1>3, <2>1, <2>2, <2>3 DEF Request
<1>4. ASSUME NEW d \in Devices, PushStep(d) PROVE BreakerInv'
  <2>0. /\ job[d] \in Job /\ Sound(db[d])
        /\ pc[d] \in HasSnap => Sound(job[d].snap)
        /\ pc[d] \in HasMan => job[d].man \in Manifest
        /\ drive.db # NoDb => Sound(drive.db)
    BY DEF TypeInv, TypeOK, BreakerInv, JobInv
  <2>1. ASSUME NEW m, Decide(d, m) PROVE BreakerInv'
    BY <2>1, EndSound, GotoSound DEF Decide, HasSnap
  <2>2. CASE Snapshot(d)
    <3>1. Sound([job[d] EXCEPT !.snap = db[d]].snap)
      BY <2>0 DEF Job
    <3>2. QED
      BY <2>2, <3>1, GotoSound DEF Snapshot
  <2>3. CASE ReadHash(d)
    <3>1. Sound([job[d] EXCEPT !.man.hash = Hash(db[d])].snap)
      BY <2>0, <2>3 DEF ReadHash, Job, HasSnap
    <3>2. QED
      BY <2>3, <3>1, GotoSound DEF ReadHash
  <2>4. CASE ReadStats(d)
    <3> DEFINE j == [job[d] EXCEPT !.man.total = Total(db[d]),
                       !.man.files = Cardinality(Rows(db[d])),
                       !.man.last = LastModified(db[d])]
    <3>1. Sound(j.snap)
      BY <2>0, <2>4 DEF ReadStats, Job, HasSnap
    <3>2. Goto(d, "upload", j) /\ UNCHANGED <<db, drive>>
      BY <2>4 DEF ReadStats
    <3> HIDE DEF j
    <3>3. QED
      BY <3>1, <3>2, GotoSound
  <2>5. CASE UploadDb(d)
    <3> DEFINE stored == [drive EXCEPT !.db = job[d].snap]
    <3>1. stored.db = job[d].snap /\ Sound(job[d].snap)
      BY <2>0, <2>5 DEF UploadDb, HasSnap, TypeInv, TypeOK
    <3>2. \/ Retry(d, drive) \/ Retry(d, stored)
          \/ /\ Goto(d, "manifest", job[d]) /\ drive' = stored
             /\ UNCHANGED db
      BY <2>5 DEF UploadDb
    <3> HIDE DEF stored
    <3>3. QED
      BY <2>5, <3>1, <3>2, RetrySound, GotoSound DEF UploadDb
  <2>6. CASE UploadManifest(d)
    <3> DEFINE stored == [drive EXCEPT !.man = job[d].man]
    <3>1. stored.db = drive.db /\ Sound(job[d].snap)
      BY <2>0, <2>6 DEF UploadManifest, HasSnap, TypeInv, TypeOK
    <3>2. \/ Retry(d, drive) \/ Retry(d, stored)
          \/ /\ Goto(d, "verify", job[d]) /\ drive' = stored
             /\ UNCHANGED db
      BY <2>6 DEF UploadManifest
    <3> HIDE DEF stored
    <3>3. QED
      BY <2>6, <3>1, <3>2, RetrySound, GotoSound DEF UploadManifest
  <2>7. CASE Verify(d)
    BY <2>0, <2>7, EndSound, GotoSound DEF Verify, HasSnap
  <2>8. CASE Record(d) \/ PushFails(d)
    BY <2>8, EndSound DEF Record, PushFails
  <2>9. QED
    BY <1>4, <2>1, <2>2, <2>3, <2>4, <2>5, <2>6, <2>7, <2>8 DEF PushStep
<1>5. ASSUME NEW d \in Devices, PullStep(d) \/ Hang(d) \/ Crash(d)
      PROVE  BreakerInv'
  <2>1. CASE PullDownload(d)
    <3>1. /\ Sound(drive.db) /\ job[d] \in Job
      BY <2>1 DEF PullDownload, BreakerInv, TypeInv, TypeOK
    <3>2. Sound([job[d] EXCEPT !.snap = drive.db].snap)
      BY <3>1 DEF Job
    <3>3. QED
      BY <2>1, <3>2, GotoSound DEF PullDownload
  <2>2. CASE PullReplace(d)
    <3>1. Sound(job[d].snap)
      BY <2>2 DEF PullReplace, BreakerInv, HasSnap
    <3>2. QED
      BY <2>2, <3>1, DbSound DEF PullReplace, Goto
  <2>3. CASE PullFails(d) \/ Hang(d) \/ Crash(d)
    BY <2>3, GotoSound DEF PullFails, Hang, Crash, HasSnap
  <2>4. QED
    BY <1>5, <2>1, <2>2, <2>3 DEF PullStep
<1>6. QED
  BY <1>1, <1>2, <1>3, <1>4, <1>5 DEF Next

\* Pushes are suspended only in a database that counts Threshold failures,
\* wherever the database came from.
THEOREM SuspendedAfterFailuresHolds == Spec => []SuspendedAfterFailures
<1>1. Init => BreakerInv
  BY DEF Init, BreakerInv, Sound, EmptyDb, HasSnap
<1>2. BreakerInv => SuspendedAfterFailures
  BY DEF BreakerInv, Sound, SuspendedAfterFailures
<1>3. QED
  BY <1>1, <1>2, BreakerStep, TypeAlways, PTL DEF Spec
-----------------------------------------------------------------------------
(* One desktop alone with the Drive.  ManifestNotAhead needs that the local *)
(* LSN, and that of the snapshot in the hands of a push, never fall behind  *)
(* the manifest: a pull takes the local LSN back, but only to that of the   *)
(* database beside the manifest.  RecordedIsOnDrive needs that from its     *)
(* second upload on a push finds its own manifest on Drive.                 *)
Alone == \A d, e \in Devices : d = e

Uploading == {"hash", "stats", "upload", "manifest", "verify", "record"}
Announced(lsn) == drive.man # NoMan => drive.man.lsn <= lsn
LsnInv ==
  /\ drive.man # NoMan => drive.db # NoDb /\ Announced(drive.db.lsn)
  /\ \A d \in Devices :
       /\ Announced(db[d].lsn)
       /\ pc[d] \in Pushing   => job[d].man.lsn <= db[d].lsn
       /\ pc[d] \in Uploading => job[d].man.lsn <= job[d].snap.lsn
                                 /\ Announced(job[d].snap.lsn)
       /\ pc[d] = "manifest"  => drive.db = job[d].snap
       /\ pc[d] \in {"verify", "record"} => drive.man = job[d].man
       /\ pc[d] = "record"    => drive.db = job[d].snap
                                 /\ Hash(job[d].snap) = job[d].man.hash
       /\ pc[d] = "replace"   => drive.db = job[d].snap /\ drive.db # NoDb

\* A step that leaves the Drive and the push or pull, and no smaller LSN.
LEMMA LsnGrows ==
  ASSUME TypeInv, LsnInv, Alone, NEW d \in Devices, UNCHANGED drive,
         db' \in [Devices -> Db], db'[d].lsn >= db[d].lsn,
         \/ UNCHANGED <<pc, job>>
         \/ pc' = [pc EXCEPT ![d] = "idle"]
  PROVE  LsnInv'
<1>1. \A c \in Devices : c = d
  BY DEF Alone
<1>2. /\ db[d].lsn \in Nat /\ db'[d].lsn \in Nat
      /\ drive.man # NoMan => drive.man.lsn \in Nat
      /\ pc[d] \in Pushing => job[d].man.lsn \in Nat
  BY DEF TypeInv, TypeOK, JobInv, HasMan, Pushing, Steps, Db, Manifest
<1>3. CASE UNCHANGED <<pc, job>>
  BY <1>1, <1>2, <1>3 DEF LsnInv, Announced
<1>4. CASE pc' = [pc EXCEPT ![d] = "idle"]
  <2>1. pc'[d] = "idle"
    BY <1>4 DEF TypeInv, TypeOK
  <2>2. QED
    BY <1>1, <1>2, <2>1 DEF LsnInv, Announced, Pushing, Uploading
<1>5. QED
  BY <1>3, <1>4

LEMMA EditGrows ==
  ASSUME TypeInv, NEW d \in Devices, EditStep(d)
  PROVE  db'[d].lsn >= db[d].lsn /\ UNCHANGED <<pc, job, drive>>
<1> USE DEF TypeInv, TypeOK
<1>0. db[d] \in Db /\ db[d].lsn \in Nat
  BY DEF Db
<1>1. ASSUME NEW f \in Files,
             \/ SaveFile(d, f) \/ SoftDelete(d, f)
             \/ Restore(d, f) \/ PermanentDelete(d, f)
      PROVE  db'[d].lsn = db[d].lsn /\ UNCHANGED <<pc, job, drive>>
  <2> DEFINE Same(x) == x.lsn = db[d].lsn
  <2>1. ASSUME NEW x, Same(x), Edit(d, x)
        PROVE  db'[d].lsn = db[d].lsn /\ UNCHANGED <<pc, job, drive>>
    BY <2>1 DEF Edit
  <2>2. /\ Same([db[d] EXCEPT !.upd[f] = now, !.trash = @ \ {f}])
        /\ Same([db[d] EXCEPT !.upd[f] = 0, !.trash = @ \ {f}])
        /\ Same([db[d] EXCEPT !.trash = @ \cup {f}])
        /\ Same([db[d] EXCEPT !.trash = @ \ {f}])
    BY <1>0 DEF Db
  <2> HIDE DEF Same
  <2>3. QED
    BY <1>1, <2>1, <2>2 DEF SaveFile, SoftDelete, Restore, PermanentDelete
<1>2. ASSUME NEW t \in TaskIds, SaveTask(d, t) \/ DeleteTask(d, t)
      PROVE  db'[d].lsn = db[d].lsn /\ UNCHANGED <<pc, job, drive>>
  BY <1>0, <1>2 DEF SaveTask, DeleteTask, Db
<1>3. CASE IncrementLSN(d)
  <2>1. db'[d].lsn = db[d].lsn + 1
    BY <1>0, <1>3 DEF IncrementLSN, Db
  <2>2. QED
    BY <1>0, <1>3, <2>1 DEF IncrementLSN
<1>4. QED
  BY <1>0, <1>1, <1>2, <1>3 DEF EditStep

\* The breaker is no LSN.
LEMMA EndGrows ==
  ASSUME TypeInv, LsnInv, Alone, NEW d \in Devices, Succeed(d) \/ Fail(d)
  PROVE  LsnInv'
<1>0. db[d] \in Db /\ RecordFailure(db[d]).lsn = db[d].lsn
  BY DEF TypeInv, TypeOK, RecordFailure, Db
<1>1. db'[d].lsn = db[d].lsn
  BY <1>0 DEF Succeed, Fail, TypeInv, TypeOK, Db
<1>2. db' \in [Devices -> Db] /\ db[d].lsn \in Nat
  BY <1>0, EndType DEF TypeInv, TypeOK, Db
<1>3. QED
  BY <1>1, <1>2, LsnGrows DEF Succeed, Fail, End

\* A push that goes on with the manifest's LSN it had.
LEMMA GotoAnnounced ==
  ASSUME TypeInv, LsnInv, Alone, NEW d \in Devices, NEW step \in Steps, NEW j,
         Goto(d, step, j), UNCHANGED <<db, drive>>,
         step \in Pushing   => j.man.lsn <= db[d].lsn,
         step \in Uploading => j.man.lsn <= j.snap.lsn /\ Announced(j.snap.lsn),
         step = "manifest"  => drive.db = j.snap,
         step \in {"verify", "record"} => drive.man = j.man,
         step = "record"    => drive.db = j.snap /\ Hash(j.snap) = j.man.hash,
         step = "replace"   => drive.db = j.snap /\ drive.db # NoDb
  PROVE  LsnInv'
<1>1. \A c \in Devices : c = d
  BY DEF Alone
<1>2. pc'[d] = step /\ job'[d] = j
  BY DEF Goto, TypeInv, TypeOK
<1>3. QED
  BY <1>1, <1>2 DEF LsnInv, Announced

\* An upload that failed, and left the Drive at e.
LEMMA RetryAnnounced ==
  ASSUME TypeInv, LsnInv, Alone, NEW d \in Devices, pc[d] \in {"upload", "manifest"},
         NEW e, Retry(d, e), TypeInv',
         e.man # NoMan => /\ e.db # NoDb /\ e.man.lsn <= e.db.lsn
                          /\ e.man.lsn <= db[d].lsn /\ e.man.lsn <= job[d].snap.lsn
  PROVE  LsnInv'
<1>0. /\ \A c \in Devices : c = d
      /\ drive' = e /\ db[d] \in Db /\ job[d] \in Job
      /\ job[d].man.lsn <= db[d].lsn /\ job[d].man.lsn <= job[d].snap.lsn
  BY DEF Alone, Retry, TypeInv, TypeOK, LsnInv, Pushing, Uploading, Steps
<1>1. CASE Goto(d, "upload", [job[d] EXCEPT !.tries = job[d].tries + 1]) /\ UNCHANGED db
  <2>1. /\ pc'[d] = "upload" /\ job'[d].man = job[d].man
        /\ job'[d].snap = job[d].snap
    BY <1>0, <1>1 DEF Goto, TypeInv, TypeOK, Job
  <2>2. QED
    BY <1>0, <1>1, <2>1 DEF LsnInv, Announced, Pushing, Uploading
<1>2. CASE /\ db' = [db EXCEPT ![d] = RecordFailure(db[d])]
           /\ pc' = [pc EXCEPT ![d] = "idle"]
  <2>1. pc'[d] = "idle" /\ db'[d].lsn = db[d].lsn
    BY <1>0, <1>2 DEF RecordFailure, TypeInv, TypeOK, Db
  <2>2. QED
    BY <1>0, <2>1 DEF LsnInv, Announced, Pushing, Uploading
<1>3. QED
  BY <1>1, <1>2 DEF Retry

LEMMA PushAnnounced ==
  ASSUME TypeInv, TypeInv', LsnInv, Alone, NEW d \in Devices, PushStep(d)
  PROVE  LsnInv'
<1> USE DEF Pushing, Uploading, Steps
<1>0. /\ db[d] \in Db /\ job[d] \in Job
      /\ pc[d] \in Pushing => job[d].man \in Manifest /\ job[d].man.lsn <= db[d].lsn
      /\ pc[d] \in Uploading => /\ job[d].snap \in Db
                               /\ job[d].man.lsn <= job[d].snap.lsn
                               /\ Announced(job[d].snap.lsn)
      /\ drive \in [db : Db \cup {NoDb}, man : Manifest \cup {NoMan}]
      /\ Announced(db[d].lsn)
      /\ drive.man # NoMan => drive.db # NoDb /\ Announced(drive.db.lsn)
  BY DEF TypeInv, TypeOK, JobInv, HasMan, HasSnap, LsnInv
<1>1. ASSUME NEW m, Decide(d, m) PROVE LsnInv'
  BY <1>0, <1>1, EndGrows, GotoAnnounced DEF Decide
<1>2. CASE Snapshot(d)
  <2> DEFINE j == [job[d] EXCEPT !.snap = db[d]]
  <2>1. j.man = job[d].man /\ j.snap = db[d]
    BY <1>0 DEF Job
  <2>2. Goto(d, "hash", j) /\ UNCHANGED <<db, drive>> /\ pc[d] = "snapshot"
    BY <1>2 DEF Snapshot
  <2> HIDE DEF j
  <2>3. QED
    BY <1>0, <2>1, <2>2, GotoAnnounced
<1>3. CASE ReadHash(d)
  <2> DEFINE j == [job[d] EXCEPT !.man.hash = Hash(db[d])]
  <2>1. j.man.lsn = job[d].man.lsn /\ j.snap = job[d].snap
    BY <1>0, <1>3 DEF Job, Manifest, ReadHash
  <2>2. Goto(d, "stats", j) /\ UNCHANGED <<db, drive>> /\ pc[d] = "hash"
    BY <1>3 DEF ReadHash
  <2> HIDE DEF j
  <2>3. QED
    BY <1>0, <2>1, <2>2, GotoAnnounced
<1>4. CASE ReadStats(d)
  <2> DEFINE j == [job[d] EXCEPT !.man.total = Total(db[d]),
                                 !.man.files = Cardinality(Rows(db[d])),
                                 !.man.last = LastModified(db[d])]
  <2>1. j.man.lsn = job[d].man.lsn /\ j.snap = job[d].snap
    BY <1>0, <1>4 DEF Job, Manifest, ReadStats
  <2>2. Goto(d, "upload", j) /\ UNCHANGED <<db, drive>> /\ pc[d] = "stats"
    BY <1>4 DEF ReadStats
  <2> HIDE DEF j
  <2>3. QED
    BY <1>0, <2>1, <2>2, GotoAnnounced
<1>5. CASE UploadDb(d)
  <2> DEFINE stored == [drive EXCEPT !.db = job[d].snap]
  <2>1. /\ stored.db = job[d].snap /\ stored.man = drive.man
        /\ job[d].snap # NoDb /\ pc[d] = "upload"
    BY <1>0, <1>5, NoneAssumption DEF UploadDb
  <2>2. \/ Retry(d, drive) \/ Retry(d, stored)
        \/ /\ Goto(d, "manifest", job[d]) /\ drive' = stored
           /\ UNCHANGED db
    BY <1>5 DEF UploadDb
  <2> HIDE DEF stored
  <2>3. CASE Retry(d, drive)
    BY <1>0, <2>1, <2>3, RetryAnnounced DEF Announced
  <2>4. CASE Retry(d, stored)
    BY <1>0, <2>1, <2>4, RetryAnnounced DEF Announced
  <2>5. CASE Goto(d, "manifest", job[d]) /\ drive' = stored /\ UNCHANGED db
    <3>1. pc'[d] = "manifest" /\ job'[d] = job[d] /\ \A c \in Devices : c = d
      BY <2>5 DEF Goto, TypeInv, TypeOK, Alone
    <3>2. QED
      BY <1>0, <2>1, <2>5, <3>1 DEF LsnInv, Announced
  <2>6. QED
    BY <2>2, <2>3, <2>4, <2>5
<1>6. CASE UploadManifest(d)
  <2> DEFINE stored == [drive EXCEPT !.man = job[d].man]
  <2>1. /\ stored.db = drive.db /\ stored.man = job[d].man
        /\ drive.db = job[d].snap /\ job[d].snap # NoDb /\ pc[d] = "manifest"
    BY <1>0, <1>6, NoneAssumption DEF UploadManifest, LsnInv
  <2>2. \/ Retry(d, drive) \/ Retry(d, stored)
        \/ /\ Goto(d, "verify", job[d]) /\ drive' = stored
           /\ UNCHANGED db
    BY <1>6 DEF UploadManifest
  <2> HIDE DEF stored
  <2>3. CASE Retry(d, drive)
    BY <1>0, <2>1, <2>3, RetryAnnounced DEF Announced
  <2>4. CASE Retry(d, stored)
    BY <1>0, <2>1, <2>4, RetryAnnounced DEF Announced
  <2>5. CASE Goto(d, "verify", job[d]) /\ drive' = stored /\ UNCHANGED db
    <3>1. pc'[d] = "verify" /\ job'[d] = job[d] /\ \A c \in Devices : c = d
      BY <2>5 DEF Goto, TypeInv, TypeOK, Alone
    <3>2. QED
      BY <1>0, <2>1, <2>5, <3>1 DEF LsnInv, Announced
  <2>6. QED
    BY <2>2, <2>3, <2>4, <2>5
<1>7. CASE Verify(d)
  <2>1. CASE Fail(d)
    BY <2>1, EndGrows
  <2>2. CASE Verified(drive.db, job[d]) /\ Goto(d, "record", job[d])
             /\ UNCHANGED <<db, drive>>
    <3>1. drive.db = job[d].snap /\ Hash(job[d].snap) = job[d].man.hash
      BY <2>2 DEF Verified
    <3>2. drive.man = job[d].man
      BY <1>7 DEF Verify, LsnInv
    <3>3. QED
      BY <1>0, <1>7, <2>2, <3>1, <3>2, GotoAnnounced DEF Verify
  <2>3. QED
    BY <1>7, <2>1, <2>2 DEF Verify
<1>8. CASE Record(d) \/ PushFails(d)
  BY <1>8, EndGrows DEF Record, PushFails
<1>9. QED
  BY <1>1, <1>2, <1>3, <1>4, <1>5, <1>6, <1>7, <1>8 DEF PushStep

\* A request, a pull, a call that hangs or a crash.
LEMMA PullAnnounced ==
  ASSUME TypeInv, LsnInv, Alone, NEW d \in Devices,
         Request(d) \/ PullStep(d) \/ Hang(d) \/ Crash(d)
  PROVE  LsnInv'
<1> USE DEF Pushing, Uploading, Steps
<1>0. /\ db[d] \in Db /\ job[d] \in Job /\ db[d].lsn \in Nat
      /\ drive \in [db : Db \cup {NoDb}, man : Manifest \cup {NoMan}]
      /\ db \in [Devices -> Db]
  BY DEF TypeInv, TypeOK, Db
<1>1. CASE PushStart(d)
  <2> DEFINE j == [NoJob EXCEPT !.man = [lsn |-> db[d].lsn, hash |-> Hash(EmptyDb),
                                         total |-> 0, files |-> 0, last |-> 0]]
  <2>1. j.man.lsn = db[d].lsn
    BY DEF NoJob
  <2>2. Goto(d, "decide", j) /\ UNCHANGED <<db, drive>>
    BY <1>1 DEF PushStart
  <2> HIDE DEF j
  <2>3. QED
    BY <1>0, <2>1, <2>2, GotoAnnounced
<1>2. CASE PushOfEmpty(d)
  BY <1>2, EndGrows DEF PushOfEmpty
<1>3. CASE CooldownOver(d)
  <2> DEFINE x == [db[d] EXCEPT !.susp = FALSE]
  <2>1. x \in Db /\ x.lsn = db[d].lsn /\ db' = [db EXCEPT ![d] = x]
    BY <1>0, <1>3 DEF CooldownOver, Db
  <2> HIDE DEF x
  <2>2. db' \in [Devices -> Db] /\ db'[d].lsn >= db[d].lsn
    BY <1>0, <2>1
  <2>3. UNCHANGED drive /\ UNCHANGED <<pc, job>>
    BY <1>3 DEF CooldownOver
  <2>4. QED
    BY <2>2, <2>3, LsnGrows
<1>4. ASSUME NEW force \in BOOLEAN, PullStart(d, force) PROVE LsnInv'
  BY <1>4, GotoAnnounced DEF PullStart
<1>5. CASE PullDownload(d)
  <2> DEFINE j == [job[d] EXCEPT !.snap = drive.db]
  <2>1. j.snap = drive.db
    BY <1>0 DEF Job
  <2>2. Goto(d, "replace", j) /\ UNCHANGED <<db, drive>> /\ drive.db # NoDb
    BY <1>5 DEF PullDownload
  <2> HIDE DEF j
  <2>3. QED
    BY <2>1, <2>2, GotoAnnounced
<1>6. CASE PullReplace(d)
  <2>1. /\ db'[d] = drive.db /\ pc'[d] = "idle" /\ UNCHANGED drive
        /\ \A c \in Devices : c = d
    BY <1>0, <1>6 DEF PullReplace, Goto, LsnInv, TypeInv, TypeOK, Alone
  <2>2. QED
    BY <2>1 DEF LsnInv, Announced
<1>7. CASE PullFails(d) \/ Hang(d) \/ Crash(d)
  BY <1>7, GotoAnnounced DEF PullFails, Hang, Crash
<1>8. QED
  BY <1>1, <1>2, <1>3, <1>4, <1>5, <1>6, <1>7 DEF Request, PullStep

LEMMA LsnStep == Alone /\ TypeInv /\ LsnInv /\ [Next]_vars => LsnInv'
<1> SUFFICES ASSUME Alone, TypeInv, LsnInv, [Next]_vars PROVE LsnInv'
  OBVIOUS
<1>0. TypeInv'
  BY TypeStep
<1>1. CASE Tick \/ UNCHANGED vars
  BY <1>1 DEF Tick, vars, LsnInv, Announced
<1>2. ASSUME NEW d \in Devices, EditStep(d) PROVE LsnInv'
  BY <1>0, <1>2, EditGrows, LsnGrows DEF TypeInv, TypeOK
<1>3. ASSUME NEW d \in Devices, Request(d) \/ PushStep(d) \/ PullStep(d) \/ Hang(d)
                                 \/ Crash(d)
      PROVE  LsnInv'
  BY <1>0, <1>3, PushAnnounced, PullAnnounced
<1>4. QED
  BY <1>1, <1>2, <1>3 DEF Next

\* While one device uses the Drive, the manifest never announces an LSN that
\* the database beside it does not have, for any rows, attempts and failures
\* (sync.go:209, 309-420).
THEOREM ManifestNotAheadHolds ==
  ASSUME Alone
  PROVE  Spec => []ManifestNotAhead
<1>1. Init => LsnInv
  BY DEF Init, LsnInv, Announced, Pushing, Uploading
<1>2. TypeInv /\ LsnInv /\ [Next]_vars => LsnInv'
  BY LsnStep
<1>3. LsnInv => ManifestNotAhead
  BY DEF LsnInv, Announced, ManifestNotAhead
<1>4. QED
  BY <1>1, <1>2, <1>3, TypeAlways, PTL DEF Spec

\* A push that is recorded has left its snapshot and its manifest on Drive, and
\* their hashes agree, whatever was edited, repeated, lost or killed on the way,
\* in this push or before (sync.go:309-433, 960-1058).
THEOREM RecordedIsOnDriveHolds ==
  ASSUME Alone
  PROVE  Spec => []RecordedIsOnDrive
<1>1. Init => LsnInv
  BY DEF Init, LsnInv, Announced, Pushing, Uploading
<1>2. TypeInv /\ LsnInv /\ [Next]_vars => LsnInv'
  BY LsnStep
<1>3. TypeInv /\ LsnInv => RecordedIsOnDrive
  <2> SUFFICES ASSUME TypeInv, LsnInv, NEW d \in Devices, pc[d] = "record"
               PROVE  /\ drive = [db |-> job[d].snap, man |-> job[d].man]
                      /\ Hash(drive.db) = drive.man.hash
    BY DEF RecordedIsOnDrive
  <2>1. /\ drive.man = job[d].man /\ drive.db = job[d].snap
        /\ Hash(job[d].snap) = job[d].man.hash
    BY DEF LsnInv
  <2>2. drive \in [db : Db \cup {NoDb}, man : Manifest \cup {NoMan}]
    BY DEF TypeInv, TypeOK
  <2>3. QED
    BY <2>1, <2>2
<1>4. QED
  BY <1>1, <1>2, <1>3, TypeAlways, PTL DEF Spec

-----------------------------------------------------------------------------
(* What the phone holds at each step of sync().                             *)
WithMan  == PhoneSteps \ {"idle", "decide"}
WithSnap == {"manifest", "upload", "verify", "record", "replace", "check", "adopt"}
WithOld  == {"download", "replace", "check", "adopt"}

Safe(x) == x \in Db /\ Sound(x)
Good(s) ==
  /\ s \in Phone
  /\ Safe(s.db)
  /\ s.at \in WithMan  => s.man \in Manifest
  /\ s.at \in WithSnap => Safe(s.snap)
  /\ s.at \in WithOld  => Safe(s.old)

DesktopInv == TypeInv /\ BreakerInv
PhoneInv   == Good(phone) /\ blank \in BOOLEAN /\ breaks \in 0..MaxBreaks

\* The desktops' invariant needs of a phone's step only what it leaves on Drive.
LEMMA DesktopsStay ==
  ASSUME DesktopInv, UNCHANGED desktops, edits' \in 0..MaxEdits,
         drive' \in [db : Db \cup {NoDb}, man : Manifest \cup {NoMan}],
         drive'.db # NoDb => Sound(drive'.db)
  PROVE  DesktopInv'
BY DEF DesktopInv, desktops, TypeInv, TypeOK, JobInv, BreakerInv, Sound

LEMMA DriveStays ==
  ASSUME DesktopInv, UNCHANGED desktops, edits' \in 0..MaxEdits, UNCHANGED drive
  PROVE  DesktopInv'
BY DesktopsStay DEF DesktopInv, TypeInv, TypeOK, BreakerInv

\* An end of sync() that leaves a sound database is in order.
LEMMA IdleGood ==
  ASSUME Good(phone), NEW x, Safe(x)
  PROVE  Good(PhoneIdle(x))
BY DEF Good, Safe, PhoneIdle, Phone, PhoneSteps, WithMan, WithSnap, WithOld

LEMMA BreaksType ==
  ASSUME PhoneInv, breaks < MaxBreaks, breaks' = breaks + 1
  PROVE  breaks' \in 0..MaxBreaks
BY MobileAssumption DEF PhoneInv

\* A manifest describes what it was made of.
LEMMA PhoneManifestType ==
  ASSUME NEW x \in Db
  PROVE  PhoneManifest(x) \in Manifest
<1>1. x.lsn + 1 \in Nat /\ 0 \in Times
  BY SyncAssumption DEF Db, Times
<1>2. QED
  BY <1>1, HashType, CountTypes DEF PhoneManifest, Manifest

-----------------------------------------------------------------------------
(* The initial states.                                                      *)
LEMMA MobileInitInv == MobileInit => DesktopInv /\ PhoneInv
<1> SUFFICES ASSUME MobileInit PROVE DesktopInv /\ PhoneInv
  OBVIOUS
<1>1. PICK s \in Starts :
        /\ db = [d \in Devices |-> s[1]]
        /\ drive = IF s[1] = EmptyDb THEN [db |-> NoDb, man |-> NoMan]
                   ELSE [db |-> s[1], man |-> [lsn |-> s[1].lsn, hash |-> Hash(s[1]),
                                               total |-> Total(s[1]),
                                               files |-> Cardinality(Rows(s[1])),
                                               last |-> LastModified(s[1])]]
        /\ phone = [db |-> s[2], changing |-> FALSE, at |-> "idle",
                    man |-> NoMan, snap |-> NoDb, old |-> NoDb]
  BY DEF MobileInit
<1>2. Safe(s[1]) /\ Safe(s[2])
  BY MobileAssumption DEF Safe, Sound
<1>3. drive \in [db : Db \cup {NoDb}, man : Manifest \cup {NoMan}]
  <2>1. [lsn |-> s[1].lsn, hash |-> Hash(s[1]), total |-> Total(s[1]),
         files |-> Cardinality(Rows(s[1])), last |-> LastModified(s[1])] \in Manifest
    BY <1>2, HashType, CountTypes, LastModifiedType DEF Safe, Db, Manifest
  <2>2. QED
    BY <1>1, <1>2, <2>1 DEF Safe
<1>4. drive.db # NoDb => Sound(drive.db)
  BY <1>1, <1>2 DEF Safe
<1>5. TypeInv
  <2>1. NoJob \in Job
    BY SyncAssumption DEF NoJob, Job
  <2>2. TypeOK
    BY <1>1, <1>2, <1>3, <2>1, SyncAssumption DEF MobileInit, TypeOK, Steps, Safe
  <2>3. JobInv
    BY DEF MobileInit, JobInv, HasMan, HasSnap
  <2>4. QED
    BY <2>2, <2>3 DEF TypeInv
<1>6. BreakerInv
  BY <1>1, <1>2, <1>4 DEF MobileInit, BreakerInv, HasSnap, Safe
<1>7. PhoneInv
  <2>1. Good(phone)
    BY <1>1, <1>2 DEF Good, Phone, PhoneSteps, WithMan, WithSnap, WithOld, Safe
  <2>2. blank \in BOOLEAN
    BY DEF MobileInit
  <2>3. breaks \in 0..MaxBreaks
    BY MobileAssumption DEF MobileInit
  <2>4. QED
    BY <2>1, <2>2, <2>3 DEF PhoneInv
<1>8. QED
  BY <1>5, <1>6, <1>7 DEF DesktopInv

-----------------------------------------------------------------------------
(* Steps of the phone.                                                      *)

\* An edit leaves other rows, or another LSN, and the breaker as it was.
LEMMA PhoneEditInv ==
  ASSUME DesktopInv, PhoneInv, NEW x \in Db, Sound(x), NEW step \in BOOLEAN,
         PhoneEdit(x, step)
  PROVE  DesktopInv' /\ PhoneInv'
<1>1. edits' \in 0..MaxEdits
  BY SyncAssumption DEF PhoneEdit, DesktopInv, TypeInv, TypeOK
<1>2. DesktopInv'
  BY <1>1, DriveStays DEF PhoneEdit
<1>3. Good(phone')
  BY DEF PhoneEdit, PhoneInv, Good, Safe, Phone, WithMan, WithSnap, WithOld
<1>4. QED
  BY <1>2, <1>3 DEF PhoneEdit, PhoneInv

LEMMA PhoneEditStepInv ==
  ASSUME DesktopInv, PhoneInv, PhoneEditStep
  PROVE  DesktopInv' /\ PhoneInv'
<1> DEFINE Kept(x) == x \in Db /\ Sound(x)
<1>0. phone.db \in Db /\ Sound(phone.db) /\ now \in Times /\ 0 \in Times
  BY SyncAssumption
     DEF PhoneInv, Good, Safe, DesktopInv, TypeInv, TypeOK, Times
<1>1. ASSUME NEW x, Kept(x), NEW step \in BOOLEAN, PhoneEdit(x, step)
      PROVE  DesktopInv' /\ PhoneInv'
  BY <1>1, PhoneEditInv
<1>2. ASSUME NEW f \in Files, NEW gone \in Files, PhoneSaveFile(f, gone)
      PROVE  DesktopInv' /\ PhoneInv'
  <2>1. Kept([phone.db EXCEPT
                !.upd = [g \in Files |-> IF g = f THEN now
                                         ELSE IF g = gone THEN 0 ELSE @[g]],
                !.trash = @ \ {f, gone}])
    BY <1>0 DEF Db, Sound
  <2> HIDE DEF Kept
  <2>2. QED
    BY <1>1, <1>2, <2>1 DEF PhoneSaveFile
<1>3. ASSUME NEW f \in Files, PhoneSoftDelete(f) \/ PhoneRestore(f) \/ PhoneDelete(f)
      PROVE  DesktopInv' /\ PhoneInv'
  <2>1. /\ Kept([phone.db EXCEPT !.trash = @ \cup {f}])
        /\ Kept([phone.db EXCEPT !.trash = @ \ {f}])
        /\ Kept([phone.db EXCEPT !.upd[f] = 0, !.trash = @ \ {f}])
    BY <1>0 DEF Db, Sound
  <2> HIDE DEF Kept
  <2>2. QED
    BY <1>1, <1>3, <2>1 DEF PhoneSoftDelete, PhoneRestore, PhoneDelete
<1>4. ASSUME NEW t \in TaskIds, PhoneTask(t) PROVE DesktopInv' /\ PhoneInv'
  <2>1. Kept([phone.db EXCEPT !.tasks = IF t \in @ THEN @ \ {t} ELSE @ \cup {t}])
    BY <1>0 DEF Db, Sound
  <2> HIDE DEF Kept
  <2>2. QED
    BY <1>1, <1>4, <2>1 DEF PhoneTask
<1>5. CASE PhoneSetting
  BY <1>0, <1>1, <1>5 DEF PhoneSetting
<1>6. CASE PhoneLogout
  <2>1. Kept([phone.db EXCEPT !.upd = EmptyDb.upd, !.trash = {}, !.tasks = {},
                              !.lsn = 0])
    BY <1>0, EmptyDbType DEF Db, Sound
  <2> HIDE DEF Kept
  <2>2. QED
    BY <1>1, <1>6, <2>1 DEF PhoneLogout
<1>7. CASE PhoneIncrementLSN
  <2>1. phone.db.lsn + 1 \in Nat /\ edits \in 0..MaxEdits
    BY <1>0 DEF Db, DesktopInv, TypeInv, TypeOK
  <2>2. Kept([phone.db EXCEPT !.lsn = @ + 1])
    BY <1>0, <2>1 DEF Db, Sound
  <2>3. phone' = [phone EXCEPT !.db = [phone.db EXCEPT !.lsn = @ + 1],
                               !.changing = FALSE]
    BY <1>7 DEF PhoneIncrementLSN, PhoneInv, Good, Phone
  <2>4. Good(phone')
    BY <2>2, <2>3 DEF PhoneInv, Good, Safe, Phone, WithMan, WithSnap, WithOld
  <2>5. QED
    BY <1>7, <2>1, <2>4, DriveStays DEF PhoneIncrementLSN, PhoneInv
<1>8. QED
  BY <1>2, <1>3, <1>4, <1>5, <1>6, <1>7 DEF PhoneEditStep

\* A step of sync() that only moves the phone on.
LEMMA PhoneMoves ==
  ASSUME DesktopInv, PhoneInv, NEW s, Good(s), PhoneGoes(s), UNCHANGED drive
  PROVE  DesktopInv' /\ PhoneInv'
<1>1. edits' \in 0..MaxEdits
  BY DEF PhoneGoes, DesktopInv, TypeInv, TypeOK
<1>2. QED
  BY <1>1, DriveStays DEF PhoneGoes, PhoneInv

\* An upload that reaches the Drive, or not, leaves good files there.
LEMMA StoredType ==
  ASSUME DesktopInv, PhoneInv, phone.at \in {"manifest", "upload"}
  PROVE  /\ Stored \in [db : Db \cup {NoDb}, man : Manifest \cup {NoMan}]
         /\ Stored.db # NoDb => Sound(Stored.db)
         /\ Good([phone EXCEPT !.at = NextUpload])
         /\ edits \in 0..MaxEdits
BY DEF Stored, NextUpload, DesktopInv, TypeInv, TypeOK, BreakerInv, PhoneInv, Good,
       Safe, Phone, PhoneSteps, WithMan, WithSnap, WithOld

\* So does a file that was only created.
LEMMA CreatedType ==
  ASSUME DesktopInv, PhoneInv, Ignored \/ Created
  PROVE  /\ drive' \in [db : Db \cup {NoDb}, man : Manifest \cup {NoMan}]
         /\ drive'.db # NoDb => Sound(drive'.db)
         /\ blank' \in BOOLEAN
<1>1. EmptyDb \in Db /\ Sound(EmptyDb)
  BY EmptyDbType DEF Sound, EmptyDb
<1>2. /\ drive \in [db : Db \cup {NoDb}, man : Manifest \cup {NoMan}]
      /\ drive.db # NoDb => Sound(drive.db)
      /\ blank \in BOOLEAN
  BY DEF DesktopInv, TypeInv, TypeOK, BreakerInv, PhoneInv
<1>3. CASE Ignored
  BY <1>2, <1>3 DEF Ignored
<1>4. CASE Created
  <2>1. blank' \in BOOLEAN
    BY <1>2, <1>4 DEF Created
  <2>2. drive' = drive \/ drive' = [drive EXCEPT !.db = EmptyDb]
    BY <1>4 DEF Created
  <2>3. QED
    BY <1>1, <1>2, <2>1, <2>2
<1>5. QED
  BY <1>3, <1>4

LEMMA PhonePushInv ==
  ASSUME DesktopInv, PhoneInv,
         \/ PhoneDecide \/ PhoneSnapshot \/ PhoneUpload \/ PhoneVerify \/ PhoneRecord
  PROVE  DesktopInv' /\ PhoneInv'
<1> USE DEF Good, Safe, Phone, PhoneSteps, WithMan, WithSnap, WithOld
<1>0. Good(phone) /\ phone.db \in Db
  BY DEF PhoneInv
<1>1. CASE PhoneDecide
  <2>1. Good(PhoneIdle(phone.db))
    BY <1>0, IdleGood
  <2>2. phone.man # NoMan => Good([phone EXCEPT !.at = "backup"])
    BY <1>0
  <2>3. Good([phone EXCEPT !.at = "snapshot", !.man = PhoneManifest(phone.db)])
    BY <1>0, PhoneManifestType
  <2> HIDE DEF Good
  <2>4. CASE PhonePulls(phone.db, phone.man)
             /\ PhoneGoes([phone EXCEPT !.at = "backup"])
    BY <1>1, <2>2, <2>4, PhoneMoves DEF PhoneDecide, PhonePulls
  <2>5. CASE PhoneGoes([phone EXCEPT !.at = "snapshot", !.man = PhoneManifest(phone.db)])
    BY <1>1, <2>3, <2>5, PhoneMoves DEF PhoneDecide
  <2>6. CASE PhoneGoes(PhoneIdle(phone.db))
    BY <1>1, <2>1, <2>6, PhoneMoves DEF PhoneDecide
  <2>7. QED
    BY <1>1, <2>4, <2>5, <2>6 DEF PhoneDecide
<1>2. CASE PhoneSnapshot
  <2>1. Good([phone EXCEPT !.at = "manifest", !.snap = phone.db])
    BY <1>0, <1>2 DEF PhoneSnapshot
  <2>2. QED
    BY <1>2, <2>1, PhoneMoves DEF PhoneSnapshot
<1>3. CASE PhoneUpload
  <2>1. DesktopInv'
    BY <1>3, StoredType, DesktopsStay DEF PhoneUpload
  <2>2. QED
    BY <1>3, <2>1, StoredType DEF PhoneUpload, PhoneInv
<1>4. CASE PhoneVerify
  <2>1. Good([phone EXCEPT !.at = "record"])
    BY <1>0, <1>4 DEF PhoneVerify
  <2>2. Good(PhoneIdle(phone.db))
    BY <1>0, IdleGood
  <2> HIDE DEF Good
  <2>3. QED
    BY <1>4, <2>1, <2>2, PhoneMoves DEF PhoneVerify
<1>5. CASE PhoneRecord
  <2>1. Safe([phone.db EXCEPT !.lsn = phone.man.lsn])
    BY <1>0, <1>5 DEF PhoneRecord, Db, Manifest, Sound
  <2>2. Good(PhoneIdle([phone.db EXCEPT !.lsn = phone.man.lsn]))
    BY <1>0, <2>1, IdleGood
  <2> HIDE DEF Good
  <2>3. QED
    BY <1>5, <2>2, PhoneMoves DEF PhoneRecord
<1>6. QED
  BY <1>1, <1>2, <1>3, <1>4, <1>5

LEMMA PhonePullInv ==
  ASSUME DesktopInv, PhoneInv,
         \/ PhoneStart \/ PhoneBackup \/ PhoneDownload \/ PhoneMisses
         \/ PhoneReplace \/ PhoneCheck \/ PhoneAdopt
  PROVE  DesktopInv' /\ PhoneInv'
<1> USE DEF Good, Safe, Phone, PhoneSteps, WithMan, WithSnap, WithOld
<1>0. /\ Good(phone) /\ phone.db \in Db
      /\ drive.man \in Manifest \cup {NoMan}
      /\ drive.db \in Db \cup {NoDb}
      /\ drive.db # NoDb => Sound(drive.db)
  BY DEF PhoneInv, DesktopInv, TypeInv, TypeOK, BreakerInv
<1>1. CASE PhoneStart
  <2>1. Good([phone EXCEPT !.at = "decide", !.man = drive.man])
    BY <1>0, ZenonT(30)
  <2>2. QED
    BY <1>1, <2>1, PhoneMoves DEF PhoneStart
<1>2. CASE PhoneBackup
  <2>1. Good([phone EXCEPT !.at = "download", !.old = phone.db])
    BY <1>0, <1>2 DEF PhoneBackup
  <2>2. QED
    BY <1>2, <2>1, PhoneMoves DEF PhoneBackup
<1>3. CASE PhoneDownload
  <2>1. Good([phone EXCEPT !.at = "replace", !.snap = drive.db])
    BY <1>0, <1>3 DEF PhoneDownload
  <2>2. QED
    BY <1>3, <2>1, PhoneMoves DEF PhoneDownload
<1>4. CASE PhoneMisses
  <2>1. Good(PhoneIdle(phone.db))
    BY <1>0, IdleGood
  <2>2. QED
    BY <1>4, <2>1, PhoneMoves DEF PhoneMisses
<1>5. CASE PhoneReplace
  <2>1. Good([phone EXCEPT !.at = "check", !.db = phone.snap])
    BY <1>0, <1>5 DEF PhoneReplace
  <2>2. QED
    BY <1>5, <2>1, PhoneMoves DEF PhoneReplace
<1>6. CASE PhoneCheck
  <2>1. Good([phone EXCEPT !.at = "adopt"])
    BY <1>0, <1>6 DEF PhoneCheck
  <2>2. Good(PhoneIdle(phone.old))
    BY <1>0, <1>6, IdleGood DEF PhoneCheck
  <2> HIDE DEF Good
  <2>3. QED
    BY <1>6, <2>1, <2>2, PhoneMoves DEF PhoneCheck
<1>7. CASE PhoneAdopt
  <2>1. Safe([phone.db EXCEPT !.lsn = phone.man.lsn])
    BY <1>0, <1>7 DEF PhoneAdopt, Db, Manifest, Sound
  <2>2. Good(PhoneIdle([phone.db EXCEPT !.lsn = phone.man.lsn]))
    BY <1>0, <2>1, IdleGood
  <2> HIDE DEF Good
  <2>3. QED
    BY <1>7, <2>2, PhoneMoves DEF PhoneAdopt
<1>8. QED
  BY <1>1, <1>2, <1>3, <1>4, <1>5, <1>6, <1>7

\* A fault leaves the phone's database, its backup, or an empty one.
LEMMA PhoneFaultInv ==
  ASSUME DesktopInv, PhoneInv, PhoneFault
  PROVE  DesktopInv' /\ PhoneInv'
<1>0. Good(phone) /\ edits \in 0..MaxEdits
  BY DEF PhoneInv, DesktopInv, TypeInv, TypeOK
<1>1. Safe(EmptyDb) /\ Safe(phone.db) /\ (phone.at = "check" => Safe(phone.old))
  BY <1>0, EmptyDbType DEF Safe, Sound, EmptyDb, Good, WithOld
<1>2. ASSUME NEW x, Safe(x), PhoneBreaks(x), UNCHANGED <<drive, blank>>
      PROVE  DesktopInv' /\ PhoneInv'
  <2>1. DesktopInv'
    BY <1>0, <1>2, DriveStays DEF PhoneBreaks
  <2>2. QED
    BY <1>0, <1>2, <2>1, IdleGood, BreaksType DEF PhoneBreaks, PhoneInv
<1>3. CASE PhoneUploadRefused
  <2>1. DesktopInv' /\ blank' \in BOOLEAN
    BY <1>0, <1>3, CreatedType, DesktopsStay DEF PhoneUploadRefused, PhoneInv
  <2>2. QED
    BY <1>3, <2>1, StoredType, BreaksType DEF PhoneUploadRefused, PhoneInv
<1>4. CASE PhoneUploadFails
  <2>1. blank' \in BOOLEAN /\ drive' \in [db : Db \cup {NoDb}, man : Manifest \cup {NoMan}]
        /\ (drive'.db # NoDb => Sound(drive'.db))
    BY <1>4, CreatedType, StoredType DEF PhoneUploadFails, Late, PhoneInv
  <2>2. DesktopInv'
    BY <1>0, <1>4, <2>1, DesktopsStay DEF PhoneUploadFails, PhoneBreaks
  <2>3. QED
    BY <1>0, <1>1, <1>4, <2>1, <2>2, IdleGood, BreaksType
       DEF PhoneUploadFails, PhoneBreaks, PhoneInv
<1>5. CASE PhoneLoses
  BY <1>1, <1>2, <1>5 DEF PhoneLoses
<1>6. CASE PhoneFails
  BY <1>1, <1>2, <1>6 DEF PhoneFails
<1>7. CASE PhoneCrash
  <2>1. DesktopInv'
    BY <1>0, <1>7, DriveStays DEF PhoneCrash
  <2>2. Good(PhoneIdle(phone.db))
    BY <1>0, <1>1, IdleGood
  <2>3. Good([PhoneIdle(phone.db) EXCEPT !.changing = FALSE])
    BY <2>2 DEF Good, Safe, PhoneIdle, Phone, PhoneSteps, WithMan, WithSnap, WithOld
  <2>4. QED
    BY <1>7, <2>1, <2>3, BreaksType DEF PhoneCrash, PhoneInv
<1>8. QED
  BY <1>3, <1>4, <1>5, <1>6, <1>7 DEF PhoneFault

-----------------------------------------------------------------------------
(* The theorems.                                                            *)

LEMMA PhoneStepInv ==
  ASSUME DesktopInv, PhoneInv, PhoneNext
  PROVE  DesktopInv' /\ PhoneInv'
BY PhoneEditStepInv, PhonePushInv, PhonePullInv, PhoneFaultInv DEF PhoneNext, PhoneSync

LEMMA MobileStep == DesktopInv /\ PhoneInv /\ [MobileNext]_allVars => DesktopInv' /\ PhoneInv'
<1> SUFFICES ASSUME DesktopInv, PhoneInv, [MobileNext]_allVars
             PROVE  DesktopInv' /\ PhoneInv'
  OBVIOUS
<1>1. CASE Next /\ PhoneStays
  <2>1. DesktopInv'
    BY <1>1, TypeStep, BreakerStep DEF DesktopInv
  <2>2. QED
    BY <1>1, <2>1 DEF PhoneStays, PhoneInv
<1>2. CASE PhoneNext
  BY <1>2, PhoneStepInv
<1>3. CASE UNCHANGED allVars
  <2>1. UNCHANGED vars /\ UNCHANGED <<phone, blank, breaks>>
    BY <1>3 DEF allVars, vars
  <2>2. QED
    BY <2>1, TypeStep, BreakerStep DEF DesktopInv, PhoneInv
<1>4. QED
  BY <1>1, <1>2, <1>3 DEF MobileNext

LEMMA MobileAlways == MobileSpec => [](DesktopInv /\ PhoneInv)
<1>1. QED
  BY MobileInitInv, MobileStep, PTL DEF MobileSpec

\* The variables of the desktops, the phone and the Drive keep their types,
\* whatever the phone uploads, rolls back or loses (sync_service.dart:29-318).
THEOREM MobileTypeCorrect == MobileSpec => []MobileTypeOK
<1>1. DesktopInv /\ PhoneInv => MobileTypeOK
  BY DEF DesktopInv, PhoneInv, TypeInv, Good, MobileTypeOK
<1>2. QED
  BY <1>1, MobileAlways, PTL

\* Pushes are suspended only in a database that counts Threshold failures, on
\* desktops and on a phone that hands the breaker on, in a push, a pull or a
\* rollback (sync.go:680-732, sync_service.dart:280-310).
THEOREM SuspendedEverywhereHolds == MobileSpec => []SuspendedEverywhere
<1>1. DesktopInv /\ PhoneInv => SuspendedEverywhere
  BY DEF DesktopInv, PhoneInv, BreakerInv, Good, Safe, Sound, SuspendedEverywhere,
         SuspendedAfterFailures
<1>2. QED
  BY <1>1, MobileAlways, PTL

=============================================================================
