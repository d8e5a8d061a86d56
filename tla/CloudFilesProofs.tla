-------------------------- MODULE CloudFilesProofs --------------------------
(***************************************************************************)
(* Machine-checked proofs about CloudFiles, for every set of paths and     *)
(* contents, every number of parts, and every bound.                       *)
(***************************************************************************)
EXTENDS CloudFiles, SequenceLemmas

-----------------------------------------------------------------------------
(* The inductive invariants.                                               *)

UploadTasks == {Upload(p) : p \in Paths}
Sends       == {"send", "file", "shard"}
Waiting     == CountIn(queue, UploadTasks)

\* An upload task makes at most one key and one id.
MakesKey == run.at = "verify"
MakesRow == run.at = "verify" \/ (run.at \in {"send", "file"} /\ run.pos = 0)

CountInv ==
  /\ Len(uploads) + Waiting + (IF MakesKey THEN 1 ELSE 0) <= asked
  /\ nextId + Waiting + (IF MakesRow THEN 1 ELSE 0) <= asked + 1

\* A key seals at most MaxParts videos.
Cap(k) == k * MaxParts
CloudBound ==
  Len(cloud) <= IF run.at \in Sends
                THEN Cap(Len(uploads) - 1) + run.pos + (IF run.at = "send" THEN 0 ELSE 1)
                ELSE Cap(Len(uploads))

\* The upload that runs has the newest key.
RunBound ==
  run.at \in Sends =>
    /\ run.key = Len(uploads) /\ run.key > 0
    /\ run.pos < Parts[run.sha]
    /\ run.at = "file" => run.pos = 0
    /\ run.at \in {"file", "shard"} => run.video \in 1..Len(cloud)

TypeInv == TypeOK /\ CountInv /\ CloudBound /\ RunBound

\* A video that holds the first part of some content.
First(v) == v \in 1..Len(cloud) /\ cloud[v].data[2] = 0

\* Ids and paths are unique; every row names a first part, and a row with a
\* key the one that its upload sealed.
RowOk(f) ==
  /\ f.id < nextId /\ First(f.video)
  /\ f.key # NoKey => /\ f.key \in 1..Len(uploads)
                      /\ cloud[f.video].key = f.key
                      /\ uploads[f.key].sha = f.sha

UniqueRows == \A f, g \in files : f.id = g.id \/ f.path = g.path => f = g

RowsOk  == \A f \in files : RowOk(f)
QueueOk == \A i \in 1..Len(queue) : queue[i].kind = "download" => First(queue[i].video)
FoundOk == run.at = "verify" => First(run.video)

RowInv == UniqueRows /\ RowsOk /\ QueueOk /\ FoundOk

\* A video holds what its upload has hashed, unless the file was edited.
VideoOk(v) ==
  /\ cloud[v].key \in 1..Len(uploads)
  /\ ~uploads[cloud[v].key].torn => cloud[v].data[1] = uploads[cloud[v].key].sha

ShardOk(s) ==
  /\ s.file < nextId /\ s.video \in 1..Len(cloud)
  /\ cloud[s.video].data[2] = s.pos

VideosOk == \A v \in 1..Len(cloud) : VideoOk(v)
ShardsOk == \A s \in shards : ShardOk(s)
SealOk ==
  run.at \in Sends =>
    /\ uploads[run.key].sha = run.sha /\ uploads[run.key].state = "running"
    /\ ~uploads[run.key].torn => local[run.path] = run.sha
    /\ run.at \in {"file", "shard"} =>
         cloud[run.video].key = run.key /\ cloud[run.video].data[2] = run.pos

VideoInv == VideosOk /\ ShardsOk /\ SealOk

\* The shard rows of f are the first n parts, one each, under its key.
Has(f, n) ==
  LET rows == {s \in shards : s.file = f.id} IN
  /\ {s.pos : s \in rows} = 0..(n - 1)
  /\ \A s \in rows : cloud[s.video].key = f.key
  /\ \A s, r \in rows : s.pos = r.pos => s = r

\* A clean upload that runs owns the rows of its name and of its content, and
\* its row has the shards recorded so far.
OwnRow(f) ==
  /\ f.path = Base[run.path]
  /\ run.at = "shard" \/ run.pos > 0
  /\ Has(f, run.pos)

OwnOk ==
  (run.at \in Sends /\ uploads[run.key].clean) =>
    /\ \A f \in files : f.sha = run.sha \/ f.path = Base[run.path] => f.key = run.key
    /\ \A f \in files : f.key = run.key => OwnRow(f)

\* No earlier upload of the content that is sent now is still clean.
LastOk ==
  run.at \in Sends =>
    \A k \in 1..Len(uploads) : uploads[k].clean /\ k # run.key => uploads[k].sha # run.sha

CleanDone(f) == f.key # NoKey /\ uploads[f.key].clean /\ uploads[f.key].state = "done"
DoneOk == \A f \in files : CleanDone(f) => Has(f, Parts[f.sha])

WholeInv == OwnOk /\ LastOk /\ DoneOk
-----------------------------------------------------------------------------
(* Kinds of values.                                                        *)
LEMMA Caps ==
  /\ Cap(0) = 0 /\ \A k \in Nat : Cap(k) \in Nat
  /\ \A k \in Nat \ {0} : Cap(k) = Cap(k - 1) + MaxParts
  /\ \A k, m \in Nat : k <= m => Cap(k) <= Cap(m)
  /\ Videos = 1..Cap(MaxUploads)
<1>1. MaxParts \in Nat /\ MaxUploads \in Nat
  BY FilesAssumption
<1>2. Cap(0) = 0 /\ Videos = 1..Cap(MaxUploads)
  BY <1>1 DEF Cap, Videos
<1>3. \A k \in Nat : k * MaxParts \in Nat
  BY <1>1
<1>4. \A k \in Nat \ {0} : k * MaxParts = (k - 1) * MaxParts + MaxParts
  BY <1>1
<1>5. ASSUME NEW k \in Nat, NEW m \in Nat, k <= m PROVE k * MaxParts <= m * MaxParts
  <2>1. m - k \in Nat
    BY <1>5
  <2>2. (m - k) * MaxParts \in Nat
    BY <1>1, <2>1
  <2>3. (m - k) * MaxParts = m * MaxParts - k * MaxParts
    BY <1>1
  <2>4. QED
    BY <2>2, <2>3, <1>3
<1>6. QED
  BY <1>2, <1>3, <1>4, <1>5 DEF Cap

LEMMA TaskKinds ==
  /\ \A p \in Paths : Upload(p) \in Task /\ Upload(p) \in UploadTasks
                      /\ Upload(p).kind = "upload"
  /\ \A v \in Videos, c \in Contents :
       Download(v, c) \in Task /\ Download(v, c).kind = "download"
       /\ Download(v, c).video = v
  /\ \A t \in Deletes : t \in Task /\ t.kind = "delete" /\ t.video \in Videos
  /\ \A v \in Videos, w \in {"user", "purge", "orphan"} :
       Delete(v, w) \in Deletes /\ Delete(v, w).video = v
  /\ \A t \in Task : /\ t.kind = "upload" => t \in UploadTasks /\ t.path \in Paths
                     /\ t.kind = "download" => t.video \in Videos /\ t.sha \in Contents
                     /\ t.kind = "delete" => t.video \in Videos
                     /\ t.kind \in {"upload", "download", "delete"}
                     /\ t \in UploadTasks => t.kind = "upload"
<1>1. \A p \in Paths : /\ Upload(p) \in Task /\ Upload(p) \in UploadTasks
                       /\ Upload(p).kind = "upload" /\ Upload(p).path = p
  <2>1. \A p \in Paths : Upload(p) \in Task /\ Upload(p) \in UploadTasks
    BY DEF Task, UploadTasks
  <2>2. \A p \in Paths : Upload(p).kind = "upload" /\ Upload(p).path = p
    BY DEF Upload
  <2>3. QED
    BY <2>1, <2>2
<1>2. \A v \in Videos, c \in Contents :
        /\ Download(v, c) \in Task /\ Download(v, c).kind = "download"
        /\ Download(v, c).video = v /\ Download(v, c).sha = c
  BY DEF Task, Download
<1>3. \A v \in Videos, w \in {"user", "purge", "orphan"} :
        Delete(v, w) \in Deletes /\ Delete(v, w).video = v /\ Delete(v, w).kind = "delete"
  BY DEF Deletes, Delete
<1>4. ASSUME NEW t \in Deletes PROVE t \in Task /\ t.kind = "delete" /\ t.video \in Videos
  <2>1. PICK v \in Videos, w \in {"user", "purge", "orphan"} : t = Delete(v, w)
    BY DEF Deletes
  <2>2. QED
    BY <2>1, <1>3 DEF Task
<1>5. ASSUME NEW t \in Task
      PROVE  /\ t.kind = "upload" => t \in UploadTasks /\ t.path \in Paths
             /\ t.kind = "download" => t.video \in Videos /\ t.sha \in Contents
             /\ t.kind = "delete" => t.video \in Videos
             /\ t.kind \in {"upload", "download", "delete"}
             /\ t \in UploadTasks => t.kind = "upload"
  <2>1. CASE \E p \in Paths : t = Upload(p)
    BY <2>1, <1>1
  <2>2. CASE \E v \in Videos, c \in Contents : t = Download(v, c)
    BY <2>2, <1>2, <1>1 DEF UploadTasks
  <2>3. CASE t \in Deletes
    BY <2>3, <1>4, <1>1 DEF UploadTasks
  <2>4. QED
    BY <2>1, <2>2, <2>3 DEF Task
<1>6. QED
  BY <1>1, <1>2, <1>3, <1>4, <1>5

LEMMA RunKinds ==
  ASSUME NEW r \in Running \cup {NoUpload}
  PROVE  /\ r.at \in {"none", "verify"} \cup Sends
         /\ r.at = "none" <=> r = NoUpload
         /\ r.at = "verify" => /\ r.path \in Paths /\ r.sha \in Contents
                               /\ r.found \in Ids /\ r.video \in Videos
         /\ r.at \in Sends => /\ r.path \in Paths /\ r.sha \in Contents /\ r.key \in Keys
                              /\ r.pos \in 0..(MaxParts - 1) /\ r.pos \in Nat
                              /\ r.video \in Videos \cup {0}
<1>1. \A n \in 0..(MaxParts - 1) : n \in Nat
  OBVIOUS
<1>2. QED
  BY <1>1 DEF Running, NoUpload, Sends

\* The fields of a running upload that a step changes.
LEMMA RunChanges ==
  ASSUME NEW r \in Running, r.at \in Sends
  PROVE  /\ \A a \in Sends : LET s == [r EXCEPT !.at = a] IN
              /\ s \in Running /\ s.at = a /\ s.pos = r.pos /\ s.video = r.video
              /\ s.path = r.path /\ s.sha = r.sha /\ s.key = r.key
         /\ \A a \in Sends, v \in Videos : LET s == [r EXCEPT !.at = a, !.video = v] IN
              /\ s \in Running /\ s.at = a /\ s.pos = r.pos /\ s.video = v
              /\ s.path = r.path /\ s.sha = r.sha /\ s.key = r.key
         /\ \A a \in Sends : r.pos + 1 < MaxParts =>
              LET s == [r EXCEPT !.at = a, !.pos = @ + 1] IN
              /\ s \in Running /\ s.at = a /\ s.pos = r.pos + 1 /\ s.video = r.video
              /\ s.path = r.path /\ s.sha = r.sha /\ s.key = r.key
<1>1. MaxParts \in Nat
  BY FilesAssumption
<1>2. r \in [at : Sends, path : Paths, sha : Contents, key : Keys,
             pos : 0..(MaxParts - 1), video : Videos \cup {0}]
  BY DEF Running, Sends
<1>3. \A n \in 0..(MaxParts - 1) : n + 1 < MaxParts => n + 1 \in 0..(MaxParts - 1)
  BY <1>1
<1>4. QED
  BY <1>2, <1>3 DEF Running, Sends

-----------------------------------------------------------------------------
(* What a step does to the tasks.                                          *)

\* A download that is new in the queue is of a row.
KnownDownloads ==
  \A i \in 1..Len(queue') :
    queue'[i].kind = "download" =>
      \/ \E j \in 1..Len(queue) : queue'[i] = queue[j]
      \/ \E f \in files : queue'[i].video = f.video

QueueStep ==
  /\ queue' \in Seq(Task) /\ sending' \subseteq Deletes
  /\ listed' \in [Videos -> {"no", "live", "dead"}] /\ sweep' \subseteq Videos
  /\ asked' \in asked..MaxUploads
  /\ Waiting' \in Nat /\ Waiting' + asked <= Waiting + asked'
  /\ KnownDownloads

LEMMA Waits0 == ASSUME TypeOK PROVE Waiting \in Nat /\ asked \in Nat /\ MaxUploads \in Nat
<1>1. Waiting \in Nat
  BY CountInType, Zenon DEF Waiting, TypeOK
<1>2. QED
  BY <1>1, FilesAssumption DEF TypeOK

LEMMA Appended ==
  ASSUME TypeOK, NEW x \in Task, queue' = Append(queue, x)
  PROVE  /\ queue' \in Seq(Task)
         /\ Waiting' = Waiting + (IF x.kind = "upload" THEN 1 ELSE 0)
         /\ \A i \in 1..Len(queue') :
              queue'[i] = x \/ \E j \in 1..Len(queue) : queue'[i] = queue[j]
<1>1. queue \in Seq(Task)
  BY DEF TypeOK
<1>2. /\ Append(queue, x) \in Seq(Task) /\ Len(Append(queue, x)) = Len(queue) + 1
      /\ Len(queue) \in Nat
      /\ \A i \in 1..Len(queue) : Append(queue, x)[i] = queue[i]
      /\ Append(queue, x)[Len(queue) + 1] = x
  BY <1>1
<1>3. CountIn(Append(queue, x), UploadTasks)
        = CountIn(queue, UploadTasks) + (IF x \in UploadTasks THEN 1 ELSE 0)
  BY <1>1, CountAppend, Zenon
<1>4. x \in UploadTasks <=> x.kind = "upload"
  BY TaskKinds
<1>5. QED
  BY <1>2, <1>3, <1>4 DEF Waiting

LEMMA Received ==
  ASSUME TypeOK, NEW t, Receive(t)
  PROVE  /\ queue' \in Seq(Task) /\ t \in Task
         /\ Waiting' + (IF t.kind = "upload" THEN 1 ELSE 0) <= Waiting
         /\ \A i \in 1..Len(queue') : \E j \in 1..Len(queue) : queue'[i] = queue[j]
         /\ 1 \in 1..Len(queue) /\ t = queue[1]
<1>1. queue \in Seq(Task) /\ queue # <<>> /\ t = Head(queue) /\ queue' = Tail(queue)
  BY DEF TypeOK, Receive
<1>2. /\ Tail(queue) \in Seq(Task) /\ Head(queue) \in Task /\ Len(queue) \in Nat
      /\ Len(queue) > 0 /\ Len(Tail(queue)) = Len(queue) - 1 /\ Head(queue) = queue[1]
      /\ \A i \in 1..(Len(queue) - 1) : Tail(queue)[i] = queue[i + 1]
  BY <1>1
<1>3. CountIn(Tail(queue), UploadTasks) + (IF Head(queue) \in UploadTasks THEN 1 ELSE 0)
        <= CountIn(queue, UploadTasks)
  BY <1>1, CountTail, Zenon
<1>4. t \in UploadTasks <=> t.kind = "upload"
  BY <1>1, <1>2, TaskKinds
<1>5. \A i \in 1..Len(queue') : \E j \in 1..Len(queue) : queue'[i] = queue[j]
  <2>1. ASSUME NEW i \in 1..Len(queue') PROVE \E j \in 1..Len(queue) : queue'[i] = queue[j]
    <3>1. i + 1 \in 1..Len(queue) /\ Tail(queue)[i] = queue[i + 1]
      BY <1>1, <1>2
    <3>2. QED
      BY <3>1, <1>1
  <2>2. QED
    BY <2>1
<1>6. QED
  BY <1>1, <1>2, <1>3, <1>4, <1>5 DEF Waiting

LEMMA Resumed ==
  ASSUME TypeOK, NEW I, I \subseteq 1..Len(queue), queue' = Selected(queue, I)
  PROVE  /\ queue' \in Seq(Task) /\ Waiting' \in Nat /\ Waiting' <= Waiting
         /\ \A i \in 1..Len(queue') : \E j \in 1..Len(queue) : queue'[i] = queue[j]
<1>1. queue \in Seq(Task)
  BY DEF TypeOK
<1>2. IsSelection(queue, I, Task)
  BY <1>1, SelectedElements, Zenon
<1>3. CountIn(Selected(queue, I), UploadTasks) <= CountIn(queue, UploadTasks)
  BY <1>1, CountSelected, Zenon
<1>4. Selected(queue, I) \in Seq(Task)
  BY <1>2 DEF IsSelection
<1>5. CountIn(Selected(queue, I), UploadTasks) \in Nat
  BY <1>4, CountInType, Zenon
<1>6. \A i \in 1..Len(queue') : \E j \in 1..Len(queue) : queue'[i] = queue[j]
  BY <1>2 DEF IsSelection
<1>7. QED
  BY <1>3, <1>4, <1>5, <1>6 DEF Waiting

\* A step that neither asks for anything nor touches the queue.
LEMMA QueueKept ==
  ASSUME TypeOK, UNCHANGED <<queue, asked>>, sending' \subseteq Deletes, sweep' \subseteq Videos,
         listed' \in [Videos -> {"no", "live", "dead"}]
  PROVE  QueueStep
<1>1. Waiting' = Waiting
  BY DEF Waiting
<1>2. QED
  BY <1>1, Waits0 DEF QueueStep, KnownDownloads, TypeOK

LEMMA QueueSteps == ASSUME TypeOK, Next PROVE QueueStep
<1> USE DEF TypeOK
<1>0. /\ Waiting \in Nat /\ asked \in Nat /\ MaxUploads \in Nat
      /\ \A n \in Nat : n <= MaxUploads /\ n >= asked => n \in asked..MaxUploads
  BY Waits0
<1>1. ASSUME Receive(Head(queue)), UNCHANGED <<sending, listed, sweep, asked>>
      PROVE  QueueStep
  <2>1. /\ queue' \in Seq(Task) /\ Waiting' <= Waiting
        /\ \A i \in 1..Len(queue') : \E j \in 1..Len(queue) : queue'[i] = queue[j]
    BY <1>1, <1>0, Received, CountInType DEF Waiting
  <2>2. Waiting' \in Nat
    BY <2>1, CountInType, Zenon DEF Waiting
  <2>3. KnownDownloads
    BY <2>1 DEF KnownDownloads
  <2>4. asked' = asked /\ asked' \in asked..MaxUploads
    BY <1>1, <1>0
  <2>4a. Waiting' + asked <= Waiting + asked'
    <3>1. Waiting' <= Waiting /\ Waiting \in Nat /\ asked \in Nat
      BY <2>1, <1>0
    <3>2. \A a, b, c \in Nat : a <= b => a + c <= b + c
      OBVIOUS
    <3>3. QED
      BY <3>1, <3>2, <2>2, <2>4
  <2>5. QED
    BY <2>1, <2>2, <2>3, <2>4, <2>4a, <1>1 DEF QueueStep
<1>2. ASSUME UNCHANGED <<tasks, asked>> PROVE QueueStep
  BY <1>2, QueueKept DEF tasks
<1>3. CASE Worker
  <2>1. CASE /\ queue # <<>>
             /\ LET t == Head(queue) IN
                \/ BeginUpload(t) \/ RefuseUpload(t) \/ RunDownload(t)
                \/ FailDownload(t) \/ RunDelete(t) \/ SkipDelete(t)
    BY <2>1, <1>1 DEF BeginUpload, RefuseUpload, RunDownload, FailDownload,
       RunDelete, SkipDelete, bounds
  <2>2. CASE LinkExisting \/ PurgeStale \/ SendShard \/ RecordFile \/ RecordShard \/ FailUpload
    BY <2>2, <1>2 DEF LinkExisting, PurgeStale, SendShard, RecordFile, RecordShard,
       FailUpload, bounds
  <2>3. QED
    BY <1>3, <2>1, <2>2 DEF Worker
<1>4. CASE Faults
  <2>1. ASSUME NEW p \in Paths, NEW c \in Contents, EditLocal(p, c) PROVE QueueStep
    BY <2>1, <1>2 DEF EditLocal
  <2>2. ASSUME NEW v \in Videos, Vanish(v) PROVE QueueStep
    BY <2>2, <1>2 DEF Vanish
  <2>3. CASE Crash
    <3> DEFINE I == {i \in 1..Len(queue) :
                       queue[i].kind = "delete" => queue[i].from = "user"}
    <3>1. I \subseteq 1..Len(queue)
      BY SMTT(30)
    <3>2. /\ queue' = Selected(queue, I) /\ sending' = {} /\ sweep' = {} /\ asked' = asked
          /\ listed' \in [Videos -> {"no", "live", "dead"}]
      BY <2>3 DEF Crash
    <3> HIDE DEF I
    <3>3. /\ queue' \in Seq(Task) /\ Waiting' \in Nat /\ Waiting' <= Waiting
          /\ \A i \in 1..Len(queue') : \E j \in 1..Len(queue) : queue'[i] = queue[j]
      BY <3>1, <3>2, Resumed
    <3>4. KnownDownloads
      BY <3>3 DEF KnownDownloads
    <3>5. asked' \in asked..MaxUploads /\ Waiting' + asked <= Waiting + asked'
      <4>1. Waiting' <= Waiting /\ Waiting \in Nat /\ asked \in Nat
        BY <3>3, <1>0
      <4>2. \A a, b, c \in Nat : a <= b => a + c <= b + c
        OBVIOUS
      <4>3. asked' \in asked..MaxUploads
        BY <3>2, <1>0
      <4>4. QED
        BY <3>2, <3>3, <4>1, <4>2, <4>3
    <3>6. QED
      BY <3>2, <3>3, <3>4, <3>5 DEF QueueStep
  <2>4. QED
    BY <1>4, <2>1, <2>2, <2>3 DEF Faults
<1>5. CASE Requests
  <2>1. ASSUME NEW p \in Paths, RequestUpload(p) PROVE QueueStep
    <3>1. Upload(p) \in Task /\ Upload(p).kind = "upload"
      BY TaskKinds
    <3>2. queue' = Append(queue, Upload(p)) /\ asked' = asked + 1 /\ asked < MaxUploads
          /\ UNCHANGED <<sending, listed, sweep>>
      BY <2>1 DEF RequestUpload
    <3>3. /\ queue' \in Seq(Task) /\ Waiting' = Waiting + 1
          /\ \A i \in 1..Len(queue') :
               queue'[i] = Upload(p) \/ \E j \in 1..Len(queue) : queue'[i] = queue[j]
      BY <3>1, <3>2, Appended
    <3>4. KnownDownloads
      BY <3>1, <3>3 DEF KnownDownloads
    <3>5. /\ asked' \in asked..MaxUploads /\ Waiting' + asked <= Waiting + asked'
          /\ Waiting' \in Nat
      BY <3>2, <3>3, <1>0
    <3>6. listed' \in [Videos -> {"no", "live", "dead"}]
      BY <3>2
    <3>7. QED
      BY <3>2, <3>3, <3>4, <3>5, <3>6 DEF QueueStep
  <2>2. ASSUME NEW f \in files, RequestDownload(f) PROVE QueueStep
    <3>0. f.video \in Videos /\ f.sha \in Contents
      BY DEF File
    <3>1. /\ Download(f.video, f.sha) \in Task /\ Download(f.video, f.sha).kind = "download"
          /\ Download(f.video, f.sha).video = f.video
      BY <3>0, TaskKinds
    <3>2. queue' = Append(queue, Download(f.video, f.sha)) /\ asked' = asked
          /\ UNCHANGED <<sending, sweep>> /\ listed' = [listed EXCEPT ![f.video] = "live"]
      BY <2>2 DEF RequestDownload, bounds
    <3>3. /\ queue' \in Seq(Task) /\ Waiting' = Waiting
          /\ \A i \in 1..Len(queue') :
               queue'[i] = Download(f.video, f.sha) \/ \E j \in 1..Len(queue) : queue'[i] = queue[j]
      BY <3>1, <3>2, <1>0, Appended
    <3>4. KnownDownloads
      BY <3>1, <3>3 DEF KnownDownloads
    <3>5. /\ asked' \in asked..MaxUploads /\ Waiting' + asked <= Waiting + asked'
          /\ Waiting' \in Nat
      BY <3>2, <3>3, <1>0
    <3>6. listed' \in [Videos -> {"no", "live", "dead"}]
      BY <3>2
    <3>7. QED
      BY <3>2, <3>3, <3>4, <3>5, <3>6 DEF QueueStep
  <2>3. ASSUME NEW f \in files, SoftDelete(f) \/ Restore(f) PROVE QueueStep
    BY <2>3, <1>2 DEF SoftDelete, Restore, bounds
  <2>4. ASSUME NEW f \in files, PermanentDelete(f) PROVE QueueStep
    <3>1. Delete(f.video, "user") \in Deletes
      BY TaskKinds DEF File
    <3>2. QED
      BY <2>4, <3>1, QueueKept DEF PermanentDelete, bounds
  <2>5. QED
    BY <1>5, <2>1, <2>2, <2>3, <2>4 DEF Requests
<1>6. CASE Schedulers
  <2>1. ASSUME NEW expired \in SUBSET files, PurgeTrash(expired) PROVE QueueStep
    <3>1. \A f \in expired : Delete(f.video, "purge") \in Deletes
      BY TaskKinds DEF File
    <3>2. QED
      BY <2>1, <3>1, QueueKept DEF PurgeTrash, bounds
  <2>2. ASSUME NEW t \in sending, AddDelete(t) \/ SendOrphan(t) PROVE QueueStep
    <3>1. t \in Task /\ t.kind = "delete" /\ t.video \in Videos
      BY TaskKinds
    <3>2. queue' = Append(queue, t) /\ asked' = asked /\ sending' \subseteq Deletes
          /\ UNCHANGED sweep /\ listed' \in [Videos -> {"no", "live", "dead"}]
      BY <2>2, <3>1 DEF AddDelete, SendOrphan, bounds
    <3>3. /\ queue' \in Seq(Task) /\ Waiting' = Waiting
          /\ \A i \in 1..Len(queue') :
               queue'[i] = t \/ \E j \in 1..Len(queue) : queue'[i] = queue[j]
      BY <3>1, <3>2, <1>0, Appended
    <3>4. KnownDownloads
      BY <3>1, <3>3 DEF KnownDownloads
    <3>5. /\ asked' \in asked..MaxUploads /\ Waiting' + asked <= Waiting + asked'
          /\ Waiting' \in Nat
      BY <3>2, <3>3, <1>0
    <3>6. listed' \in [Videos -> {"no", "live", "dead"}]
      BY <3>2
    <3>7. QED
      BY <3>2, <3>3, <3>4, <3>5, <3>6 DEF QueueStep
  <2>3. CASE ListTrash
    <3>1. sweep' \subseteq Videos
      BY <2>3 DEF ListTrash, File
    <3>2. QED
      BY <2>3, <3>1, QueueKept DEF ListTrash, bounds
  <2>4. CASE CleanupOrphanedVideos
    <3>1. \A v \in sweep : Delete(v, "orphan") \in Deletes
      BY TaskKinds
    <3>2. sending' \subseteq Deletes /\ listed' \in [Videos -> {"no", "live", "dead"}]
      BY <2>4, <3>1 DEF CleanupOrphanedVideos
    <3>3. QED
      BY <2>4, <3>2, QueueKept DEF CleanupOrphanedVideos, bounds
  <2>5. ASSUME NEW v \in Videos, Forget(v) PROVE QueueStep
    BY <2>5, QueueKept DEF Forget, bounds
  <2>6. QED
    BY <1>6, <2>1, <2>2, <2>3, <2>4, <2>5 DEF Schedulers
<1>7. QED
  BY <1>3, <1>4, <1>5, <1>6 DEF Next

-----------------------------------------------------------------------------
(* What a step does to the tables and the videos.                          *)
\* Rows but for the trash.
SameRow(f, g) == /\ f.id = g.id /\ f.path = g.path /\ f.video = g.video
                 /\ f.sha = g.sha /\ f.key = g.key

Still == UNCHANGED <<local, files, shards, nextId, cloud, run, uploads>>

TrashStep ==
  /\ UNCHANGED <<local, shards, nextId, cloud, run, uploads>>
  /\ files' \subseteq File
  /\ \A g \in files' : \E f \in files : SameRow(f, g)
  /\ UniqueRows => UniqueRows'

CloudStep ==
  /\ UNCHANGED <<local, files, shards, nextId, run, uploads>>
  /\ cloud' \in Seq(Video) /\ Len(cloud') = Len(cloud)
  /\ \A v \in 1..Len(cloud) : cloud'[v].data = cloud[v].data /\ cloud'[v].key = cloud[v].key

Effect ==
  \/ Still \/ TrashStep \/ CloudStep
  \/ /\ queue # <<>> /\ BeginUpload(Head(queue))
  \/ LinkExisting \/ PurgeStale \/ SendShard \/ RecordFile \/ RecordShard \/ FailUpload
  \/ \E p \in Paths, c \in Contents : EditLocal(p, c)
  \/ Crash

LEMMA VideoGone ==
  ASSUME TypeOK, NEW v, cloud' = [cloud EXCEPT ![v].there = FALSE],
         UNCHANGED <<local, files, shards, nextId, run, uploads>>
  PROVE  CloudStep
<1>1. cloud \in Seq(Video) /\ Len(cloud) \in Nat
  BY DEF TypeOK
<1>2. Len(cloud') = Len(cloud) /\ DOMAIN cloud' = 1..Len(cloud)
  BY <1>1
<1>3. \A w \in 1..Len(cloud) : cloud[w] \in Video
  BY <1>1
<1>4. \A w \in 1..Len(cloud) : w # v => cloud'[w] = cloud[w]
  BY <1>1
<1>5. v \in 1..Len(cloud) => cloud'[v] = [cloud[v] EXCEPT !.there = FALSE]
  <2> DEFINE e == [cloud[v] EXCEPT !.there = FALSE]
  <2>1. cloud' = [cloud EXCEPT ![v] = e]
    OBVIOUS
  <2>2. DOMAIN cloud = 1..Len(cloud)
    BY <1>1
  <2> HIDE DEF e
  <2>3. v \in 1..Len(cloud) => cloud'[v] = e
    BY <2>1, <2>2
  <2>4. QED
    BY <2>3 DEF e
<1>6. \A w \in 1..Len(cloud) : /\ cloud'[w] \in Video
                               /\ cloud'[w].data = cloud[w].data /\ cloud'[w].key = cloud[w].key
  <2>1. ASSUME NEW x \in Video
        PROVE  LET y == [x EXCEPT !.there = FALSE] IN
               y \in Video /\ y.data = x.data /\ y.key = x.key
    BY DEF Video
  <2>2. QED
    BY <1>3, <1>4, <1>5, <2>1, ZenonT(30)
<1>7. cloud' \in Seq(Video)
  <2> DEFINE c == cloud'
             n == Len(cloud)
  <2>1. c = [w \in 1..n |-> c[w]] /\ \A w \in 1..n : c[w] \in Video
    BY <1>1, <1>2, <1>6
  <2>2. n \in Nat
    BY <1>1
  <2> HIDE DEF c, n
  <2>3. c \in Seq(Video)
    BY <2>1, <2>2, IsASeq
  <2>4. QED
    BY <2>3 DEF c
<1>8. QED
  BY <1>2, <1>6, <1>7 DEF CloudStep

LEMMA TrashMoved ==
  ASSUME TypeOK, NEW f \in files, NEW b \in BOOLEAN, f.trash # b,
         files' = (files \ {f}) \cup {[f EXCEPT !.trash = b]},
         UNCHANGED <<local, shards, nextId, cloud, run, uploads>>
  PROVE  TrashStep
<1> DEFINE h == [f EXCEPT !.trash = b]
<1>1. files \subseteq File
  BY DEF TypeOK
<1>2. h \in File /\ SameRow(f, h)
  BY <1>1 DEF File, SameRow
<1> HIDE DEF h
<1>3. files' = (files \ {f}) \cup {h}
  BY DEF h
<1>4. \A g \in files : SameRow(g, g)
  BY DEF SameRow
<1>5. ASSUME UniqueRows PROVE UniqueRows'
  <2>1. \A g \in files : g # f => g.id # h.id /\ g.path # h.path
    BY <1>2, <1>5 DEF SameRow, UniqueRows
  <2>2. QED
    BY <1>3, <2>1, <1>5 DEF UniqueRows
<1>6. QED
  BY <1>1, <1>2, <1>3, <1>4, <1>5 DEF TrashStep

LEMMA RowsGone ==
  ASSUME TypeOK, files' \subseteq files, UNCHANGED <<local, shards, nextId, cloud, run, uploads>>
  PROVE  TrashStep
<1>1. \A g \in files : SameRow(g, g)
  BY DEF SameRow
<1>2. QED
  BY <1>1 DEF TrashStep, TypeOK, UniqueRows

LEMMA Effects == ASSUME TypeOK, Next PROVE Effect
<1>3. CASE Worker
  <2>1. CASE /\ queue # <<>>
             /\ LET t == Head(queue) IN
                \/ BeginUpload(t) \/ RefuseUpload(t) \/ RunDownload(t)
                \/ FailDownload(t) \/ RunDelete(t) \/ SkipDelete(t)
    <3> DEFINE t == Head(queue)
    <3>1. CASE BeginUpload(t)
      BY <2>1, <3>1 DEF Effect
    <3>2. CASE RefuseUpload(t) \/ RunDownload(t) \/ FailDownload(t) \/ SkipDelete(t)
      BY <3>2 DEF RefuseUpload, RunDownload, FailDownload, SkipDelete, tables, Effect, Still
    <3>3. CASE RunDelete(t)
      <4>1. CloudStep
        BY <3>3, VideoGone DEF RunDelete, tables
      <4>2. QED
        BY <4>1 DEF Effect
    <3>4. QED
      BY <2>1, <3>1, <3>2, <3>3
  <2>2. CASE LinkExisting \/ PurgeStale \/ SendShard \/ RecordFile \/ RecordShard \/ FailUpload
    BY <2>2 DEF Effect
  <2>3. QED
    BY <1>3, <2>1, <2>2 DEF Worker
<1>4. CASE Faults
  <2>1. ASSUME NEW v \in Videos, Vanish(v) PROVE CloudStep
    BY <2>1, VideoGone DEF Vanish, tables
  <2>2. QED
    BY <1>4, <2>1 DEF Faults, Effect
<1>5. CASE Requests
  <2>1. ASSUME NEW p \in Paths, RequestUpload(p) PROVE Still
    BY <2>1 DEF RequestUpload, Still, tables
  <2>2. ASSUME NEW f \in files, RequestDownload(f) PROVE Still
    BY <2>2 DEF RequestDownload, Still, tables
  <2>3. ASSUME NEW f \in files, SoftDelete(f) PROVE TrashStep
    BY <2>3, TrashMoved DEF SoftDelete
  <2>4. ASSUME NEW f \in files, Restore(f) PROVE TrashStep
    BY <2>4, TrashMoved DEF Restore
  <2>5. ASSUME NEW f \in files, PermanentDelete(f) PROVE TrashStep
    BY <2>5, RowsGone DEF PermanentDelete
  <2>6. QED
    BY <1>5, <2>1, <2>2, <2>3, <2>4, <2>5 DEF Requests, Effect
<1>6. CASE Schedulers
  <2>1. ASSUME NEW expired \in SUBSET files, PurgeTrash(expired) PROVE TrashStep
    BY <2>1, RowsGone DEF PurgeTrash
  <2>2. ASSUME NEW t \in sending, AddDelete(t) \/ SendOrphan(t) PROVE Still
    BY <2>2 DEF AddDelete, SendOrphan, Still, tables
  <2>3. CASE ListTrash
    BY <2>3 DEF ListTrash, Still, tables, Effect
  <2>4. CASE CleanupOrphanedVideos
    BY <2>4 DEF CleanupOrphanedVideos, Still, tables, Effect
  <2>5. ASSUME NEW v \in Videos, Forget(v) PROVE Still
    BY <2>5 DEF Forget, Still, tables
  <2>6. QED
    BY <1>6, <2>1, <2>2, <2>3, <2>4, <2>5 DEF Schedulers, Effect
<1>7. QED
  BY <1>3, <1>4, <1>5, <1>6 DEF Next

-----------------------------------------------------------------------------
(* What a step does to the history.                                        *)
LEMMA HistoryChanged ==
  ASSUME NEW u \in Seq(History), NEW k \in 1..Len(u), NEW h \in History
  PROVE  LET t == [u EXCEPT ![k] = h] IN
         /\ t \in Seq(History) /\ Len(t) = Len(u) /\ t[k] = h
         /\ \A j \in 1..Len(u) : j # k => t[j] = u[j]
  OBVIOUS

\* An upload ends, in state e.
EndsAs(e) ==
  /\ uploads' \in Seq(History) /\ Len(uploads') = Len(uploads)
  /\ uploads'[run.key].state = e
  /\ \A k \in 1..Len(uploads) :
       /\ k # run.key => uploads'[k] = uploads[k]
       /\ uploads'[k].sha = uploads[k].sha /\ uploads'[k].torn = uploads[k].torn
       /\ uploads'[k].clean = uploads[k].clean

LEMMA Ended ==
  ASSUME TypeOK, run.key \in 1..Len(uploads), NEW e \in {"done", "cut"},
         uploads' = [uploads EXCEPT ![run.key].state = e]
  PROVE  EndsAs(e)
<1> DEFINE k == run.key
           h == [uploads[k] EXCEPT !.state = e]
<1>1. uploads \in Seq(History) /\ k \in 1..Len(uploads)
  BY DEF TypeOK
<1>2. uploads[k] \in History
  BY <1>1
<1>3. h \in History /\ h.state = e /\ h.sha = uploads[k].sha /\ h.torn = uploads[k].torn
      /\ h.clean = uploads[k].clean
  BY <1>2 DEF History
<1>4. uploads' = [uploads EXCEPT ![k] = h]
  OBVIOUS
<1> HIDE DEF k, h
<1>5. /\ uploads' \in Seq(History) /\ Len(uploads') = Len(uploads) /\ uploads'[k] = h
      /\ \A j \in 1..Len(uploads) : j # k => uploads'[j] = uploads[j]
  BY <1>1, <1>3, <1>4, HistoryChanged
<1>6. QED
  BY <1>3, <1>5 DEF EndsAs, k

Torn ==
  /\ uploads' \in Seq(History) /\ Len(uploads') = Len(uploads)
  /\ uploads'[run.key].torn
  /\ \A k \in 1..Len(uploads) :
       /\ k # run.key => uploads'[k] = uploads[k]
       /\ uploads'[k].sha = uploads[k].sha /\ uploads'[k].state = uploads[k].state
       /\ uploads'[k].clean = uploads[k].clean

LEMMA MadeTorn ==
  ASSUME TypeOK, run.key \in 1..Len(uploads),
         uploads' = [uploads EXCEPT ![run.key].torn = TRUE]
  PROVE  Torn
<1> DEFINE k == run.key
           h == [uploads[k] EXCEPT !.torn = TRUE]
<1>1. uploads \in Seq(History) /\ k \in 1..Len(uploads)
  BY DEF TypeOK
<1>2. uploads[k] \in History
  BY <1>1
<1>3. h \in History /\ h.torn /\ h.sha = uploads[k].sha /\ h.state = uploads[k].state
      /\ h.clean = uploads[k].clean
  BY <1>2 DEF History
<1>4. uploads' = [uploads EXCEPT ![k] = h] /\ h \in History
  BY <1>3
<1> HIDE DEF k, h
<1>5. /\ uploads' \in Seq(History) /\ Len(uploads') = Len(uploads) /\ uploads'[k] = h
      /\ \A j \in 1..Len(uploads) : j # k => uploads'[j] = uploads[j]
  <2> DEFINE T == [uploads EXCEPT ![k] = h]
  <2>1. /\ T \in Seq(History) /\ Len(T) = Len(uploads) /\ T[k] = h
        /\ \A j \in 1..Len(uploads) : j # k => T[j] = uploads[j]
    BY <1>1, <1>4, HistoryChanged
  <2> HIDE DEF T
  <2>2. uploads' = T
    BY <1>4 DEF T
  <2>3. QED
    BY <2>1, <2>2
<1>6. QED
  BY <1>3, <1>5 DEF Torn, k

\* An upload of content c under the path p starts, after a look at rows.
Starts(p, c, rows) ==
  /\ uploads' \in Seq(History) /\ Len(uploads') = Len(uploads) + 1
  /\ \A k \in 1..Len(uploads) :
       /\ uploads'[k].sha = uploads[k].sha /\ uploads'[k].torn = uploads[k].torn
       /\ uploads'[k].state = uploads[k].state
       /\ uploads'[k].clean <=> uploads[k].clean /\ uploads[k].sha # c
  /\ LET h == uploads'[Len(uploads) + 1] IN
     /\ h.sha = c /\ h.state = "running" /\ (h.torn <=> local[p] # c)
     /\ h.clean <=> ~\E f \in rows : f.sha = c \/ f.path = Base[p]
  /\ run' \in Running /\ run'.at = "send" /\ run'.path = p /\ run'.sha = c
  /\ run'.key = Len(uploads) + 1 /\ run'.pos = 0

LEMMA Started ==
  ASSUME TypeOK, NEW p \in Paths, NEW c \in Contents, NEW rows, StartShards(p, c, rows),
         Len(uploads) < MaxUploads
  PROVE  Starts(p, c, rows)
<1> DEFINE n == Len(uploads)
           u == [k \in 1..n |-> [uploads[k] EXCEPT !.clean = @ /\ uploads[k].sha # c]]
           h == [sha |-> c, state |-> "running", torn |-> local[p] # c,
                 clean |-> ~\E f \in rows : f.sha = c \/ f.path = Base[p]]
<1>1. uploads \in Seq(History) /\ n \in Nat
  BY DEF TypeOK
<1>2. \A k \in 1..n : uploads[k] \in History
  BY <1>1
<1>3. \A k \in 1..n :
        /\ u[k] \in History /\ u[k].sha = uploads[k].sha
        /\ u[k].torn = uploads[k].torn /\ u[k].state = uploads[k].state
        /\ u[k].clean <=> uploads[k].clean /\ uploads[k].sha # c
  BY <1>2 DEF History
<1>4. h \in History
  BY DEF History
<1>5. u = [k \in 1..n |-> u[k]]
  OBVIOUS
<1>6. uploads' = Append(u, h)
  BY DEF StartShards
<1> HIDE DEF u, n
<1>7. u \in Seq(History) /\ Len(u) = n
  BY <1>1, <1>3, <1>5, IsASeq
<1>8. /\ uploads' \in Seq(History) /\ Len(uploads') = n + 1
      /\ uploads'[n + 1] = h /\ \A k \in 1..n : uploads'[k] = u[k]
  <2> HIDE DEF h
  <2>1. QED
    BY <1>1, <1>4, <1>6, <1>7
<1>9. /\ run' = [at |-> "send", path |-> p, sha |-> c, key |-> n + 1, pos |-> 0, video |-> 0]
      /\ n + 1 \in Keys /\ 0 \in 0..(MaxParts - 1)
  BY <1>1, FilesAssumption DEF StartShards, Keys, n
<1>10. /\ run' \in Running /\ run'.at = "send" /\ run'.path = p /\ run'.sha = c
       /\ run'.key = n + 1 /\ run'.pos = 0
  BY <1>9 DEF Running
<1>11. /\ h.sha = c /\ h.state = "running" /\ (h.torn <=> local[p] # c)
       /\ h.clean <=> ~\E f \in rows : f.sha = c \/ f.path = Base[p]
  OBVIOUS
<1> HIDE DEF h
<1>12. QED
  BY <1>3, <1>8, <1>10, <1>11 DEF Starts, n

-----------------------------------------------------------------------------
(* The rows.                                                               *)

\* GetFileByHash finds the row with the smallest id.
LEMMA FirstRow ==
  ASSUME files \subseteq File, NEW c, WithHash(c) # {}
  PROVE  /\ FileByHash(c) \in files /\ FileByHash(c).sha = c
         /\ \A g \in files : g.sha = c => FileByHash(c).id <= g.id
<1> DEFINE W == WithHash(c)
           Q == {f.id : f \in W}
<1>1. Q \subseteq Nat /\ Q # {}
  BY DEF WithHash, File, Ids
<1>2. PICK q \in Q : \A r \in Q : q <= r
  <2> HIDE DEF Q
  <2>1. QED
    BY <1>1, LeastNat
<1>3. PICK f \in W : f.id = q
  BY <1>2
<1>4. \A g \in W : f.id <= g.id
  BY <1>2, <1>3
<1> HIDE DEF Q
<1>5. FileByHash(c) \in W /\ \A g \in W : FileByHash(c).id <= g.id
  BY <1>3, <1>4 DEF FileByHash
<1>6. QED
  BY <1>5 DEF WithHash

\* An upsert replaces the row of the path, keeping its id, or adds one.
SavedAs(new, p, v, c, k) ==
  /\ new \in File /\ new.path = p /\ new.video = v /\ new.sha = c /\ new.key = k
  /\ files' = {f \in files : f.path # p} \cup {new}
  /\ \/ /\ \E f \in files : f.path = p /\ f.id = new.id
        /\ nextId' = nextId
     \/ /\ \A f \in files : f.path # p
        /\ new.id = nextId /\ nextId' = nextId + 1

LEMMA Upsert ==
  ASSUME TypeOK, NEW p \in Names, NEW v \in Videos, NEW c \in Contents,
         NEW k \in Keys \cup {NoKey}, SaveFileWithKey(p, v, c, k), nextId <= MaxUploads
  PROVE  \E new : SavedAs(new, p, v, c, k)
<1> DEFINE old == {f \in files : f.path = p}
           id  == IF old = {} THEN nextId ELSE (CHOOSE f \in old : TRUE).id
           new == [id |-> id, path |-> p, video |-> v, sha |-> c,
                   key |-> k, trash |-> FALSE]
<1>1. /\ files' = (files \ old) \cup {new}
      /\ nextId' = IF old = {} THEN nextId + 1 ELSE nextId
  BY DEF SaveFileWithKey
<1>2. files \ old = {f \in files : f.path # p}
  OBVIOUS
<1>3. files \subseteq File /\ nextId \in Ids
  BY FilesAssumption DEF TypeOK, Ids
<1>4. /\ id \in Ids
      /\ \/ (\E f \in files : f.path = p /\ f.id = id) /\ nextId' = nextId
         \/ (\A f \in files : f.path # p) /\ id = nextId /\ nextId' = nextId + 1
  <2>1. CASE old = {}
    BY <2>1, <1>1, <1>3
  <2>2. CASE old # {}
    <3>1. PICK f \in old : id = f.id
      BY <2>2
    <3>2. f.id \in Ids
      BY <1>3 DEF File
    <3>3. QED
      BY <3>1, <3>2, <2>2, <1>1
  <2>3. QED
    BY <2>1, <2>2
<1> HIDE DEF id, old
<1>5. /\ new \in File /\ new.id = id /\ new.path = p /\ new.video = v /\ new.sha = c
      /\ new.key = k
  BY <1>4 DEF File
<1> HIDE DEF new
<1>6. QED
  BY <1>1, <1>2, <1>4, <1>5 DEF SavedAs

-----------------------------------------------------------------------------
(* Types.                                                                  *)
TablesOK ==
  /\ local \in [Paths -> Contents]
  /\ files \subseteq File /\ shards \subseteq Shard
  /\ nextId \in 1..(MaxUploads + 1)
  /\ cloud \in Seq(Video)
  /\ run \in Running \cup {NoUpload}
  /\ uploads \in Seq(History)

LEMMA Numbers ==
  ASSUME TypeOK
  PROVE  /\ Len(uploads) \in Nat /\ Len(cloud) \in Nat /\ nextId \in Nat /\ nextId > 0
         /\ Waiting \in Nat /\ asked \in Nat /\ MaxUploads \in Nat /\ asked <= MaxUploads
         /\ MaxParts \in Nat /\ MaxParts > 0
         /\ \A c \in Contents : Parts[c] \in Nat /\ Parts[c] > 0 /\ Parts[c] <= MaxParts
<1>1. MaxParts \in Nat /\ MaxParts > 0 /\ MaxUploads \in Nat
  BY FilesAssumption
<1>2. \A c \in Contents : Parts[c] \in 1..MaxParts
  BY FilesAssumption
<1>3. \A n \in 1..MaxParts : n \in Nat /\ n > 0 /\ n <= MaxParts
  BY <1>1
<1>4. nextId \in Nat /\ nextId > 0 /\ asked <= MaxUploads
  BY <1>1 DEF TypeOK
<1>5. Len(uploads) \in Nat /\ Len(cloud) \in Nat
  BY DEF TypeOK
<1>6. QED
  BY <1>1, <1>2, <1>3, <1>4, <1>5, Waits0

LEMMA FaultsType == ASSUME TypeOK, Next PROVE faults' \in 0..MaxFaults
<1>1. faults \in 0..MaxFaults /\ MaxFaults \in Nat
  BY FilesAssumption DEF TypeOK
<1>2. faults' = faults \/ (faults < MaxFaults /\ faults' = faults + 1)
  <2>1. CASE Worker
    BY <2>1 DEF Worker, BeginUpload, RefuseUpload, RunDownload, FailDownload, RunDelete,
       SkipDelete, LinkExisting, PurgeStale, SendShard, RecordFile, RecordShard, FailUpload,
       bounds
  <2>2. CASE Faults
    BY <2>2 DEF Faults, EditLocal, Vanish, Crash
  <2>3. CASE Requests
    BY <2>3 DEF Requests, RequestUpload, RequestDownload, SoftDelete, Restore,
       PermanentDelete, bounds
  <2>4. CASE Schedulers
    BY <2>4 DEF Schedulers, PurgeTrash, AddDelete, SendOrphan, ListTrash,
       CleanupOrphanedVideos, Forget, bounds
  <2>5. QED
    BY <2>1, <2>2, <2>3, <2>4 DEF Next
<1>3. QED
  BY <1>1, <1>2

LEMMA TypeInit == Init => TypeInv
<1> SUFFICES ASSUME Init PROVE TypeInv
  OBVIOUS
<1>1. TypeOK
  BY FilesAssumption DEF Init, TypeOK, NoUpload
<1>2. Len(uploads) = 0 /\ Len(cloud) = 0 /\ run.at = "none" /\ Len(queue) = 0
  BY DEF Init, NoUpload
<1>3. Waiting = 0
  <2>1. PlacesIn(queue, UploadTasks) = {}
    BY <1>2 DEF PlacesIn
  <2>2. QED
    BY <2>1, FS_EmptySet DEF Waiting, CountIn
<1>4. CountInv
  BY <1>2, <1>3 DEF CountInv, MakesKey, MakesRow, Init
<1>5. CloudBound /\ RunBound
  BY <1>2, Caps DEF CloudBound, RunBound, Sends
<1>6. QED
  BY <1>1, <1>4, <1>5 DEF TypeInv

\* An upload that a task asks for has a key left; so has an id.
LEMMA Room0 ==
  ASSUME TypeInv
  PROVE  /\ Waiting > 0 \/ run.at = "verify" => Len(uploads) < MaxUploads
         /\ run.at = "verify" \/ (run.at = "file" /\ run.pos = 0) => nextId <= MaxUploads
  BY Numbers DEF TypeInv, CountInv, MakesKey, MakesRow

\* A new upload.
LEMMA TypeStarted ==
  ASSUME TypeInv, QueueStep, NEW p \in Paths, NEW c \in Contents, NEW rows, Starts(p, c, rows),
         \/ run = NoUpload /\ Waiting' + 1 <= Waiting
         \/ run.at = "verify",
         UNCHANGED <<nextId, cloud, asked>>
  PROVE  /\ uploads' \in Seq(History) /\ run' \in Running \cup {NoUpload}
         /\ CountInv' /\ CloudBound' /\ RunBound'
<1>0. /\ Len(uploads) \in Nat /\ Len(cloud) \in Nat /\ nextId \in Nat /\ Waiting \in Nat
      /\ asked \in Nat
  BY Numbers DEF TypeInv
<1>1. /\ uploads' \in Seq(History) /\ Len(uploads') = Len(uploads) + 1
      /\ run' \in Running /\ run'.at = "send" /\ run'.sha = c
      /\ run'.key = Len(uploads) + 1 /\ run'.pos = 0
  BY DEF Starts
<1>2. Waiting' \in Nat /\ Waiting' + asked <= Waiting + asked' /\ asked' = asked
  BY DEF QueueStep
<1>2a. Waiting' <= Waiting
  BY <1>0, <1>2 DEF Waiting
<1>3. run.at \notin Sends
  <2>1. "none" \notin Sends /\ "verify" \notin Sends
    BY DEF Sends
  <2>2. QED
    BY <2>1 DEF NoUpload
<1>4. /\ Len(uploads) + 1 + Waiting' <= asked
      /\ nextId + Waiting' + 1 <= asked + 1
  <2>1. CASE run.at = "verify"
    <3>1. Len(uploads) + Waiting + 1 <= asked /\ nextId + Waiting + 1 <= asked + 1
      BY <2>1 DEF TypeInv, CountInv, MakesKey, MakesRow
    <3>2. QED
      BY <3>1, <1>0, <1>2, <1>2a, SMTT(30) DEF Waiting
  <2>2. CASE run = NoUpload /\ Waiting' + 1 <= Waiting
    <3>1. run.at = "none"
      BY <2>2 DEF NoUpload
    <3>2. Len(uploads) + Waiting + 0 <= asked /\ nextId + Waiting + 0 <= asked + 1
      BY <3>1 DEF TypeInv, CountInv, MakesKey, MakesRow
    <3>3. QED
      BY <2>2, <3>2, <1>0, <1>2, SMTT(30) DEF Waiting
  <2>3. QED
    BY <2>1, <2>2
<1>5. CountInv'
  <2>1. /\ Len(uploads') + Waiting' + 0 <= asked'
        /\ nextId' + Waiting' + 1 <= asked' + 1
    BY <1>0, <1>1, <1>2, <1>4 DEF Waiting
  <2>2. run'.at # "verify" /\ run'.at \in {"send", "file"}
    BY <1>1
  <2>3. QED
    BY <2>1, <2>2, <1>1 DEF CountInv, MakesKey, MakesRow
<1>6. CloudBound'
  <2>1. Len(cloud) <= Cap(Len(uploads))
    BY <1>3 DEF TypeInv, CloudBound
  <2>2. (Len(uploads) + 1) - 1 = Len(uploads) /\ Cap(Len(uploads)) \in Nat
    BY <1>0, Caps
  <2>3. Len(cloud') <= Cap(Len(uploads') - 1) + run'.pos + 0
    BY <2>1, <2>2, <1>1
  <2>4. QED
    BY <2>3, <1>1 DEF CloudBound, Sends, Cap
<1>7. RunBound'
  <2>1. Parts[c] > 0
    BY Numbers DEF TypeInv
  <2>2. run'.at \notin {"file", "shard"} /\ run'.at # "file"
    BY <1>1
  <2>3. QED
    BY <2>1, <2>2, <1>0, <1>1 DEF RunBound
<1>8. QED
  BY <1>1, <1>5, <1>6, <1>7

\* A step that makes no key, and at most the row that its upload may make.
LEMMA CountsKept ==
  ASSUME TypeInv, QueueStep, Len(uploads') = Len(uploads), MakesKey' => MakesKey,
         \/ nextId' = nextId /\ (MakesRow' => MakesRow)
         \/ nextId' = nextId + 1 /\ MakesRow /\ ~MakesRow'
  PROVE  CountInv'
<1>0. /\ Len(uploads) \in Nat /\ nextId \in Nat /\ Waiting \in Nat /\ asked \in Nat
      /\ MaxUploads \in Nat
  BY Numbers DEF TypeInv
<1>1. Waiting' \in Nat /\ Waiting' + asked <= Waiting + asked' /\ asked' \in asked..MaxUploads
  BY DEF QueueStep
<1>2. asked' \in Nat
  BY <1>0, <1>1
<1> DEFINE a == IF MakesKey THEN 1 ELSE 0
           b == IF MakesRow THEN 1 ELSE 0
           c == IF MakesKey' THEN 1 ELSE 0
           d == IF MakesRow' THEN 1 ELSE 0
<1>3. /\ a \in Nat /\ b \in Nat /\ c \in Nat /\ d \in Nat /\ c <= a
      /\ nextId' \in Nat /\ nextId' + d <= nextId + b
  BY <1>0
<1>4. Len(uploads) + Waiting + a <= asked /\ nextId + Waiting + b <= asked + 1
  BY DEF TypeInv, CountInv
<1> HIDE DEF a, b, c, d
<1>5. PICK w \in Nat, v \in Nat, y \in Nat : w = Waiting /\ v = Waiting' /\ y = asked'
  BY <1>0, <1>1, <1>2
<1>6. v + asked <= w + y /\ Len(uploads) + w + a <= asked /\ nextId + w + b <= asked + 1
  BY <1>1, <1>4, <1>5
<1>6a. Len(uploads') + v + c <= y
  BY <1>0, <1>3, <1>6
<1>6b. nextId' + v + d <= y + 1
  <2>1. PICK m \in Nat, n \in Nat, x \in Nat : m = nextId /\ n = nextId' /\ x = asked
    BY <1>0, <1>3
  <2>2. n + d <= m + b /\ m + w + b <= x + 1 /\ v + x <= w + y
    BY <1>3, <1>6, <2>1
  <2>3. n + v + d <= y + 1
    BY <1>3, <2>2
  <2>4. QED
    BY <2>1, <2>3
<1>7. QED
  BY <1>5, <1>6a, <1>6b DEF CountInv, c, d

\* A task that is received makes a key.
LEMMA CountsTaken ==
  ASSUME TypeInv, QueueStep, Waiting' + 1 <= Waiting, UNCHANGED <<uploads, nextId, asked>>
  PROVE  CountInv'
<1>0. /\ Len(uploads) \in Nat /\ nextId \in Nat /\ Waiting \in Nat /\ asked \in Nat
  BY Numbers DEF TypeInv
<1>1. Waiting' \in Nat
  BY DEF QueueStep
<1> DEFINE a == IF MakesKey THEN 1 ELSE 0
           b == IF MakesRow THEN 1 ELSE 0
           c == IF MakesKey' THEN 1 ELSE 0
           d == IF MakesRow' THEN 1 ELSE 0
<1>2. a \in 0..1 /\ b \in 0..1 /\ c \in 0..1 /\ d \in 0..1
  OBVIOUS
<1>3. Len(uploads) + Waiting + a <= asked /\ nextId + Waiting + b <= asked + 1
  BY DEF TypeInv, CountInv
<1> HIDE DEF a, b, c, d
<1>4. Len(uploads') + Waiting' + c <= asked'
  BY <1>0, <1>1, <1>2, <1>3, SMTT(30) DEF Waiting
<1>5. nextId' + Waiting' + d <= asked' + 1
  BY <1>0, <1>1, <1>2, <1>3, SMTT(30) DEF Waiting
<1>6. QED
  BY <1>4, <1>5 DEF CountInv, c, d

LEMMA KeyNumbers ==
  ASSUME TypeOK, RunBound, run.at \in Sends
  PROVE  /\ Len(uploads) \in Nat /\ Len(uploads) - 1 \in Nat /\ Len(cloud) \in Nat
         /\ MaxParts \in Nat /\ Parts[run.sha] \in Nat /\ Parts[run.sha] <= MaxParts
         /\ Cap(Len(uploads)) = Cap(Len(uploads) - 1) + MaxParts
         /\ Cap(Len(uploads) - 1) \in Nat
<1>1. run.sha \in Contents
  BY RunKinds DEF TypeOK
<1>2. /\ MaxParts \in Nat /\ Parts[run.sha] \in Nat /\ Parts[run.sha] <= MaxParts
      /\ Len(uploads) \in Nat /\ Len(cloud) \in Nat
  BY <1>1, Numbers
<1>3. Len(uploads) > 0
  BY DEF RunBound
<1>4. Len(uploads) - 1 \in Nat /\ Len(uploads) \in Nat \ {0}
  BY <1>2, <1>3
<1>5. Cap(Len(uploads)) = Cap(Len(uploads) - 1) + MaxParts /\ Cap(Len(uploads) - 1) \in Nat
  BY <1>4, Caps
<1>6. QED
  BY <1>2, <1>4, <1>5

LEMMA TypeNext == TypeInv /\ [Next]_vars => TypeInv'
<1> SUFFICES ASSUME TypeInv, [Next]_vars PROVE TypeInv'
  OBVIOUS
<1>1. CASE UNCHANGED vars
  BY <1>1 DEF vars, tables, tasks, bounds, TypeInv, TypeOK, CountInv, CloudBound, RunBound,
     Waiting, MakesKey, MakesRow, Cap
<1>2. ASSUME Next PROVE TypeInv'
  <2>1. TypeOK /\ CountInv /\ CloudBound /\ RunBound
    BY DEF TypeInv
  <2>2. QueueStep /\ Effect /\ faults' \in 0..MaxFaults
    BY <1>2, <2>1, QueueSteps, Effects, FaultsType
  <2>3. SUFFICES TablesOK' /\ CountInv' /\ CloudBound' /\ RunBound'
    <3>1. asked' \in 0..MaxUploads
      <4>1. asked' \in asked..MaxUploads
        BY <2>2 DEF QueueStep
      <4>2. QED
        BY <4>1, <2>1, Numbers
    <3>2. ASSUME TablesOK' PROVE TypeOK'
      BY <2>2, <3>1, <3>2 DEF TypeOK, TablesOK, QueueStep
    <3>3. QED
      BY <3>2 DEF TypeInv
  <2>4. TablesOK
    BY <2>1 DEF TypeOK, TablesOK
  <2> DEFINE Good == TablesOK' /\ CountInv' /\ CloudBound' /\ RunBound'
  <2>5. CASE Still
    <3>1. CountInv'
      BY <2>2, <2>5, CountsKept DEF Still, MakesKey, MakesRow
    <3>2. QED
      BY <2>1, <2>4, <2>5, <3>1 DEF Still, TablesOK, CloudBound, RunBound, Cap
  <2>6. CASE TrashStep
    <3>1. CountInv'
      BY <2>2, <2>6, CountsKept DEF TrashStep, MakesKey, MakesRow
    <3>2. QED
      BY <2>1, <2>4, <2>6, <3>1 DEF TrashStep, TablesOK, CloudBound, RunBound, Cap
  <2>7. CASE CloudStep
    <3>1. CountInv'
      BY <2>2, <2>7, CountsKept DEF CloudStep, MakesKey, MakesRow
    <3>2. QED
      BY <2>1, <2>4, <2>7, <3>1 DEF CloudStep, TablesOK, CloudBound, RunBound, Cap
  <2>8. CASE /\ queue # <<>> /\ BeginUpload(Head(queue))
    <3> DEFINE q == Head(queue)
               c == local[q.path]
    <3>1. Receive(q) /\ q.kind = "upload" /\ run = NoUpload
      BY <2>8 DEF BeginUpload, Receive
    <3>2. /\ q \in Task /\ Waiting' + 1 <= Waiting
      BY <2>1, <3>1, Received
    <3>3. q.path \in Paths /\ c \in Contents
      BY <3>1, <3>2, <2>4, TaskKinds DEF TablesOK
    <3>4. UNCHANGED <<local, files, shards, nextId, cloud, asked>>
      BY <2>8 DEF BeginUpload, tables, bounds
    <3>5. CASE WithHash(c) = {}
      <4>1. StartShards(q.path, c, files)
        BY <2>8, <3>5 DEF BeginUpload
      <4>2. Len(uploads) < MaxUploads
        <5>1. Waiting > 0
          BY <3>2, <2>1, <2>2, Numbers DEF QueueStep, Waiting
        <5>2. QED
          BY <5>1, Room0
      <4> HIDE DEF c, q
      <4>3. Starts(q.path, c, files)
        BY <2>1, <3>3, <4>1, <4>2, Started
      <4>4. /\ uploads' \in Seq(History) /\ run' \in Running \cup {NoUpload}
            /\ CountInv' /\ CloudBound' /\ RunBound'
        BY <2>2, <3>1, <3>2, <3>3, <3>4, <4>3, TypeStarted
      <4>5. QED
        BY <2>4, <3>4, <4>4 DEF TablesOK
    <3>6. CASE WithHash(c) # {}
      <4>1. /\ run' = [at |-> "verify", path |-> q.path, sha |-> c,
                       found |-> FileByHash(c).id, video |-> FileByHash(c).video]
            /\ uploads' = uploads
        BY <2>8, <3>6 DEF BeginUpload
      <4> HIDE DEF c, q
      <4>2. FileByHash(c).id \in Ids /\ FileByHash(c).video \in Videos
        BY <2>4, <3>6, FirstRow DEF TablesOK, File
      <4>3. run' \in Running /\ run'.at = "verify"
        BY <3>3, <4>1, <4>2 DEF Running
      <4>4. CountInv'
        BY <2>2, <3>2, <3>4, <4>1, CountsTaken
      <4>5. run.at \notin Sends /\ run'.at \notin Sends
        BY <3>1, <4>3 DEF NoUpload, Sends
      <4>6. CloudBound' /\ RunBound'
        BY <2>1, <3>4, <4>1, <4>5 DEF CloudBound, RunBound, Cap
      <4>7. QED
        BY <2>4, <3>4, <4>1, <4>3, <4>4, <4>6 DEF TablesOK
    <3>7. QED
      BY <3>5, <3>6
  <2>9. CASE LinkExisting
    <3>1. /\ run.at = "verify" /\ run' = NoUpload
          /\ SaveFileWithKey(run.path, run.video, run.sha, NoKey)
          /\ UNCHANGED <<local, shards, cloud, uploads, asked>>
      BY <2>9 DEF LinkExisting, bounds
    <3>2. run.path \in Names /\ run.video \in Videos /\ run.sha \in Contents
      BY <3>1, <2>4, RunKinds DEF TablesOK, Names
    <3>3. NoKey \in Keys \cup {NoKey} /\ nextId <= MaxUploads
      BY <3>1, Room0
    <3>4. PICK new : SavedAs(new, run.path, run.video, run.sha, NoKey)
      BY <2>1, <3>1, <3>2, <3>3, Upsert
    <3>5. files' \subseteq File /\ nextId' \in 1..(MaxUploads + 1)
      BY <2>1, <2>4, <3>3, <3>4, Numbers DEF SavedAs, TablesOK
    <3>6. run.at \notin Sends /\ run'.at = "none" /\ run'.at \notin Sends
      BY <3>1 DEF NoUpload, Sends
    <3>7. CountInv'
      <4>1. MakesRow /\ ~MakesRow' /\ ~MakesKey'
        BY <3>1, <3>6 DEF MakesRow, MakesKey, Sends
      <4>2. nextId' = nextId \/ nextId' = nextId + 1
        BY <3>4 DEF SavedAs
      <4>3. QED
        BY <2>2, <3>1, <4>1, <4>2, CountsKept
    <3>8. CloudBound' /\ RunBound'
      BY <2>1, <3>1, <3>6 DEF CloudBound, RunBound, Cap
    <3>9. QED
      BY <2>4, <3>1, <3>5, <3>7, <3>8 DEF TablesOK
  <2>10. CASE PurgeStale
    <3>1. /\ run.at = "verify" /\ StartShards(run.path, run.sha, files')
          /\ files' \subseteq files /\ UNCHANGED <<local, shards, nextId, cloud, asked>>
      BY <2>10 DEF PurgeStale, bounds
    <3>2. run.path \in Paths /\ run.sha \in Contents
      BY <3>1, <2>4, RunKinds DEF TablesOK
    <3>3. Starts(run.path, run.sha, files')
      BY <2>1, <3>1, <3>2, Room0, Started
    <3>4. /\ uploads' \in Seq(History) /\ run' \in Running \cup {NoUpload}
          /\ CountInv' /\ CloudBound' /\ RunBound'
      BY <2>2, <3>1, <3>2, <3>3, TypeStarted
    <3>5. QED
      BY <2>4, <3>1, <3>4 DEF TablesOK
  <2>11. CASE SendShard
    <3>1. /\ run.at = "send" /\ run.at \in Sends
          /\ cloud' = Append(cloud, Sealed)
          /\ run' = [run EXCEPT !.at = IF run.pos = 0 THEN "file" ELSE "shard",
                                !.video = Len(cloud) + 1]
          /\ UNCHANGED <<local, files, shards, nextId, uploads, asked>>
      BY <2>11 DEF SendShard, tables, bounds, Sends
    <3>2. /\ run \in Running /\ run.path \in Paths /\ run.sha \in Contents /\ run.key \in Keys
          /\ run.pos \in 0..(MaxParts - 1) /\ run.pos \in Nat
      BY <3>1, <2>4, RunKinds DEF TablesOK, NoUpload
    <3>3. /\ run.key = Len(uploads) /\ Len(uploads) > 0 /\ run.pos < Parts[run.sha]
          /\ Len(cloud) <= Cap(Len(uploads) - 1) + run.pos + 0
      BY <2>1, <3>1 DEF RunBound, CloudBound
    <3>4. Sealed \in Video
      BY <3>2, <2>4 DEF Sealed, TablesOK, Video, Data
    <3>5. cloud' \in Seq(Video) /\ Len(cloud') = Len(cloud) + 1
      <4> HIDE DEF Sealed
      <4>1. cloud \in Seq(Video)
        BY <2>4 DEF TablesOK
      <4>2. QED
        BY <4>1, <3>1, <3>4
    <3>6. Len(cloud) + 1 \in Videos
      <4>1. /\ Len(uploads) \in Nat /\ Len(uploads) - 1 \in Nat /\ Len(cloud) \in Nat
            /\ run.pos + 1 <= MaxParts /\ MaxParts \in Nat
        BY <2>1, <3>2, <3>3, Numbers
      <4>2. Len(uploads) <= MaxUploads /\ MaxUploads \in Nat
        <5>1. /\ Len(uploads) + Waiting <= asked /\ Waiting \in Nat /\ asked <= MaxUploads
              /\ asked \in Nat /\ Len(uploads) \in Nat /\ MaxUploads \in Nat
          BY <2>1, Numbers DEF CountInv
        <5>2. QED
          BY <5>1
      <4>3. /\ Cap(Len(uploads)) = Cap(Len(uploads) - 1) + MaxParts
            /\ Cap(Len(uploads)) <= Cap(MaxUploads)
            /\ Cap(Len(uploads) - 1) \in Nat /\ Cap(Len(uploads)) \in Nat
            /\ Cap(MaxUploads) \in Nat /\ Videos = 1..Cap(MaxUploads)
        BY <4>1, <4>2, <3>3, Caps
      <4>4. Len(cloud) + 1 <= Cap(MaxUploads)
        BY <4>1, <4>3, <3>2, <3>3
      <4>5. QED
        BY <4>1, <4>3, <4>4
    <3>7. /\ run' \in Running /\ run'.at = (IF run.pos = 0 THEN "file" ELSE "shard")
          /\ run'.at \in {"file", "shard"} /\ run'.at \in Sends
          /\ run'.pos = run.pos /\ run'.video = Len(cloud) + 1
          /\ run'.key = run.key /\ run'.sha = run.sha
      <4> DEFINE a == IF run.pos = 0 THEN "file" ELSE "shard"
      <4>1. a \in Sends /\ a \in {"file", "shard"}
        BY DEF Sends
      <4> HIDE DEF a
      <4> DEFINE v == Len(cloud) + 1
                 s == [run EXCEPT !.at = a, !.video = v]
      <4>2. run' = s
        BY <3>1 DEF a
      <4>2a. v \in Videos
        BY <3>6
      <4> HIDE DEF v
      <4>2b. /\ s \in Running /\ s.at = a /\ s.pos = run.pos
             /\ s.video = v /\ s.key = run.key /\ s.sha = run.sha
        <5>1. run.at \in Sends /\ run \in Running
          BY <3>1, <3>2
        <5>2. \A b \in Sends, w \in Videos : LET z == [run EXCEPT !.at = b, !.video = w] IN
                /\ z \in Running /\ z.at = b /\ z.pos = run.pos /\ z.video = w
                /\ z.path = run.path /\ z.sha = run.sha /\ z.key = run.key
          BY <5>1, RunChanges, Zenon
        <5>3. QED
          BY <5>2, <4>1, <4>2a, Zenon
      <4> HIDE DEF s
      <4>3. /\ run' \in Running /\ run'.at = a /\ run'.pos = run.pos
            /\ run'.video = Len(cloud) + 1 /\ run'.key = run.key /\ run'.sha = run.sha
        BY <4>2, <4>2b DEF v
      <4>4. QED
        BY <4>1, <4>3 DEF a
    <3>8. CountInv'
      <4>1. ~MakesKey' /\ (MakesRow' => MakesRow)
        BY <3>1, <3>7 DEF MakesKey, MakesRow
      <4>2. QED
        BY <2>2, <3>1, <4>1, CountsKept
    <3>9. CloudBound'
      <4>1. Len(cloud') <= Cap(Len(uploads) - 1) + run.pos + 1
        <5>1. Cap(Len(uploads) - 1) \in Nat /\ Len(cloud) \in Nat
          BY <2>1, <3>3, Numbers, Caps, SMTT(30)
        <5>2. QED
          BY <5>1, <3>2, <3>3, <3>5
      <4>2. run'.at # "send"
        BY <3>7
      <4>3. QED
        BY <3>1, <3>7, <4>1, <4>2 DEF CloudBound, Cap
    <3>10. RunBound'
      <4>1. Len(cloud) + 1 \in 1..Len(cloud')
        BY <3>5, <2>1, Numbers
      <4>2. run'.at = "file" => run'.pos = 0
        BY <3>7
      <4>3. QED
        BY <3>1, <3>3, <3>7, <4>1, <4>2 DEF RunBound
    <3>11. QED
      BY <2>4, <3>1, <3>5, <3>7, <3>8, <3>9, <3>10 DEF TablesOK
  <2>12. CASE RecordFile
    <3>1. /\ run.at = "file" /\ run.at \in Sends
          /\ SaveFileWithKey(Base[run.path], run.video, run.sha, run.key)
          /\ run' = [run EXCEPT !.at = "shard"]
          /\ UNCHANGED <<local, shards, cloud, uploads, asked>>
      BY <2>12 DEF RecordFile, bounds, Sends
    <3>2. /\ run \in Running /\ run.path \in Paths /\ run.sha \in Contents /\ run.key \in Keys
          /\ run.pos \in Nat /\ run.video \in Videos \cup {0}
      BY <3>1, <2>4, RunKinds DEF TablesOK, NoUpload
    <3>3. /\ run.key = Len(uploads) /\ run.key > 0 /\ run.pos < Parts[run.sha] /\ run.pos = 0
          /\ run.video \in 1..Len(cloud)
          /\ Len(cloud) <= Cap(Len(uploads) - 1) + run.pos + 1
      BY <2>1, <3>1 DEF RunBound, CloudBound
    <3>4. Base[run.path] \in Names /\ run.video \in Videos
      BY <3>2, <3>3, <2>1, Numbers DEF Names
    <3>5. nextId <= MaxUploads
      BY <3>1, <3>3, Room0
    <3>6. PICK new : SavedAs(new, Base[run.path], run.video, run.sha, run.key)
      BY <2>1, <3>1, <3>2, <3>4, <3>5, Upsert
    <3>7. files' \subseteq File /\ nextId' \in 1..(MaxUploads + 1)
      BY <2>1, <2>4, <3>5, <3>6, Numbers, SMTT(30) DEF SavedAs, TablesOK
    <3>8. /\ run' \in Running /\ run'.at = "shard" /\ run'.at \in Sends /\ run'.pos = run.pos
          /\ run'.key = run.key /\ run'.sha = run.sha /\ run'.video = run.video
      BY <3>1, <3>2, RunChanges, ZenonT(30) DEF Sends
    <3>9. CountInv'
      <4>1. ~MakesKey' /\ ~MakesRow' /\ MakesRow
        BY <3>1, <3>3, <3>8 DEF MakesKey, MakesRow
      <4>2. nextId' = nextId \/ nextId' = nextId + 1
        BY <3>6 DEF SavedAs
      <4>3. QED
        BY <2>2, <3>1, <4>1, <4>2, CountsKept
    <3>10. CloudBound' /\ RunBound'
      BY <3>1, <3>3, <3>8 DEF CloudBound, RunBound, Cap
    <3>11. QED
      BY <2>4, <3>1, <3>7, <3>8, <3>9, <3>10 DEF TablesOK
  <2>13. CASE RecordShard
    <3>1. /\ run.at = "shard" /\ run.at \in Sends
          /\ UNCHANGED <<local, files, nextId, cloud, asked>>
      BY <2>13 DEF RecordShard, bounds, Sends
    <3>2. /\ run \in Running /\ run.path \in Paths /\ run.sha \in Contents /\ run.key \in Keys
          /\ run.pos \in Nat /\ run.pos \in 0..(MaxParts - 1)
      BY <3>1, <2>4, RunKinds DEF TablesOK, NoUpload
    <3>3. /\ run.key = Len(uploads) /\ run.key > 0 /\ run.pos < Parts[run.sha]
          /\ run.video \in 1..Len(cloud)
          /\ Len(cloud) <= Cap(Len(uploads) - 1) + run.pos + 1
      BY <2>1, <3>1 DEF RunBound, CloudBound
    <3>4. shards' \subseteq Shard
      <4>1. run.video \in Videos
        BY <3>1, <3>3, <2>4, RunKinds, Numbers DEF TablesOK
      <4>2. WithHash(run.sha) # {} => FileByHash(run.sha).id \in Ids
        BY <2>4, FirstRow DEF TablesOK, File
      <4>3. WithHash(run.sha) # {} =>
              [file |-> FileByHash(run.sha).id, video |-> run.video, pos |-> run.pos] \in Shard
        BY <3>2, <4>1, <4>2 DEF Shard
      <4>4. QED
        BY <2>4, <2>13, <4>3 DEF RecordShard, TablesOK
    <3>5. /\ Len(uploads) \in Nat /\ Len(uploads) - 1 \in Nat /\ Len(cloud) \in Nat
          /\ MaxParts \in Nat /\ Parts[run.sha] \in Nat /\ Parts[run.sha] <= MaxParts
          /\ Cap(Len(uploads)) = Cap(Len(uploads) - 1) + MaxParts
          /\ Cap(Len(uploads) - 1) \in Nat
      BY <2>1, <2>4, <3>1, KeyNumbers DEF TablesOK
    <3>6. CASE run.pos + 1 = Parts[run.sha]
      <4>1. run' = NoUpload /\ uploads' = [uploads EXCEPT ![run.key].state = "done"]
        BY <2>13, <3>6 DEF RecordShard
      <4>2. EndsAs("done")
        BY <2>1, <3>3, <3>5, <4>1, Ended
      <4>3. uploads' \in Seq(History) /\ Len(uploads') = Len(uploads)
        BY <4>2 DEF EndsAs
      <4>4. run'.at = "none" /\ run'.at \notin Sends
        BY <4>1 DEF NoUpload, Sends
      <4>5. CountInv'
        <5>1. ~MakesKey' /\ ~MakesRow'
          BY <4>4 DEF MakesKey, MakesRow
        <5>2. QED
          BY <2>2, <3>1, <4>3, <5>1, CountsKept
      <4>6. CloudBound'
        <5>1. Len(cloud) <= Cap(Len(uploads))
          BY <3>2, <3>3, <3>5
        <5>2. QED
          BY <3>1, <4>3, <4>4, <5>1 DEF CloudBound, Cap
      <4>7. RunBound'
        BY <4>4 DEF RunBound
      <4>8. QED
        BY <2>4, <3>1, <3>4, <4>1, <4>3, <4>5, <4>6, <4>7 DEF TablesOK
    <3>7. CASE run.pos + 1 # Parts[run.sha]
      <4>1. run' = [run EXCEPT !.at = "send", !.pos = @ + 1] /\ uploads' = uploads
        BY <2>13, <3>7 DEF RecordShard
      <4>2. run.pos + 1 < Parts[run.sha] /\ run.pos + 1 < MaxParts
        BY <3>2, <3>3, <3>5, <3>7, SMTT(30)
      <4>3. /\ run' \in Running /\ run'.at = "send" /\ run'.pos = run.pos + 1
            /\ run'.key = run.key /\ run'.sha = run.sha /\ run'.at \in Sends
        BY <3>1, <3>2, <4>1, <4>2, RunChanges, ZenonT(30) DEF Sends
      <4>4. CountInv'
        <5>1. ~MakesKey' /\ ~MakesRow'
          BY <3>2, <4>3 DEF MakesKey, MakesRow
        <5>2. QED
          BY <2>2, <3>1, <4>1, <5>1, CountsKept
      <4>5. CloudBound'
        <5>1. Len(cloud) <= Cap(Len(uploads) - 1) + (run.pos + 1) + 0
          BY <3>2, <3>3, <3>5
        <5>2. QED
          BY <3>1, <4>1, <4>3, <5>1 DEF CloudBound, Cap
      <4>6. RunBound'
        <5>1. run'.at # "file" /\ run'.at \notin {"file", "shard"}
          BY <4>3
        <5>2. QED
          BY <3>3, <4>1, <4>2, <4>3, <5>1 DEF RunBound
      <4>7. QED
        BY <2>4, <3>1, <3>4, <4>1, <4>3, <4>4, <4>5, <4>6 DEF TablesOK
    <3>8. QED
      BY <3>6, <3>7
  <2>14. ASSUME NEW e \in {"done", "cut"}, run.at \in Sends, EndsAs(e), run' = NoUpload,
                UNCHANGED <<local, files, shards, nextId, cloud>>
         PROVE  Good
    <3>1. uploads' \in Seq(History) /\ Len(uploads') = Len(uploads)
      BY <2>14 DEF EndsAs
    <3>2. run'.at = "none" /\ run'.at \notin Sends
      BY <2>14 DEF NoUpload, Sends
    <3>3. CountInv'
      <4>1. ~MakesKey' /\ ~MakesRow'
        BY <3>2 DEF MakesKey, MakesRow
      <4>2. QED
        BY <2>2, <2>14, <3>1, <4>1, CountsKept
    <3>4. CloudBound'
      <4>1. /\ run.pos \in Nat /\ run.sha \in Contents /\ run.pos < Parts[run.sha]
            /\ Len(uploads) > 0
            /\ Len(cloud) <= Cap(Len(uploads) - 1) + run.pos + (IF run.at = "send" THEN 0 ELSE 1)
        BY <2>1, <2>4, <2>14, RunKinds DEF TablesOK, RunBound, CloudBound
      <4>2. /\ Parts[run.sha] \in Nat /\ Parts[run.sha] <= MaxParts /\ MaxParts \in Nat
            /\ Cap(Len(uploads)) = Cap(Len(uploads) - 1) + MaxParts
            /\ Cap(Len(uploads) - 1) \in Nat /\ Len(cloud) \in Nat
        BY <2>1, <2>4, <2>14, KeyNumbers DEF TablesOK
      <4>3. Len(cloud) <= Cap(Len(uploads))
        BY <4>1, <4>2
      <4>4. QED
        BY <2>14, <3>1, <3>2, <4>3 DEF CloudBound, Cap
    <3>5. RunBound'
      BY <3>2 DEF RunBound
    <3>6. QED
      BY <2>4, <2>14, <3>1, <3>3, <3>4, <3>5 DEF TablesOK
  <2>15. run.at \in Sends => run.key \in 1..Len(uploads)
    BY <2>1, Numbers DEF RunBound
  <2>16. CASE FailUpload
    <3>1. /\ run.at \in Sends /\ run' = NoUpload
          /\ uploads' = [uploads EXCEPT ![run.key].state = "cut"]
          /\ UNCHANGED <<local, files, shards, nextId, cloud>>
      BY <2>16 DEF FailUpload, tables, Sends
    <3>2. EndsAs("cut")
      BY <2>1, <2>15, <3>1, Ended
    <3>3. QED
      BY <2>14, <3>1, <3>2
  <2>17. CASE Crash
    <3>1. /\ run' = NoUpload /\ UNCHANGED <<local, files, shards, nextId, cloud>>
          /\ uploads' = IF run.at \in Sends
                        THEN [uploads EXCEPT ![run.key].state = "cut"] ELSE uploads
      BY <2>17 DEF Crash, tables, Sends
    <3>2. CASE run.at \in Sends
      <4>1. EndsAs("cut")
        BY <2>1, <2>15, <3>1, <3>2, Ended
      <4>2. QED
        BY <2>14, <3>1, <3>2, <4>1
    <3>3. CASE run.at \notin Sends
      <4>1. run'.at = "none" /\ run'.at \notin Sends
        BY <3>1 DEF NoUpload, Sends
      <4>2. ~MakesKey' /\ ~MakesRow'
        BY <4>1 DEF MakesKey, MakesRow
      <4>3. CountInv'
        BY <2>2, <3>1, <3>3, <4>2, CountsKept
      <4>4. CloudBound' /\ RunBound'
        BY <2>1, <3>1, <3>3, <4>1 DEF CloudBound, RunBound, Cap
      <4>5. QED
        BY <2>4, <3>1, <3>3, <4>3, <4>4 DEF TablesOK
    <3>4. QED
      BY <3>2, <3>3
  <2>18. ASSUME NEW p \in Paths, NEW c \in Contents, EditLocal(p, c) PROVE Good
    <3>1. /\ local' = [local EXCEPT ![p] = c]
          /\ UNCHANGED <<files, shards, nextId, cloud, run>>
          /\ \/ uploads' = uploads
             \/ run.at \in Sends /\ uploads' = [uploads EXCEPT ![run.key].torn = TRUE]
      BY <2>18 DEF EditLocal, tables, Sends
    <3>2. uploads' \in Seq(History) /\ Len(uploads') = Len(uploads)
      <4>1. CASE uploads' = uploads
        BY <2>4, <4>1 DEF TablesOK
      <4>2. CASE run.at \in Sends /\ uploads' = [uploads EXCEPT ![run.key].torn = TRUE]
        BY <2>1, <2>15, <4>2, MadeTorn DEF Torn
      <4>3. QED
        BY <3>1, <4>1, <4>2
    <3>3. CountInv'
      BY <2>2, <3>1, <3>2, CountsKept DEF MakesKey, MakesRow
    <3>4. CloudBound' /\ RunBound'
      BY <2>1, <3>1, <3>2 DEF CloudBound, RunBound, Cap
    <3>5. QED
      BY <2>4, <3>1, <3>2, <3>3, <3>4 DEF TablesOK
  <2>20. QED
    BY <2>2, <2>5, <2>6, <2>7, <2>8, <2>9, <2>10, <2>11, <2>12, <2>13, <2>16, <2>17, <2>18
       DEF Effect
<1>3. QED
  BY <1>1, <1>2

(* Every reachable state is well typed: the counters keep within their      *)
(* bounds, and no step makes more ids, keys or videos than the upload tasks *)
(* that were asked for allow (queue.go, db.go).                             *)
THEOREM TypeCorrect == Spec => []TypeOK
<1>1. TypeInv => TypeOK
  BY DEF TypeInv
<1>2. QED
  BY <1>1, TypeInit, TypeNext, PTL DEF Spec

-----------------------------------------------------------------------------
(* The steps of an upload, by what they do.                                *)

\* A new upload, on the rows the step leaves.
StartStep ==
  \E p \in Paths, c \in Contents :
    /\ run.at \notin Sends /\ Starts(p, c, files')
    /\ files' \subseteq files /\ UNCHANGED <<local, shards, nextId, cloud>>

VerifyStep ==
  /\ run.at \notin Sends /\ run'.at = "verify"
  /\ \E f \in files : run'.video = f.video
  /\ UNCHANGED <<local, files, shards, nextId, cloud, uploads>>

LinkStep ==
  /\ run.at = "verify" /\ run' = NoUpload
  /\ \E new : SavedAs(new, run.path, run.video, run.sha, NoKey)
  /\ UNCHANGED <<local, shards, cloud, uploads>>

SameUpload == run'.key = run.key /\ run'.path = run.path /\ run'.sha = run.sha

SendStep ==
  /\ run.at = "send" /\ SameUpload
  /\ run'.at = (IF run.pos = 0 THEN "file" ELSE "shard")
  /\ run'.pos = run.pos /\ run'.video = Len(cloud) + 1
  /\ Len(cloud') = Len(cloud) + 1 /\ cloud'[Len(cloud) + 1] = Sealed
  /\ \A v \in 1..Len(cloud) : cloud'[v] = cloud[v]
  /\ UNCHANGED <<local, files, shards, nextId, uploads>>

FileStep ==
  /\ run.at = "file" /\ run'.at = "shard" /\ SameUpload
  /\ run'.pos = run.pos /\ run'.video = run.video
  /\ \E new : SavedAs(new, Base[run.path], run.video, run.sha, run.key)
  /\ UNCHANGED <<local, shards, cloud, uploads>>

ShardStep ==
  /\ run.at = "shard"
  /\ \/ (\A f \in files : f.sha # run.sha) /\ shards' = shards
     \/ \E f \in files :
          /\ f.sha = run.sha /\ \A g \in files : g.sha = run.sha => f.id <= g.id
          /\ shards' = shards \cup {[file |-> f.id, video |-> run.video, pos |-> run.pos]}
  /\ \/ run.pos + 1 = Parts[run.sha] /\ run' = NoUpload /\ EndsAs("done")
     \/ /\ run.pos + 1 # Parts[run.sha] /\ run'.at = "send" /\ SameUpload
        /\ run'.pos = run.pos + 1 /\ uploads' = uploads
  /\ UNCHANGED <<local, files, nextId, cloud>>

CutStep ==
  /\ run' = NoUpload
  /\ IF run.at \in Sends THEN EndsAs("cut") ELSE uploads' = uploads
  /\ UNCHANGED <<local, files, shards, nextId, cloud>>

EditStep ==
  \E p \in Paths, c \in Contents :
    /\ local' = [local EXCEPT ![p] = c]
    /\ IF run.at \in Sends /\ run.path = p THEN Torn ELSE uploads' = uploads
    /\ UNCHANGED <<files, shards, nextId, cloud, run>>

UploadStep ==
  \/ StartStep \/ VerifyStep \/ LinkStep \/ SendStep \/ FileStep \/ ShardStep
  \/ CutStep \/ EditStep

\* What such a step leaves of the run, when it changes its at, pos or video.
RunAt(r, a)       == [r EXCEPT !.at = a]
RunVideo(r, a, v) == [r EXCEPT !.at = a, !.video = v]
RunPos(r, a, n)   == [r EXCEPT !.at = a, !.pos = n]

SameRun(s, r) == s.path = r.path /\ s.sha = r.sha /\ s.key = r.key

LEMMA RunKept ==
  ASSUME NEW r \in Running, r.at \in Sends, NEW a
  PROVE  /\ LET s == RunAt(r, a) IN
            SameRun(s, r) /\ s.at = a /\ s.pos = r.pos /\ s.video = r.video
         /\ \A v : LET s == RunVideo(r, a, v) IN
            SameRun(s, r) /\ s.at = a /\ s.pos = r.pos /\ s.video = v
         /\ \A n : LET s == RunPos(r, a, n) IN
            SameRun(s, r) /\ s.at = a /\ s.pos = n /\ s.video = r.video
<1>1. r \in [at : Sends, path : Paths, sha : Contents, key : Keys,
             pos : 0..(MaxParts - 1), video : Videos \cup {0}]
  BY DEF Running, Sends
<1>2. QED
  BY <1>1 DEF RunAt, RunVideo, RunPos, SameRun

LEMMA UploadSteps ==
  ASSUME TypeInv, QueueStep, Effect, ~Still, ~TrashStep, ~CloudStep
  PROVE  UploadStep
<1>1. TypeOK /\ RunBound
  BY DEF TypeInv
<1>2. run.at \in Sends => /\ run \in Running /\ run.key \in 1..Len(uploads)
                          /\ run.path \in Paths /\ run.sha \in Contents /\ run.key \in Keys
                          /\ run.pos \in Nat /\ run.pos < Parts[run.sha]
  <2>1. ASSUME run.at \in Sends PROVE run \in Running
    BY <1>1, <2>1 DEF TypeOK, NoUpload, Sends
  <2>2. ASSUME run.at \in Sends PROVE run.key \in 1..Len(uploads) /\ run.pos < Parts[run.sha]
    BY <1>1, <2>2, Numbers DEF RunBound
  <2>3. run \in Running \cup {NoUpload}
    BY <1>1 DEF TypeOK
  <2>4. QED
    BY <2>1, <2>2, <2>3, RunKinds
<1>3. CASE /\ queue # <<>> /\ BeginUpload(Head(queue))
  <2> DEFINE q == Head(queue)
             c == local[q.path]
  <2>1. Receive(q) /\ q.kind = "upload" /\ run = NoUpload
    BY <1>3 DEF BeginUpload, Receive
  <2>2. q \in Task /\ Waiting' + 1 <= Waiting
    BY <1>1, <2>1, Received
  <2>3. q.path \in Paths /\ c \in Contents
    BY <2>1, <2>2, <1>1, TaskKinds DEF TypeOK
  <2>4. UNCHANGED <<local, files, shards, nextId, cloud>> /\ run.at \notin Sends
    BY <1>3, <2>1 DEF BeginUpload, tables, NoUpload, Sends
  <2>5. CASE WithHash(c) = {}
    <3>1. StartShards(q.path, c, files)
      BY <1>3, <2>5 DEF BeginUpload
    <3>2. Len(uploads) < MaxUploads
      <4>1. Waiting > 0
        BY <2>2, <1>1, Numbers DEF QueueStep, Waiting
      <4>2. QED
        BY <4>1, Room0
    <3> HIDE DEF c, q
    <3>3. Starts(q.path, c, files)
      BY <1>1, <2>3, <3>1, <3>2, Started
    <3>4. QED
      BY <2>3, <2>4, <3>3 DEF StartStep, UploadStep
  <2>6. CASE WithHash(c) # {}
    <3>1. /\ run' = [at |-> "verify", path |-> q.path, sha |-> c,
                     found |-> FileByHash(c).id, video |-> FileByHash(c).video]
          /\ uploads' = uploads
      BY <1>3, <2>6 DEF BeginUpload
    <3> HIDE DEF c, q
    <3>2. FileByHash(c) \in files
      BY <1>1, <2>6, FirstRow DEF TypeOK
    <3>3. run'.at = "verify" /\ run'.video = FileByHash(c).video
      BY <3>1
    <3>4. QED
      BY <2>4, <3>1, <3>2, <3>3 DEF VerifyStep, UploadStep
  <2>7. QED
    BY <2>5, <2>6
<1>4. CASE LinkExisting
  <2>1. /\ run.at = "verify" /\ run' = NoUpload
        /\ SaveFileWithKey(run.path, run.video, run.sha, NoKey)
        /\ UNCHANGED <<local, shards, cloud, uploads>>
    BY <1>4 DEF LinkExisting
  <2>2. run.path \in Names /\ run.video \in Videos /\ run.sha \in Contents
    BY <2>1, <1>1, RunKinds DEF TypeOK, Names
  <2>3. NoKey \in Keys \cup {NoKey} /\ nextId <= MaxUploads
    BY <2>1, Room0
  <2>4. \E new : SavedAs(new, run.path, run.video, run.sha, NoKey)
    BY <1>1, <2>1, <2>2, <2>3, Upsert
  <2>5. QED
    BY <2>1, <2>4 DEF LinkStep, UploadStep
<1>5. CASE PurgeStale
  <2>1. /\ run.at = "verify" /\ StartShards(run.path, run.sha, files')
        /\ files' \subseteq files /\ UNCHANGED <<local, shards, nextId, cloud>>
    BY <1>5 DEF PurgeStale
  <2>2. run.path \in Paths /\ run.sha \in Contents
    BY <2>1, <1>1, RunKinds DEF TypeOK
  <2>3. Starts(run.path, run.sha, files')
    BY <1>1, <2>1, <2>2, Room0, Started
  <2>4. run.at \notin Sends
    BY <2>1 DEF Sends
  <2>5. QED
    BY <2>1, <2>2, <2>3, <2>4 DEF StartStep, UploadStep
<1>6. CASE SendShard
  <2> DEFINE a == IF run.pos = 0 THEN "file" ELSE "shard"
             v == Len(cloud) + 1
  <2>1. /\ run.at = "send" /\ run.at \in Sends /\ cloud' = Append(cloud, Sealed)
        /\ UNCHANGED <<local, files, shards, nextId, uploads>>
    BY <1>6 DEF SendShard, tables, Sends
  <2>2. run' = [run EXCEPT !.at = a, !.video = v]
    BY <1>6 DEF SendShard
  <2> HIDE DEF a, v
  <2>3. SameUpload /\ run'.at = a /\ run'.pos = run.pos /\ run'.video = v
    <3>1. run \in Running /\ run.at \in Sends
      BY <1>2, <2>1
    <3>2. run' = RunVideo(run, a, v)
      BY <2>2 DEF RunVideo
    <3>3. QED
      BY <3>1, <3>2, RunKept DEF SameUpload, SameRun
  <2>4. Sealed \in Video
    BY <1>2, <2>1, <1>1, RunKinds DEF Sealed, TypeOK, Video, Data
  <2>5. /\ Len(cloud') = Len(cloud) + 1 /\ cloud'[Len(cloud) + 1] = Sealed
        /\ \A w \in 1..Len(cloud) : cloud'[w] = cloud[w]
    <3> HIDE DEF Sealed
    <3>1. cloud \in Seq(Video)
      BY <1>1 DEF TypeOK
    <3>2. QED
      BY <3>1, <2>1, <2>4
  <2>6. QED
    BY <2>1, <2>3, <2>5 DEF SendStep, UploadStep, a, v
<1>7. CASE RecordFile
  <2>1. /\ run.at = "file" /\ run.at \in Sends
        /\ SaveFileWithKey(Base[run.path], run.video, run.sha, run.key)
        /\ run' = [run EXCEPT !.at = "shard"]
        /\ UNCHANGED <<local, shards, cloud, uploads>>
    BY <1>7 DEF RecordFile, Sends
  <2>2. run.pos = 0 /\ run.video \in 1..Len(cloud) /\ nextId <= MaxUploads
    BY <1>1, <2>1, Room0 DEF RunBound
  <2>3. Base[run.path] \in Names /\ run.video \in Videos
    BY <2>1, <1>2, <2>2, <1>1, RunKinds, Numbers DEF Names
  <2>4. \E new : SavedAs(new, Base[run.path], run.video, run.sha, run.key)
    BY <1>1, <1>2, <2>1, <2>2, <2>3, Upsert
  <2>5. /\ SameUpload /\ run'.at = "shard"
        /\ run'.pos = run.pos /\ run'.video = run.video
    <3>1. run \in Running /\ run.at \in Sends
      BY <1>2, <2>1
    <3>2. run' = RunAt(run, "shard")
      BY <2>1 DEF RunAt
    <3>3. QED
      BY <3>1, <3>2, RunKept DEF SameUpload, SameRun
  <2>6. QED
    BY <2>1, <2>4, <2>5 DEF FileStep, UploadStep
<1>8. CASE RecordShard
  <2>1. /\ run.at = "shard" /\ run.at \in Sends
        /\ UNCHANGED <<local, files, nextId, cloud>>
    BY <1>8 DEF RecordShard, Sends
  <2>2. \/ (\A f \in files : f.sha # run.sha) /\ shards' = shards
        \/ \E f \in files :
             /\ f.sha = run.sha /\ \A g \in files : g.sha = run.sha => f.id <= g.id
             /\ shards' = shards \cup {[file |-> f.id, video |-> run.video, pos |-> run.pos]}
    <3>1. CASE WithHash(run.sha) = {}
      BY <1>8, <3>1 DEF RecordShard, WithHash
    <3>2. CASE WithHash(run.sha) # {}
      <4>1. /\ FileByHash(run.sha) \in files /\ FileByHash(run.sha).sha = run.sha
            /\ \A g \in files : g.sha = run.sha => FileByHash(run.sha).id <= g.id
        BY <1>1, <3>2, FirstRow DEF TypeOK
      <4>2. shards' = shards \cup {[file |-> FileByHash(run.sha).id,
                                    video |-> run.video, pos |-> run.pos]}
        BY <1>8, <3>2 DEF RecordShard
      <4>3. QED
        BY <4>1, <4>2
    <3>3. QED
      BY <3>1, <3>2
  <2>3. \/ run.pos + 1 = Parts[run.sha] /\ run' = NoUpload /\ EndsAs("done")
        \/ /\ run.pos + 1 # Parts[run.sha] /\ run'.at = "send" /\ SameUpload
           /\ run'.pos = run.pos + 1 /\ uploads' = uploads
    <3>1. CASE run.pos + 1 = Parts[run.sha]
      <4>1. run' = NoUpload /\ uploads' = [uploads EXCEPT ![run.key].state = "done"]
        BY <1>8, <3>1 DEF RecordShard
      <4>2. QED
        BY <1>1, <1>2, <2>1, <3>1, <4>1, Ended
    <3>2. CASE run.pos + 1 # Parts[run.sha]
      <4> DEFINE n == run.pos + 1
      <4>1. run' = [run EXCEPT !.at = "send", !.pos = n] /\ uploads' = uploads
        BY <1>8, <3>2 DEF RecordShard
      <4> HIDE DEF n
      <4>2. SameUpload /\ run'.at = "send" /\ run'.pos = n
        <5>1. run \in Running /\ run.at \in Sends
          BY <1>2, <2>1
        <5>2. run' = RunPos(run, "send", n)
          BY <4>1 DEF RunPos
        <5>3. QED
          BY <5>1, <5>2, RunKept DEF SameUpload, SameRun
      <4>3. QED
        BY <3>2, <4>1, <4>2 DEF n
    <3>3. QED
      BY <3>1, <3>2
  <2>4. QED
    BY <2>1, <2>2, <2>3 DEF ShardStep, UploadStep
<1>9. CASE FailUpload
  <2>1. /\ run.at \in Sends /\ run' = NoUpload
        /\ uploads' = [uploads EXCEPT ![run.key].state = "cut"]
        /\ UNCHANGED <<local, files, shards, nextId, cloud>>
    BY <1>9 DEF FailUpload, tables, Sends
  <2>2. EndsAs("cut")
    BY <1>1, <1>2, <2>1, Ended
  <2>3. QED
    BY <2>1, <2>2 DEF CutStep, UploadStep
<1>10. CASE Crash
  <2>1. /\ run' = NoUpload /\ UNCHANGED <<local, files, shards, nextId, cloud>>
        /\ uploads' = IF run.at \in Sends
                      THEN [uploads EXCEPT ![run.key].state = "cut"] ELSE uploads
    BY <1>10 DEF Crash, tables, Sends
  <2>2. run.at \in Sends => EndsAs("cut")
    BY <1>1, <1>2, <2>1, Ended
  <2>3. QED
    BY <2>1, <2>2 DEF CutStep, UploadStep
<1>11. ASSUME NEW p \in Paths, NEW c \in Contents, EditLocal(p, c) PROVE UploadStep
  <2>1. /\ local' = [local EXCEPT ![p] = c]
        /\ UNCHANGED <<files, shards, nextId, cloud, run>>
        /\ uploads' = IF run.at \in Sends /\ run.path = p
                      THEN [uploads EXCEPT ![run.key].torn = TRUE] ELSE uploads
    BY <1>11 DEF EditLocal, tables, Sends
  <2>2. run.at \in Sends /\ run.path = p => Torn
    BY <1>1, <1>2, <2>1, MadeTorn
  <2>3. QED
    BY <2>1, <2>2 DEF EditStep, UploadStep
<1>12. QED
  BY <1>3, <1>4, <1>5, <1>6, <1>7, <1>8, <1>9, <1>10, <1>11 DEF Effect

LEMMA Steps ==
  ASSUME TypeInv, [Next]_vars
  PROVE  KnownDownloads /\ (Still \/ TrashStep \/ CloudStep \/ UploadStep)
<1>1. CASE Next
  BY <1>1, QueueSteps, Effects, UploadSteps DEF TypeInv, QueueStep
<1>2. CASE UNCHANGED vars
  BY <1>2 DEF vars, tables, tasks, KnownDownloads, Still
<1>3. QED
  BY <1>1, <1>2

-----------------------------------------------------------------------------
(* The rows and their videos.                                              *)

\* No step changes what is in a video, under which key, or what was hashed.
Grown ==
  /\ Len(cloud) <= Len(cloud') /\ Len(uploads) <= Len(uploads') /\ nextId <= nextId'
  /\ \A v \in 1..Len(cloud) : cloud'[v].data = cloud[v].data /\ cloud'[v].key = cloud[v].key
  /\ \A k \in 1..Len(uploads) : /\ uploads'[k].sha = uploads[k].sha
                                /\ uploads[k].torn => uploads'[k].torn
                                /\ uploads'[k].clean => uploads[k].clean

LEMMA Grows ==
  ASSUME TypeInv, Still \/ TrashStep \/ CloudStep \/ UploadStep
  PROVE  Grown
<1>0. Len(cloud) \in Nat /\ Len(uploads) \in Nat /\ nextId \in Nat
  BY Numbers DEF TypeInv
<1>1. CASE Still
  BY <1>0, <1>1 DEF Still, Grown
<1>2. CASE TrashStep
  BY <1>0, <1>2 DEF TrashStep, Grown
<1>3. CASE CloudStep
  BY <1>0, <1>3 DEF CloudStep, Grown
<1>4. CASE StartStep
  <2>1. PICK p \in Paths, c \in Contents : Starts(p, c, files')
    BY <1>4 DEF StartStep
  <2>2. UNCHANGED <<nextId, cloud>>
    BY <1>4 DEF StartStep
  <2>3. QED
    BY <1>0, <2>1, <2>2 DEF Starts, Grown
<1>5. CASE VerifyStep
  BY <1>0, <1>5 DEF VerifyStep, Grown
<1>6. ASSUME NEW new, NEW p, NEW v, NEW c, NEW k, SavedAs(new, p, v, c, k) PROVE nextId <= nextId'
  BY <1>0, <1>6 DEF SavedAs
<1>7. CASE LinkStep
  BY <1>0, <1>6, <1>7 DEF LinkStep, Grown
<1>8. CASE SendStep
  BY <1>0, <1>8 DEF SendStep, Grown
<1>9. CASE FileStep
  BY <1>0, <1>6, <1>9 DEF FileStep, Grown
<1>10. CASE ShardStep
  BY <1>0, <1>10 DEF ShardStep, EndsAs, Grown
<1>11. CASE CutStep
  BY <1>0, <1>11 DEF CutStep, EndsAs, Grown
<1>12. CASE EditStep
  <2>1. Torn => \A k \in 1..Len(uploads) : uploads[k].torn => uploads'[k].torn
    BY DEF Torn
  <2>2. QED
    BY <1>0, <1>12, <2>1 DEF EditStep, Torn, Grown
<1>13. QED
  BY <1>1, <1>2, <1>3, <1>4, <1>5, <1>7, <1>8, <1>9, <1>10, <1>11, <1>12 DEF UploadStep

LEMMA RowsLast ==
  ASSUME TypeInv, TypeInv', Grown
  PROVE  /\ \A v : First(v) => First(v)'
         /\ \A f \in File : RowOk(f) => RowOk(f)'
<1>0. /\ Len(cloud) \in Nat /\ Len(uploads) \in Nat /\ nextId \in Nat
      /\ Len(cloud') \in Nat /\ Len(uploads') \in Nat /\ nextId' \in Nat
  BY Numbers, SMTT(30) DEF TypeInv, TypeOK
<1>1. ASSUME NEW v, First(v) PROVE First(v)'
  BY <1>0, <1>1 DEF First, Grown
<1>2. ASSUME NEW f \in File, RowOk(f) PROVE RowOk(f)'
  <2>1. f.id < nextId'
    BY <1>0, <1>2 DEF RowOk, Grown, File, Ids
  <2>2. First(f.video)'
    BY <1>1, <1>2 DEF RowOk
  <2>3. ASSUME f.key # NoKey
        PROVE  /\ f.key \in 1..Len(uploads') /\ cloud'[f.video].key = f.key
               /\ uploads'[f.key].sha = f.sha
    BY <1>0, <1>2, <2>3, SMTT(30) DEF RowOk, First, Grown
  <2>4. QED
    BY <2>1, <2>2, <2>3 DEF RowOk
<1>3. QED
  BY <1>1, <1>2

LEMMA RowInit == Init => RowInv
  BY DEF Init, RowInv, UniqueRows, RowsOk, QueueOk, FoundOk, NoUpload

\* A row that is saved keeps the ids and the paths apart.
LEMMA SavedUnique ==
  ASSUME TypeInv, RowInv, NEW p, NEW v, NEW c, NEW k, NEW new, SavedAs(new, p, v, c, k)
  PROVE  UniqueRows' /\ new.id < nextId'
<1>1. files \subseteq File /\ nextId \in Nat /\ UniqueRows
  BY Numbers DEF TypeInv, TypeOK, RowInv
<1>2. \A f \in files : f.id < nextId /\ f.id \in Nat
  BY <1>1 DEF RowInv, RowsOk, RowOk, File, Ids
<1>3. \A f \in files : f.path # p => f.id # new.id
  BY <1>1, <1>2 DEF SavedAs, UniqueRows
<1>4. new.id < nextId'
  BY <1>1, <1>2 DEF SavedAs
<1>5. /\ files' = {f \in files : f.path # p} \cup {new} /\ new.path = p
  BY DEF SavedAs
<1>6. UniqueRows'
  BY <1>1, <1>3, <1>5 DEF UniqueRows
<1>7. QED
  BY <1>4, <1>6

LEMMA RowNext == TypeInv /\ TypeInv' /\ RowInv /\ VideoInv /\ [Next]_vars => RowInv'
<1> SUFFICES ASSUME TypeInv, TypeInv', RowInv, VideoInv, [Next]_vars PROVE RowInv'
  OBVIOUS
<1>1. KnownDownloads /\ (Still \/ TrashStep \/ CloudStep \/ UploadStep)
  BY Steps
<1>2. Grown
  BY <1>1, Grows
<1>3. /\ \A v : First(v) => First(v)'
      /\ \A f \in File : RowOk(f) => RowOk(f)'
  BY <1>2, RowsLast
<1>4. files \subseteq File /\ files' \subseteq File /\ UniqueRows /\ \A f \in files : RowOk(f)
  BY DEF TypeInv, TypeOK, RowInv, RowsOk
<1>5. QueueOk'
  <2>1. ASSUME NEW i \in 1..Len(queue'), NEW x, x = queue'[i], x.kind = "download"
        PROVE  First(x.video)'
    <3>1. CASE \E j \in 1..Len(queue) : x = queue[j]
      <4>1. First(x.video)
        BY <2>1, <3>1 DEF RowInv, QueueOk
      <4>2. QED
        BY <4>1, <1>3
    <3>2. CASE \E f \in files : x.video = f.video
      BY <3>2, <1>3, <1>4 DEF RowOk
    <3>3. QED
      BY <1>1, <2>1, <3>1, <3>2 DEF KnownDownloads
  <2>2. QED
    BY <2>1 DEF QueueOk, First
<1>5a. SUFFICES UniqueRows' /\ RowsOk' /\ FoundOk'
  BY <1>5 DEF RowInv
<1>6. ASSUME files' = files PROVE UniqueRows' /\ RowsOk'
  BY <1>3, <1>4, <1>6 DEF UniqueRows, RowsOk
<1>7. ASSUME run' = run PROVE FoundOk'
  <2>1. ASSUME NEW v, v = run.video, run.at = "verify" PROVE First(v)'
    BY <1>3, <2>1 DEF RowInv, FoundOk
  <2>2. QED
    BY <1>7, <2>1 DEF FoundOk, First
<1>8. ASSUME run'.at # "verify" PROVE FoundOk'
  BY <1>8 DEF FoundOk
<1>9. CASE Still \/ CloudStep
  BY <1>6, <1>7, <1>9 DEF Still, CloudStep
<1>10. CASE TrashStep
  <2>1. ASSUME NEW g \in files' PROVE RowOk(g)'
    <3>1. PICK f \in files : SameRow(f, g)
      BY <1>10 DEF TrashStep
    <3>2. RowOk(f)'
      BY <1>3, <1>4
    <3>3. QED
      BY <3>1, <3>2 DEF SameRow, RowOk
  <2>2. UniqueRows'
    BY <1>4, <1>10 DEF TrashStep
  <2>3. QED
    BY <1>7, <1>10, <2>1, <2>2 DEF TrashStep, RowsOk
<1>11. CASE StartStep
  <2>1. files' \subseteq files
    BY <1>11 DEF StartStep
  <2>2. UniqueRows' /\ RowsOk'
    BY <1>3, <1>4, <2>1 DEF UniqueRows, RowsOk
  <2>3. run'.at # "verify"
    BY <1>11 DEF StartStep, Starts
  <2>4. QED
    BY <1>8, <2>2, <2>3
<1>12. CASE VerifyStep
  <2>1. ASSUME NEW v, v = run'.video PROVE First(v)'
    <3>1. PICK f \in files : v = f.video
      BY <1>12, <2>1 DEF VerifyStep
    <3>2. QED
      BY <3>1, <1>3, <1>4 DEF RowOk
  <2>2. FoundOk'
    BY <2>1 DEF FoundOk, First
  <2>3. QED
    BY <1>6, <1>12, <2>2 DEF VerifyStep
<1>13. ASSUME NEW p, NEW v, NEW c, NEW k, NEW new, SavedAs(new, p, v, c, k), First(v),
              k # NoKey => /\ k \in 1..Len(uploads) /\ cloud[v].key = k
                           /\ uploads[k].sha = c
       PROVE  UniqueRows' /\ RowsOk'
  <2>1. UniqueRows' /\ new.id < nextId'
    BY <1>13, SavedUnique
  <2>2. /\ new \in File /\ new.video = v /\ new.sha = c /\ new.key = k
        /\ files' = {f \in files : f.path # p} \cup {new}
    BY <1>13 DEF SavedAs
  <2>3. First(v)'
    BY <1>3, <1>13
  <2>4. k # NoKey => /\ k \in 1..Len(uploads') /\ cloud'[v].key = k
                     /\ uploads'[k].sha = c
    <3>1. /\ Len(uploads) \in Nat /\ Len(uploads') \in Nat
      BY Numbers DEF TypeInv, TypeOK
    <3>2. QED
      BY <1>2, <1>13, <3>1 DEF Grown, First
  <2>5. RowOk(new)'
    BY <2>1, <2>2, <2>3, <2>4 DEF RowOk
  <2>6. QED
    BY <1>3, <1>4, <2>1, <2>2, <2>5 DEF RowsOk
<1>14. CASE LinkStep
  <2>1. PICK new : SavedAs(new, run.path, run.video, run.sha, NoKey)
    BY <1>14 DEF LinkStep
  <2>2. First(run.video)
    BY <1>14 DEF LinkStep, RowInv, FoundOk
  <2>3. run'.at # "verify"
    BY <1>14 DEF LinkStep, NoUpload
  <2>4. QED
    BY <1>8, <1>13, <2>1, <2>2, <2>3
<1>15. CASE SendStep
  BY <1>6, <1>8, <1>15 DEF SendStep
<1>16. CASE FileStep
  <2>1. PICK new : SavedAs(new, Base[run.path], run.video, run.sha, run.key)
    BY <1>16 DEF FileStep
  <2>2. run.at = "file" /\ run.at \in Sends /\ run.at \in {"file", "shard"}
    BY <1>16 DEF FileStep, Sends
  <2>3. /\ run.key = Len(uploads) /\ run.key > 0 /\ run.pos = 0 /\ run.video \in 1..Len(cloud)
        /\ uploads[run.key].sha = run.sha
        /\ cloud[run.video].key = run.key /\ cloud[run.video].data[2] = run.pos
    BY <2>2 DEF TypeInv, RunBound, VideoInv, SealOk
  <2>4. First(run.video) /\ run.key \in 1..Len(uploads)
    BY <2>3, Numbers DEF First, TypeInv
  <2>5. run'.at # "verify"
    BY <1>16 DEF FileStep
  <2>6. QED
    BY <1>8, <1>13, <2>1, <2>3, <2>4, <2>5
<1>17. CASE ShardStep
  <2>1. run'.at # "verify"
    BY <1>17 DEF ShardStep, NoUpload
  <2>2. QED
    BY <1>6, <1>8, <1>17, <2>1 DEF ShardStep
<1>18. CASE CutStep
  <2>1. run'.at # "verify"
    BY <1>18 DEF CutStep, NoUpload
  <2>2. QED
    BY <1>6, <1>8, <1>18, <2>1 DEF CutStep
<1>19. CASE EditStep
  BY <1>6, <1>7, <1>19 DEF EditStep
<1>20. QED
  BY <1>1, <1>9, <1>10, <1>11, <1>12, <1>14, <1>15, <1>16, <1>17, <1>18, <1>19
     DEF UploadStep

LEMMA VideoInit == Init => VideoInv
<1> SUFFICES ASSUME Init PROVE VideoInv
  OBVIOUS
<1>1. Len(cloud) = 0 /\ shards = {} /\ run.at \notin Sends
  BY DEF Init, NoUpload, Sends
<1>2. QED
  BY <1>1 DEF VideoInv, VideosOk, ShardsOk, SealOk

LEMMA VideoNext == TypeInv /\ TypeInv' /\ RowInv /\ VideoInv /\ [Next]_vars => VideoInv'
<1> SUFFICES ASSUME TypeInv, TypeInv', RowInv, VideoInv, [Next]_vars PROVE VideoInv'
  OBVIOUS
<1>1. Still \/ TrashStep \/ CloudStep \/ UploadStep
  BY Steps
<1>2. Grown
  BY <1>1, Grows
<1>3. /\ Len(cloud) \in Nat /\ Len(uploads) \in Nat /\ nextId \in Nat
      /\ Len(cloud') \in Nat /\ Len(uploads') \in Nat /\ nextId' \in Nat
  BY Numbers, SMTT(30) DEF TypeInv, TypeOK
<1>4. ASSUME NEW v \in 1..Len(cloud) PROVE VideoOk(v)'
  <2>1. VideoOk(v)
    BY DEF VideoInv, VideosOk
  <2>2. cloud'[v].key \in 1..Len(uploads')
    BY <1>2, <1>3, <2>1 DEF VideoOk, Grown
  <2>3. ~uploads'[cloud'[v].key].torn => cloud'[v].data[1] = uploads'[cloud'[v].key].sha
    BY <1>2, <2>1 DEF VideoOk, Grown
  <2>4. QED
    BY <2>2, <2>3 DEF VideoOk
<1>5. ASSUME Len(cloud') = Len(cloud) PROVE VideosOk'
  BY <1>4, <1>5 DEF VideosOk
<1>6. ASSUME NEW s \in Shard, ShardOk(s) PROVE ShardOk(s)'
  <2>1. s.file < nextId' /\ s.video \in 1..Len(cloud')
    BY <1>2, <1>3, <1>6 DEF ShardOk, Grown, Shard, Ids
  <2>2. cloud'[s.video].data[2] = s.pos
    BY <1>2, <1>6 DEF ShardOk, Grown
  <2>3. QED
    BY <2>1, <2>2 DEF ShardOk
<1>7. ASSUME shards' = shards PROVE ShardsOk'
  BY <1>6, <1>7 DEF ShardsOk, VideoInv, TypeInv, TypeOK
<1>8. ASSUME run'.at \notin Sends PROVE SealOk'
  BY <1>8 DEF SealOk
<1>9. ASSUME run' = run, uploads' = uploads, local' = local PROVE SealOk'
  <2>1. run.at \in {"file", "shard"} => run.video \in 1..Len(cloud)
    BY DEF TypeInv, RunBound, Sends
  <2>2. QED
    BY <1>2, <1>9, <2>1 DEF SealOk, VideoInv, Grown
<1>10. CASE Still \/ TrashStep \/ CloudStep
  BY <1>5, <1>7, <1>9, <1>10 DEF Still, TrashStep, CloudStep, VideoInv
<1>11. CASE StartStep
  <2>1. PICK p \in Paths, c \in Contents : Starts(p, c, files')
    BY <1>11 DEF StartStep
  <2>2. SealOk'
    <3>1. run'.at \notin {"file", "shard"}
      BY <2>1 DEF Starts
    <3>2. local' = local
      BY <1>11 DEF StartStep
    <3>3. QED
      BY <2>1, <3>1, <3>2 DEF Starts, SealOk
  <2>3. QED
    BY <1>5, <1>7, <1>11, <2>2 DEF StartStep, VideoInv
<1>12. CASE VerifyStep
  <2>1. run'.at \notin Sends
    BY <1>12 DEF VerifyStep, Sends
  <2>2. QED
    BY <1>5, <1>7, <1>8, <1>12, <2>1 DEF VerifyStep, VideoInv
<1>13. CASE LinkStep
  <2>1. run'.at \notin Sends
    BY <1>13 DEF LinkStep, NoUpload, Sends
  <2>2. QED
    BY <1>5, <1>7, <1>8, <1>13, <2>1 DEF LinkStep, VideoInv
<1>14. CASE CutStep
  <2>1. run'.at \notin Sends
    BY <1>14 DEF CutStep, NoUpload, Sends
  <2>2. QED
    BY <1>5, <1>7, <1>8, <1>14, <2>1 DEF CutStep, VideoInv
<1>15. CASE SendStep
  <2> DEFINE v == Len(cloud) + 1
  <2>1. /\ Sealed.data[1] = local[run.path] /\ Sealed.data[2] = run.pos /\ Sealed.key = run.key
        /\ cloud'[v] = Sealed /\ Len(cloud') = Len(cloud) + 1 /\ uploads' = uploads
        /\ local' = local /\ shards' = shards
    BY <1>15 DEF Sealed, SendStep
  <2>2. run.at = "send" /\ run.at \in Sends
    BY <1>15 DEF SendStep, Sends
  <2>3. /\ run.key \in 1..Len(uploads) /\ uploads[run.key].sha = run.sha
        /\ uploads[run.key].state = "running"
        /\ ~uploads[run.key].torn => local[run.path] = run.sha
    BY <1>3, <2>2 DEF TypeInv, RunBound, VideoInv, SealOk
  <2>5. VideosOk'
    <3>1. ASSUME NEW w \in 1..Len(cloud') PROVE VideoOk(w)'
      <4>1. w \in 1..Len(cloud) \/ w = v
        BY <1>3, <2>1
      <4>2. w = v => VideoOk(w)'
        <5>1. cloud'[v].key = run.key /\ cloud'[v].data[1] = local[run.path]
          BY <2>1
        <5>2. QED
          BY <2>1, <2>3, <5>1 DEF VideoOk
      <4>3. QED
        BY <1>4, <4>1, <4>2
    <3>2. QED
      BY <3>1 DEF VideosOk
  <2>6. SealOk'
    <3>1. /\ run'.video = v /\ run'.pos = run.pos /\ run'.key = run.key /\ run'.sha = run.sha
          /\ run'.path = run.path
      BY <1>15 DEF SendStep, SameUpload
    <3>2. cloud'[v].key = run.key /\ cloud'[v].data[2] = run.pos
      BY <2>1
    <3> HIDE DEF v
    <3>3. QED
      BY <2>1, <2>3, <3>1, <3>2 DEF SealOk
  <2>7. QED
    BY <1>7, <2>1, <2>5, <2>6 DEF VideoInv
<1>16. CASE FileStep
  <2>1. run.at = "file" /\ run.at \in Sends /\ run.at \in {"file", "shard"}
    BY <1>16 DEF FileStep, Sends
  <2>2. SealOk'
    BY <1>16, <2>1 DEF FileStep, SameUpload, SealOk, VideoInv
  <2>3. QED
    BY <1>5, <1>7, <1>16, <2>2 DEF FileStep, VideoInv
<1>17. CASE ShardStep
  <2>1. run.at = "shard" /\ run.at \in Sends /\ run.at \in {"file", "shard"}
    BY <1>17 DEF ShardStep, Sends
  <2>2. ShardsOk'
    <3>1. CASE shards' = shards
      BY <1>7, <3>1
    <3>2. ASSUME NEW f \in files,
                 shards' = shards \cup {[file |-> f.id, video |-> run.video, pos |-> run.pos]}
          PROVE  ShardsOk'
      <4> DEFINE s == [file |-> f.id, video |-> run.video, pos |-> run.pos]
      <4>1. f.id < nextId
        BY DEF RowInv, RowsOk, RowOk
      <4>2. run.video \in 1..Len(cloud) /\ cloud[run.video].data[2] = run.pos
        BY <2>1 DEF TypeInv, RunBound, VideoInv, SealOk
      <4>3. ShardOk(s)
        BY <4>1, <4>2 DEF ShardOk
      <4>4. shards \subseteq Shard /\ shards' \subseteq Shard /\ shards' = shards \cup {s}
        BY <3>2 DEF TypeInv, TypeOK
      <4> HIDE DEF s
      <4>5. ASSUME NEW r \in shards' PROVE ShardOk(r)'
        <5>1. ShardOk(r)
          BY <4>3, <4>4 DEF VideoInv, ShardsOk
        <5>2. QED
          BY <1>6, <4>4, <5>1
      <4>6. QED
        BY <4>5 DEF ShardsOk
    <3>3. QED
      BY <1>17, <3>1, <3>2 DEF ShardStep
  <2>3. SealOk'
    <3>1. CASE run' = NoUpload
      <4>1. run'.at \notin Sends
        BY <3>1 DEF NoUpload, Sends
      <4>2. QED
        BY <1>8, <4>1
    <3>2. CASE run'.at = "send" /\ SameUpload /\ uploads' = uploads
      <4>1. run'.at \notin {"file", "shard"} /\ local' = local
        BY <1>17, <3>2 DEF ShardStep
      <4>2. QED
        BY <2>1, <3>2, <4>1 DEF SealOk, SameUpload, VideoInv
    <3>3. QED
      BY <1>17, <3>1, <3>2 DEF ShardStep
  <2>4. cloud' = cloud
    BY <1>17 DEF ShardStep
  <2>5. QED
    BY <1>5, <2>2, <2>3, <2>4 DEF VideoInv
<1>18. CASE EditStep
  <2>1. PICK p \in Paths, c \in Contents :
          /\ local' = [local EXCEPT ![p] = c]
          /\ IF run.at \in Sends /\ run.path = p THEN Torn ELSE uploads' = uploads
          /\ UNCHANGED <<files, shards, nextId, cloud, run>>
    BY <1>18 DEF EditStep
  <2>2. ASSUME run.at \in Sends
        PROVE  /\ uploads'[run.key].sha = run.sha /\ uploads'[run.key].state = "running"
               /\ ~uploads'[run.key].torn => local'[run.path] = run.sha
    <3>1. /\ run.key \in 1..Len(uploads) /\ uploads[run.key].sha = run.sha
          /\ uploads[run.key].state = "running"
          /\ ~uploads[run.key].torn => local[run.path] = run.sha
      BY <1>3, <2>2 DEF TypeInv, RunBound, VideoInv, SealOk
    <3>2. CASE run.path = p
      BY <2>1, <2>2, <3>1, <3>2 DEF Torn
    <3>3. CASE run.path # p
      <4>1. run.path \in Paths
        BY <2>2, RunKinds DEF TypeInv, TypeOK
      <4>2. local'[run.path] = local[run.path]
        BY <2>1, <3>3, <4>1 DEF TypeInv, TypeOK
      <4>3. uploads' = uploads
        BY <2>1, <3>3
      <4>4. QED
        BY <3>1, <4>2, <4>3
    <3>4. QED
      BY <3>2, <3>3
  <2>3. SealOk'
    BY <2>1, <2>2 DEF SealOk, VideoInv
  <2>4. QED
    BY <1>5, <1>7, <2>1, <2>3 DEF VideoInv
<1>20. QED
  BY <1>1, <1>10, <1>11, <1>12, <1>13, <1>14, <1>15, <1>16, <1>17, <1>18 DEF UploadStep

(* A row with a key names the first part, under that very key, of the       *)
(* content it claims (queue.go:818-827).                                    *)
THEOREM RowNamesItsVideoHolds == Spec => []RowNamesItsVideo
<1> DEFINE Inv == TypeInv /\ RowInv /\ VideoInv
<1>1. Init => Inv
  BY TypeInit, RowInit, VideoInit
<1>2. Inv /\ [Next]_vars => Inv'
  BY TypeNext, RowNext, VideoNext
<1>3. Inv => RowNamesItsVideo
  <2> SUFFICES ASSUME Inv, NEW f \in files, f.key # NoKey
               PROVE  /\ f.video \in 1..Len(cloud) /\ f.key \in 1..Len(uploads)
                      /\ cloud[f.video].key = f.key
                      /\ cloud[f.video].data[2] = 0
                      /\ uploads[f.key].sha = f.sha
                      /\ ~uploads[f.key].torn => cloud[f.video].data[1] = f.sha
    BY DEF RowNamesItsVideo
  <2>1. RowOk(f)
    BY DEF RowInv, RowsOk
  <2>2. f.video \in 1..Len(cloud)
    BY <2>1 DEF RowOk, First
  <2>3. VideoOk(f.video)
    BY <2>2 DEF VideoInv, VideosOk
  <2>4. QED
    BY <2>1, <2>2, <2>3 DEF RowOk, First, VideoOk
<1>4. QED
  BY <1>1, <1>2, <1>3, PTL DEF Spec

-----------------------------------------------------------------------------
(* The shards of a file that was uploaded whole.                           *)
LEMMA HasLasts ==
  ASSUME Grown, ShardsOk, NEW f, NEW g, NEW n, f.id = g.id, f.key = g.key,
         shards \subseteq shards', \A s \in shards' : s.file = f.id => s \in shards,
         Has(f, n)
  PROVE  Has(g, n)'
<1> DEFINE rows == {s \in shards : s.file = f.id}
<1>1. {s \in shards' : s.file = g.id} = rows
  OBVIOUS
<1>2. \A s \in rows : cloud'[s.video].key = cloud[s.video].key
  BY DEF Grown, ShardsOk, ShardOk
<1>3. /\ {s.pos : s \in rows} = 0..(n - 1)
      /\ \A s \in rows : cloud[s.video].key = f.key
      /\ \A s, r \in rows : s.pos = r.pos => s = r
  BY DEF Has
<1> HIDE DEF rows
<1>4. /\ {s.pos : s \in rows} = 0..(n - 1)
      /\ \A s \in rows : cloud'[s.video].key = g.key
      /\ \A s, r \in rows : s.pos = r.pos => s = r
  BY <1>2, <1>3
<1>5. QED
  BY <1>1, <1>4 DEF Has

LEMMA WholeInit == Init => WholeInv
<1> SUFFICES ASSUME Init PROVE WholeInv
  OBVIOUS
<1>1. files = {} /\ run.at \notin Sends
  BY DEF Init, NoUpload, Sends
<1>2. QED
  BY <1>1 DEF WholeInv, OwnOk, LastOk, DoneOk

\* Rows that a step keeps, up to the trash, when it records no shard and ends
\* no upload well.
LEMMA DoneKept ==
  ASSUME TypeInv, RowInv, VideoInv, WholeInv, Grown, shards' = shards,
         \A g \in files' : \/ \E f \in files : SameRow(f, g)
                           \/ ~CleanDone(g)',
         \A k \in 1..Len(uploads) : uploads'[k].state = "done" => uploads[k].state = "done"
  PROVE  DoneOk'
<1>1. ASSUME NEW g \in files', CleanDone(g)' PROVE Has(g, Parts[g.sha])'
  <2>1. PICK f \in files : SameRow(f, g)
    BY <1>1
  <2>2. f.id = g.id /\ f.key = g.key /\ f.sha = g.sha
    BY <2>1 DEF SameRow
  <2>3. CleanDone(f)
    <3>1. f.key # NoKey => f.key \in 1..Len(uploads)
      BY DEF RowInv, RowsOk, RowOk
    <3>2. QED
      BY <1>1, <2>2, <3>1 DEF CleanDone, Grown
  <2>4. PICK n : n = Parts[f.sha]
    OBVIOUS
  <2>5. Has(f, n)
    BY <2>3, <2>4 DEF WholeInv, DoneOk
  <2>6. Has(g, n)'
    BY <2>2, <2>5, HasLasts DEF VideoInv
  <2>7. n = Parts[g.sha]
    BY <2>2, <2>4
  <2>8. QED
    BY <2>6, <2>7
<1>2. QED
  BY <1>1 DEF DoneOk

\* The running upload when a step records neither its row nor its shards.
LEMMA OwnKept ==
  ASSUME TypeInv, TypeInv', RowInv, VideoInv, WholeInv, Grown, shards' = shards,
         run.at \in Sends, SameUpload, run'.pos = run.pos,
         run'.at = run.at \/ (run.at = "send" /\ run'.at = "file" /\ run.pos = 0)
                          \/ (run.at = "send" /\ run'.at = "shard"),
         \A g \in files' : \E f \in files : SameRow(f, g),
         Len(uploads') = Len(uploads)
  PROVE  OwnOk' /\ LastOk'
<1>1. run.key \in 1..Len(uploads)
  BY Numbers DEF TypeInv, RunBound
<1>2. LastOk'
  BY DEF LastOk, WholeInv, Grown, SameUpload
<1>3. ASSUME uploads'[run.key].clean
      PROVE  /\ \A g \in files' : g.sha = run.sha \/ g.path = Base[run.path] => g.key = run.key
             /\ \A g \in files' : g.key = run.key => OwnRow(g)'
  <2>1. uploads[run.key].clean
    BY <1>1, <1>3 DEF Grown
  <2>2. /\ \A f \in files : f.sha = run.sha \/ f.path = Base[run.path] => f.key = run.key
        /\ \A f \in files : f.key = run.key => OwnRow(f)
    BY <2>1 DEF WholeInv, OwnOk
  <2>3. ASSUME NEW g \in files', g.key = run.key PROVE OwnRow(g)'
    <3>1. PICK f \in files : SameRow(f, g)
      OBVIOUS
    <3>2. OwnRow(f) /\ f.id = g.id /\ f.key = g.key /\ f.path = g.path
      BY <2>2, <2>3, <3>1 DEF SameRow
    <3>3. PICK n : n = run.pos
      OBVIOUS
    <3>4. Has(g, n)'
      BY <3>2, <3>3, HasLasts DEF OwnRow, VideoInv
    <3>5. Has(g, run.pos)'
      BY <3>3, <3>4 DEF Has
    <3>6. run'.at = "shard" \/ run'.pos > 0
      BY <3>2 DEF OwnRow
    <3>7. QED
      BY <3>2, <3>5, <3>6 DEF OwnRow, SameUpload
  <2>4. ASSUME NEW g \in files', g.sha = run.sha \/ g.path = Base[run.path]
        PROVE  g.key = run.key
    <3>1. PICK f \in files : SameRow(f, g)
      OBVIOUS
    <3>2. QED
      BY <2>2, <2>4, <3>1 DEF SameRow
  <2>5. QED
    BY <2>3, <2>4
<1>4. OwnOk'
  BY <1>3 DEF OwnOk, SameUpload
<1>5. QED
  BY <1>2, <1>4

\* A shard more of a row that has the ones before it.
LEMMA HasGrows ==
  ASSUME Grown, ShardsOk, NEW f, NEW n \in Nat, NEW s, Has(f, n),
         shards' = shards \cup {s}, s.file = f.id, s.pos = n, cloud'[s.video].key = f.key
  PROVE  Has(f, n + 1)'
<1> DEFINE old == {r \in shards : r.file = f.id}
           new == {r \in shards' : r.file = f.id}
<1>1. new = old \cup {s}
  OBVIOUS
<1>2. /\ {r.pos : r \in old} = 0..(n - 1)
      /\ \A r \in old : cloud'[r.video].key = f.key
      /\ \A r, q \in old : r.pos = q.pos => r = q
  BY DEF Has, Grown, ShardsOk, ShardOk
<1>3. {r.pos : r \in new} = {r.pos : r \in old} \cup {n}
  BY <1>1
<1>4. \A r \in old : r.pos # n
  <2>1. \A r \in old : r.pos \in 0..(n - 1)
    BY <1>2
  <2>2. n \notin 0..(n - 1)
    OBVIOUS
  <2>3. QED
    BY <2>1, <2>2
<1> HIDE DEF old, new
<1>5. {r.pos : r \in new} = 0..n
  BY <1>2, <1>3
<1>6. \A r \in new : cloud'[r.video].key = f.key
  BY <1>1, <1>2
<1>7. \A r, q \in new : r.pos = q.pos => r = q
  BY <1>1, <1>2, <1>4
<1>8. 0..n = 0..(n + 1 - 1)
  OBVIOUS
<1>9. QED
  BY <1>5, <1>6, <1>7, <1>8 DEF Has, new

LEMMA WholeStart ==
  ASSUME TypeInv, TypeInv', RowInv, VideoInv, WholeInv, Grown, StartStep PROVE WholeInv'
<1>1. PICK p \in Paths, c \in Contents : Starts(p, c, files')
  BY DEF StartStep
<1>2. files' \subseteq files /\ UNCHANGED <<shards, cloud>>
  BY DEF StartStep
<1>3. PICK n : n = Len(uploads) + 1
  OBVIOUS
<1>4. Len(uploads) \in Nat /\ n \in Nat /\ n \notin 1..Len(uploads)
  BY <1>3, Numbers DEF TypeInv
<1>5. /\ run'.key = n /\ run'.path = p /\ run'.sha = c /\ run'.at = "send"
      /\ Len(uploads') = n
      /\ uploads'[n].clean => ~\E f \in files' : f.sha = c \/ f.path = Base[p]
      /\ \A k \in 1..Len(uploads) : /\ uploads'[k].clean => uploads[k].sha # c
                                    /\ uploads'[k].sha = uploads[k].sha
                                    /\ uploads'[k].state = uploads[k].state
  BY <1>1, <1>3 DEF Starts
<1>6. \A f \in files' : f.key # n
  <2>1. ASSUME NEW f \in files' PROVE f.key # n
    <3>1. RowOk(f)
      BY <1>2 DEF RowInv, RowsOk
    <3>2. n # NoKey
      BY <1>3, <1>4 DEF NoKey
    <3>3. QED
      BY <3>1, <3>2, <1>4 DEF RowOk
  <2>2. QED
    BY <2>1
<1>7. OwnOk'
  BY <1>5, <1>6 DEF OwnOk
<1>8. LastOk'
  <2>1. \A k \in 1..n : k = n \/ k \in 1..Len(uploads)
    BY <1>3, <1>4
  <2>2. QED
    BY <1>5, <2>1 DEF LastOk
<1>9. DoneOk'
  <2>1. \A g \in files' : SameRow(g, g)
    BY DEF SameRow
  <2>2. QED
    BY <1>2, <1>5, <2>1, DoneKept
<1>10. QED
  BY <1>7, <1>8, <1>9 DEF WholeInv

LEMMA WholeFileStep ==
  ASSUME TypeInv, TypeInv', RowInv, VideoInv, WholeInv, Grown, FileStep PROVE WholeInv'
<1>1. PICK new : SavedAs(new, Base[run.path], run.video, run.sha, run.key)
  BY DEF FileStep
<1>2. /\ run.at = "file" /\ run.at \in Sends /\ run'.at = "shard" /\ SameUpload
      /\ run'.pos = run.pos /\ UNCHANGED <<shards, cloud, uploads>>
  BY DEF FileStep, Sends
<1>3. /\ run.key \in 1..Len(uploads) /\ run.pos = 0 /\ uploads[run.key].state = "running"
  BY <1>2, Numbers DEF TypeInv, RunBound, VideoInv, SealOk
<1>4. /\ new.path = Base[run.path] /\ new.key = run.key /\ new.sha = run.sha
      /\ files' = {f \in files : f.path # Base[run.path]} \cup {new}
  BY <1>1 DEF SavedAs
<1>5. OwnOk'
  <2>1. ASSUME uploads[run.key].clean
        PROVE  /\ \A f \in files : f.key # run.key /\ f.sha # run.sha /\ f.path # Base[run.path]
               /\ new.id = nextId
    <3>1. \A f \in files : f.key # run.key
      BY <1>2, <1>3, <2>1 DEF WholeInv, OwnOk, OwnRow
    <3>2. \A f \in files : f.sha # run.sha /\ f.path # Base[run.path]
      BY <1>2, <2>1, <3>1 DEF WholeInv, OwnOk
    <3>3. QED
      BY <3>1, <3>2, <1>1 DEF SavedAs
  <2>2. ASSUME new.id = nextId PROVE Has(new, 0)'
    <3>1. nextId \in Nat /\ shards \subseteq Shard
      BY Numbers DEF TypeInv, TypeOK
    <3>2. \A s \in shards : s.file # new.id
      BY <2>2, <3>1 DEF VideoInv, ShardsOk, ShardOk, Shard, Ids
    <3>3. {s \in shards' : s.file = new.id} = {}
      BY <1>2, <3>2
    <3>4. 0..(0 - 1) = {}
      OBVIOUS
    <3>5. QED
      BY <3>3, <3>4 DEF Has
  <2>3. ASSUME uploads[run.key].clean PROVE OwnRow(new)'
    <3>1. Has(new, 0)'
      BY <2>1, <2>2, <2>3
    <3>2. Has(new, run.pos)'
      BY <3>1, <1>2, <1>3 DEF Has
    <3>3. QED
      BY <3>2, <1>2, <1>4 DEF OwnRow, SameUpload
  <2>4. ASSUME uploads[run.key].clean, NEW g \in files'
        PROVE  \/ g.key = run.key /\ OwnRow(g)'
               \/ g.key # run.key /\ g.sha # run.sha /\ g.path # Base[run.path]
    BY <1>4, <2>1, <2>3, <2>4
  <2>5. QED
    BY <1>2, <2>4 DEF OwnOk, SameUpload
<1>6. LastOk'
  BY <1>2 DEF LastOk, WholeInv, SameUpload
<1>7. DoneOk'
  <2>1. ~CleanDone(new)'
    BY <1>2, <1>3, <1>4 DEF CleanDone
  <2>2. \A f \in files : SameRow(f, f)
    BY DEF SameRow
  <2>3. \A g \in files' : g = new \/ g \in files
    BY <1>4
  <2>4. \A g \in files' : (\E f \in files : SameRow(f, g)) \/ ~CleanDone(g)'
    BY <2>1, <2>2, <2>3
  <2>5. QED
    BY <1>2, <2>4, DoneKept
<1>8. QED
  BY <1>5, <1>6, <1>7 DEF WholeInv

LEMMA WholeShardStep ==
  ASSUME TypeInv, TypeInv', RowInv, VideoInv, WholeInv, Grown, ShardStep PROVE WholeInv'
<1>0. PICK k, n : k = run.key /\ n = run.pos
  OBVIOUS
<1> DEFINE new(f) == [file |-> f.id, video |-> run.video, pos |-> n]
<1>1. /\ run.at = "shard" /\ run.at \in Sends /\ UNCHANGED <<files, cloud>>
      /\ run.at \in {"file", "shard"}
  BY DEF ShardStep, Sends
<1>2. /\ k \in 1..Len(uploads) /\ k # NoKey /\ n \in Nat
      /\ uploads[k].state = "running" /\ uploads[k].sha = run.sha
      /\ cloud[run.video].key = k
  <2>1. n \in Nat
    BY <1>0, <1>1, RunKinds DEF TypeInv, TypeOK
  <2>2. k = Len(uploads) /\ k > 0
    BY <1>0, <1>1 DEF TypeInv, RunBound
  <2>3. Len(uploads) \in Nat
    BY Numbers DEF TypeInv
  <2>4. uploads[k].state = "running" /\ uploads[k].sha = run.sha /\ cloud[run.video].key = k
    BY <1>0, <1>1 DEF VideoInv, SealOk
  <2>5. QED
    BY <2>1, <2>2, <2>3, <2>4 DEF NoKey
<1>3. \/ (\A f \in files : f.sha # run.sha) /\ shards' = shards
      \/ \E f \in files : f.sha = run.sha /\ shards' = shards \cup {new(f)}
  BY <1>0 DEF ShardStep
<1>4. \/ n + 1 = Parts[run.sha] /\ run' = NoUpload /\ EndsAs("done")
      \/ /\ n + 1 # Parts[run.sha] /\ run'.at = "send" /\ SameUpload
         /\ run'.pos = n + 1 /\ uploads' = uploads
  BY <1>0 DEF ShardStep
<1>5. \A j \in 1..Len(uploads) : /\ uploads'[j].clean = uploads[j].clean
                                 /\ j # k => uploads'[j].state = uploads[j].state
  BY <1>0, <1>4 DEF EndsAs
<1>6. \A f \in files : f.key # NoKey => f.key \in 1..Len(uploads) /\ uploads[f.key].sha = f.sha
  BY DEF RowInv, RowsOk, RowOk
<1>7. ASSUME uploads[k].clean, NEW f \in files, f.key = k
      PROVE  f.path = Base[run.path] /\ f.sha = run.sha /\ Has(f, n + 1)'
  <2>1. OwnRow(f) /\ \A g \in files : g.sha = run.sha => g.key = k
    BY <1>0, <1>1, <1>7 DEF WholeInv, OwnOk
  <2>2. f.sha = run.sha
    BY <1>2, <1>6, <1>7
  <2>3. \A g \in files : g.key = k => g.path = f.path
    BY <1>0, <1>1, <1>7, <2>1 DEF WholeInv, OwnOk, OwnRow
  <2>4. \A g \in files : g.sha = run.sha => g = f
    BY <2>1, <2>3 DEF RowInv, UniqueRows
  <2>5. shards' = shards \cup {new(f)}
    BY <1>3, <2>2, <2>4
  <2>6. PICK s : s = new(f)
    OBVIOUS
  <2>7. s.file = f.id /\ s.pos = n /\ s.video = run.video
    BY <2>6
  <2>8. cloud'[s.video].key = f.key
    BY <1>1, <1>2, <1>7, <2>7
  <2>9. Has(f, n)
    BY <1>0, <2>1 DEF OwnRow
  <2>10. Has(f, n + 1)'
    BY <1>2, <2>5, <2>6, <2>7, <2>8, <2>9, HasGrows DEF VideoInv
  <2>11. QED
    BY <2>1, <2>2, <2>10 DEF OwnRow
<1>8. OwnOk'
  <2>1. CASE run' = NoUpload
    <3>1. run'.at \notin Sends
      BY <2>1 DEF NoUpload, Sends
    <3>2. QED
      BY <3>1 DEF OwnOk
  <2>2. CASE run'.at = "send" /\ SameUpload /\ run'.pos = n + 1 /\ uploads' = uploads
    <3>1. ASSUME uploads[k].clean, NEW f \in files, f.key = k PROVE OwnRow(f)'
      <4>1. f.path = Base[run.path] /\ Has(f, n + 1)'
        BY <1>7, <3>1
      <4>2. Has(f, run.pos)'
        BY <2>2, <4>1 DEF Has
      <4>3. run'.pos > 0
        BY <1>2, <2>2
      <4>4. QED
        BY <1>0, <2>2, <4>1, <4>2, <4>3 DEF OwnRow, SameUpload
    <3>2. QED
      BY <1>0, <1>1, <2>2, <3>1 DEF OwnOk, WholeInv, SameUpload
  <2>3. QED
    BY <1>4, <2>1, <2>2
<1>9. LastOk'
  <2>1. CASE run' = NoUpload
    <3>1. run'.at \notin Sends
      BY <2>1 DEF NoUpload, Sends
    <3>2. QED
      BY <3>1 DEF LastOk
  <2>2. CASE SameUpload /\ uploads' = uploads
    BY <1>1, <2>2 DEF LastOk, WholeInv, SameUpload
  <2>3. QED
    BY <1>4, <2>1, <2>2
<1>10. ASSUME NEW g \in files, CleanDone(g)' PROVE Has(g, Parts[g.sha])'
  <2>1. g.key # NoKey /\ g.key \in 1..Len(uploads) /\ uploads[g.key].sha = g.sha
    BY <1>6, <1>10 DEF CleanDone
  <2>2. uploads[g.key].clean /\ uploads'[g.key].state = "done"
    BY <1>5, <1>10, <2>1 DEF CleanDone
  <2>3. CASE g.key = k
    <3>1. Has(g, n + 1)' /\ g.sha = run.sha
      BY <1>7, <2>2, <2>3
    <3>2. n + 1 = Parts[g.sha]
      BY <1>2, <1>4, <2>2, <2>3, <3>1
    <3>3. QED
      BY <3>1, <3>2
  <2>4. CASE g.key # k
    <3>1. CleanDone(g) /\ g.sha # run.sha
      <4>1. uploads[g.key].state = "done"
        BY <1>5, <2>1, <2>2, <2>4
      <4>2. uploads[g.key].sha # run.sha
        BY <1>0, <1>1, <2>1, <2>2, <2>4 DEF WholeInv, LastOk
      <4>3. QED
        BY <2>1, <2>2, <4>1, <4>2 DEF CleanDone
    <3>2. PICK m : m = Parts[g.sha]
      OBVIOUS
    <3>3. Has(g, m)
      BY <3>1, <3>2 DEF WholeInv, DoneOk
    <3>4. shards \subseteq shards' /\ \A s \in shards' : s.file = g.id => s \in shards
      <4>1. CASE shards' = shards
        BY <4>1
      <4>2. ASSUME NEW f \in files, f.sha = run.sha, shards' = shards \cup {new(f)}
            PROVE  shards \subseteq shards' /\ \A s \in shards' : s.file = g.id => s \in shards
        <5>1. f.id # g.id
          BY <3>1, <4>2 DEF RowInv, UniqueRows
        <5>2. new(f).file = f.id
          OBVIOUS
        <5>3. QED
          BY <4>2, <5>1, <5>2
      <4>3. QED
        BY <1>3, <4>1, <4>2
    <3>5. Has(g, m)'
      BY <3>3, <3>4, HasLasts DEF VideoInv
    <3>6. QED
      BY <3>2, <3>5
  <2>5. QED
    BY <2>3, <2>4
<1>11. DoneOk'
  BY <1>1, <1>10 DEF DoneOk
<1>12. QED
  BY <1>8, <1>9, <1>11 DEF WholeInv

LEMMA WholeNext ==
  TypeInv /\ TypeInv' /\ RowInv /\ VideoInv /\ WholeInv /\ [Next]_vars => WholeInv'
<1> SUFFICES ASSUME TypeInv, TypeInv', RowInv, VideoInv, WholeInv, [Next]_vars
             PROVE  WholeInv'
  OBVIOUS
<1>1. Still \/ TrashStep \/ CloudStep \/ UploadStep
  BY Steps
<1>2. Grown
  BY <1>1, Grows
<1>3. \A f \in files : SameRow(f, f)
  BY DEF SameRow
\* Nothing is recorded, and the upload, if there is one, goes on.
<1>4. ASSUME shards' = shards, \A g \in files' : \E f \in files : SameRow(f, g),
             Len(uploads') = Len(uploads),
             \A k \in 1..Len(uploads) : uploads'[k].state = uploads[k].state,
             run' = run \/ (run.at = "send" /\ SameUpload /\ run'.pos = run.pos
                            /\ run'.at = (IF run.pos = 0 THEN "file" ELSE "shard"))
      PROVE  WholeInv'
  <2>1. DoneOk'
    BY <1>2, <1>4, DoneKept
  <2>2. CASE run.at \notin Sends
    <3>1. run'.at \notin Sends
      BY <1>4, <2>2 DEF Sends
    <3>2. QED
      BY <2>1, <3>1 DEF WholeInv, OwnOk, LastOk
  <2>3. CASE run.at \in Sends
    <3>1. SameUpload /\ run'.pos = run.pos
      BY <1>4 DEF SameUpload
    <3>2. run'.at = run.at \/ (run.at = "send" /\ run'.at = "file" /\ run.pos = 0)
                           \/ (run.at = "send" /\ run'.at = "shard")
      BY <1>4
    <3>3. OwnOk' /\ LastOk'
      BY <1>2, <1>4, <2>3, <3>1, <3>2, OwnKept
    <3>4. QED
      BY <2>1, <3>3 DEF WholeInv
  <2>4. QED
    BY <2>2, <2>3
\* No upload runs after the step.
<1>5. ASSUME run'.at \notin Sends, shards' = shards,
             \A g \in files' : (\E f \in files : SameRow(f, g)) \/ g.key = NoKey,
             \A k \in 1..Len(uploads) : uploads'[k].state = "done" => uploads[k].state = "done"
      PROVE  WholeInv'
  <2>1. \A g \in files' : (\E f \in files : SameRow(f, g)) \/ ~CleanDone(g)'
    BY <1>5 DEF CleanDone
  <2>2. DoneOk'
    BY <1>2, <1>5, <2>1, DoneKept
  <2>3. QED
    BY <1>5, <2>2 DEF WholeInv, OwnOk, LastOk
<1>6. CASE Still \/ CloudStep
  BY <1>3, <1>4, <1>6 DEF Still, CloudStep
<1>7. CASE TrashStep
  BY <1>4, <1>7 DEF TrashStep
<1>8. CASE StartStep
  BY <1>2, <1>8, WholeStart
<1>9. CASE VerifyStep
  BY <1>3, <1>5, <1>9 DEF VerifyStep, Sends
<1>10. CASE LinkStep
  <2>1. PICK new : SavedAs(new, run.path, run.video, run.sha, NoKey)
    BY <1>10 DEF LinkStep
  <2>2. run'.at \notin Sends
    BY <1>10 DEF LinkStep, NoUpload, Sends
  <2>3. \A g \in files' : g \in files \/ g.key = NoKey
    BY <2>1 DEF SavedAs
  <2>4. QED
    BY <1>3, <1>5, <1>10, <2>2, <2>3 DEF LinkStep
<1>11. CASE SendStep
  BY <1>3, <1>4, <1>11 DEF SendStep
<1>12. CASE FileStep
  BY <1>2, <1>12, WholeFileStep
<1>13. CASE ShardStep
  BY <1>2, <1>13, WholeShardStep
<1>14. CASE CutStep
  <2>1. run'.at \notin Sends
    BY <1>14 DEF CutStep, NoUpload, Sends
  <2>2. \A k \in 1..Len(uploads) : uploads'[k].state = "done" => uploads[k].state = "done"
    <3>1. CASE run.at \notin Sends
      BY <1>14, <3>1 DEF CutStep
    <3>2. CASE run.at \in Sends
      BY <1>14, <3>2 DEF CutStep, EndsAs
    <3>3. QED
      BY <3>1, <3>2
  <2>3. QED
    BY <1>3, <1>5, <1>14, <2>1, <2>2 DEF CutStep
<1>15. CASE EditStep
  <2>1. /\ Len(uploads') = Len(uploads)
        /\ \A k \in 1..Len(uploads) : uploads'[k].state = uploads[k].state
    BY <1>15 DEF EditStep, Torn
  <2>2. QED
    BY <1>3, <1>4, <1>15, <2>1 DEF EditStep
<1>16. QED
  BY <1>1, <1>6, <1>7, <1>8, <1>9, <1>10, <1>11, <1>12, <1>13, <1>14, <1>15 DEF UploadStep

(* The file of an upload of a new content under a new name that ended well  *)
(* has one shard row per part, in order, whatever was trashed, restored,    *)
(* deleted, linked or uploaded in the meantime (queue.go:828-831).          *)
THEOREM WholeFileHolds == Spec => []WholeFile
<1> DEFINE Inv == TypeInv /\ RowInv /\ VideoInv /\ WholeInv
<1>1. Init => Inv
  BY TypeInit, RowInit, VideoInit, WholeInit
<1>2. Inv /\ [Next]_vars => Inv'
  BY TypeNext, RowNext, VideoNext, WholeNext
<1>3. Inv => WholeFile
  <2> SUFFICES ASSUME Inv, NEW f \in files, CleanDone(f)
               PROVE  LET rows == {s \in shards : s.file = f.id} IN
                      /\ {s.pos : s \in rows} = 0..(Parts[f.sha] - 1)
                      /\ \A s \in rows : /\ cloud[s.video].key = f.key
                                         /\ cloud[s.video].data[2] = s.pos
                      /\ \A s, r \in rows : s.pos = r.pos => s = r
    BY DEF WholeFile, CleanDone
  <2>1. Has(f, Parts[f.sha])
    BY DEF WholeInv, DoneOk
  <2>2. \A s \in shards : cloud[s.video].data[2] = s.pos
    BY DEF VideoInv, ShardsOk, ShardOk
  <2>3. QED
    BY <2>1, <2>2 DEF Has
<1>4. QED
  BY <1>1, <1>2, <1>3, PTL DEF Spec

\* What a download fetches: parts under the key of the row it opens them with.
LEMMA FetchedParts ==
  ASSUME TypeInv, RowInv, VideoInv, NEW t \in Task, RunDownload(t)
  PROVE  LET f == FileByHash(t.sha) IN
         /\ f \in files /\ f.sha = t.sha
         /\ f.key # NoKey /\ uploads[f.key].sha = t.sha
         /\ \A s \in ShardsFor(t) :
              /\ cloud[s[2]].data \in Data /\ cloud[s[2]].data[2] = s[1]
              /\ ~uploads[f.key].torn => cloud[s[2]].data[1] = t.sha
<1> DEFINE f == FileByHash(t.sha)
           rows == {s \in shards : s.file = f.id}
<1>1. /\ Receive(t) /\ t.kind = "download" /\ WithHash(t.sha) # {}
      /\ \A s \in ShardsFor(t) : s[2] \in 1..Len(cloud) /\ cloud[s[2]].key = f.key
  BY DEF RunDownload, Fetched, Opens
<1>2. TypeOK /\ cloud \in Seq(Video)
  BY DEF TypeInv, TypeOK
<1>3. f \in files /\ f.sha = t.sha
  BY <1>1, <1>2, FirstRow DEF TypeOK
<1>4. ShardsFor(t) = IF rows = {} THEN {<<0, t.video>>} ELSE {<<s.pos, s.video>> : s \in rows}
  BY <1>1 DEF ShardsFor
<1>5. ShardsFor(t) # {}
  BY <1>4
<1> HIDE DEF f
<1>6. \A s \in ShardsFor(t) : cloud[s[2]].data[2] = s[1]
  <2>1. CASE rows = {}
    <3>1. 1 \in 1..Len(queue) /\ t = queue[1]
      BY <1>1, <1>2, Received
    <3>2. cloud[t.video].data[2] = 0
      BY <1>1, <3>1 DEF RowInv, QueueOk, First
    <3>3. QED
      BY <1>4, <2>1, <3>2
  <2>2. CASE rows # {}
    <3>1. \A s \in rows : cloud[s.video].data[2] = s.pos
      BY DEF VideoInv, ShardsOk, ShardOk
    <3>2. QED
      BY <1>4, <2>2, <3>1
  <2>3. QED
    BY <2>1, <2>2
<1>7. f.key \in 1..Len(uploads) /\ f.key # NoKey
  <2>1. PICK s \in ShardsFor(t) : TRUE
    BY <1>5
  <2>2. cloud[s[2]].key = f.key /\ cloud[s[2]].key \in 1..Len(uploads)
    BY <1>1, <2>1 DEF VideoInv, VideosOk, VideoOk
  <2>3. Len(uploads) \in Nat
    BY <1>2, Numbers
  <2>4. QED
    BY <2>2, <2>3 DEF NoKey
<1>8. uploads[f.key].sha = t.sha
  BY <1>3, <1>7 DEF RowInv, RowsOk, RowOk
<1>9. ASSUME NEW s \in ShardsFor(t)
      PROVE  /\ cloud[s[2]].data \in Data
             /\ ~uploads[f.key].torn => cloud[s[2]].data[1] = t.sha
  <2>1. s[2] \in 1..Len(cloud) /\ cloud[s[2]].key = f.key
    BY <1>1, <1>9
  <2>2. VideoOk(s[2])
    BY <2>1 DEF VideoInv, VideosOk
  <2>3. cloud[s[2]] \in Video
    BY <1>2, <2>1
  <2>4. QED
    BY <1>8, <2>1, <2>2, <2>3 DEF VideoOk, Video
<1>10. QED
  BY <1>3, <1>6, <1>7, <1>8, <1>9 DEF f

(* What a download that ends well writes is the content it was asked for    *)
(* (queue.go:972-1309).                                                     *)
THEOREM DownloadIsGenuineHolds == Spec => DownloadIsGenuine
<1> DEFINE Inv == TypeInv /\ RowInv /\ VideoInv /\ WholeInv
           Genuine(t) ==
             LET h == uploads[FileByHash(t.sha).key] IN
             /\ ~h.torn => \A d \in Recovered(t) : d[2] = <<t.sha, d[1]>>
             /\ (h.clean /\ h.state = "done") =>
                  {d[1] : d \in Recovered(t)} = 0..(Parts[t.sha] - 1)
<1>1. Init => Inv
  BY TypeInit, RowInit, VideoInit, WholeInit
<1>2. Inv /\ [Next]_vars => Inv'
  BY TypeNext, RowNext, VideoNext, WholeNext
<1>3. ASSUME Inv, NEW t \in Task, RunDownload(t) PROVE Genuine(t)
  <2> DEFINE f == FileByHash(t.sha)
             h == uploads[f.key]
  <2>1. /\ f \in files /\ f.sha = t.sha /\ f.key # NoKey
        /\ \A s \in ShardsFor(t) :
             /\ cloud[s[2]].data \in Data /\ cloud[s[2]].data[2] = s[1]
             /\ ~h.torn => cloud[s[2]].data[1] = t.sha
    BY <1>3, FetchedParts
  <2>2. Recovered(t) = {<<s[1], cloud[s[2]].data>> : s \in ShardsFor(t)}
    BY DEF Recovered
  <2> HIDE DEF f
  <2>3. ASSUME ~h.torn, NEW d \in Recovered(t) PROVE d[2] = <<t.sha, d[1]>>
    <3>1. PICK s \in ShardsFor(t) : d = <<s[1], cloud[s[2]].data>>
      BY <2>2, <2>3
    <3>2. cloud[s[2]].data = <<cloud[s[2]].data[1], cloud[s[2]].data[2]>>
      BY <2>1, <3>1 DEF Data
    <3>3. QED
      BY <2>1, <2>3, <3>1, <3>2
  <2>4. ASSUME h.clean, h.state = "done"
        PROVE  {d[1] : d \in Recovered(t)} = 0..(Parts[t.sha] - 1)
    <3> DEFINE rows == {s \in shards : s.file = f.id}
    <3>1. Has(f, Parts[f.sha])
      BY <1>3, <2>1, <2>4 DEF WholeInv, DoneOk, CleanDone
    <3>2. {s.pos : s \in rows} = 0..(Parts[t.sha] - 1)
      BY <2>1, <3>1 DEF Has
    <3>3. 0 \in 0..(Parts[t.sha] - 1)
      <4>1. f.sha \in Contents /\ TypeOK
        BY <1>3, <2>1 DEF TypeInv, TypeOK, File
      <4>2. Parts[t.sha] \in Nat /\ Parts[t.sha] > 0
        BY <2>1, <4>1, Numbers
      <4>3. QED
        BY <4>2
    <3>4. rows # {}
      BY <3>2, <3>3
    <3>5. WithHash(t.sha) # {}
      BY <1>3 DEF RunDownload
    <3>6. ShardsFor(t) = {<<s.pos, s.video>> : s \in rows}
      BY <3>4, <3>5 DEF ShardsFor, f
    <3> HIDE DEF rows
    <3>7. {d[1] : d \in Recovered(t)} = {s.pos : s \in rows}
      <4>1. \A d \in Recovered(t) : \E s \in rows : d[1] = s.pos
        <5>1. ASSUME NEW d \in Recovered(t) PROVE \E s \in rows : d[1] = s.pos
          <6>1. PICK x \in ShardsFor(t) : d = <<x[1], cloud[x[2]].data>>
            BY <2>2
          <6>2. PICK s \in rows : x = <<s.pos, s.video>>
            BY <3>6
          <6>3. QED
            BY <6>1, <6>2
        <5>2. QED
          BY <5>1
      <4>2. \A s \in rows : \E d \in Recovered(t) : d[1] = s.pos
        <5>1. ASSUME NEW s \in rows PROVE \E d \in Recovered(t) : d[1] = s.pos
          <6>1. <<s.pos, s.video>> \in ShardsFor(t)
            BY <3>6
          <6>2. <<s.pos, cloud[s.video].data>> \in Recovered(t)
            BY <6>1, <2>2
          <6>3. QED
            BY <6>2
        <5>2. QED
          BY <5>1
      <4>3. QED
        BY <4>1, <4>2
    <3>8. QED
      BY <3>2, <3>7
  <2>5. QED
    BY <2>3, <2>4 DEF f
<1>4. Inv /\ [Next]_vars => [\A t \in Task : RunDownload(t) => Genuine(t)]_vars
  BY <1>3
<1>5. QED
  BY <1>1, <1>2, <1>4, PTL DEF Spec, DownloadIsGenuine
=============================================================================
