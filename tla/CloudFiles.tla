----------------------------- MODULE CloudFiles -----------------------------
(***************************************************************************)
(* What the daemon's handlers do to the files table, the shards table and  *)
(* the videos on YouTube (nexus-daemon/queue.go, db.go, api.go, main.go):  *)
(* uploads with deduplication and shards, downloads, the trash, permanent  *)
(* deletion, the nightly purge and the hourly orphan cleanup, with crashes *)
(* of the daemon, failing calls, videos that vanish from YouTube and local *)
(* files that change while they are uploaded.                              *)
(*                                                                         *)
(* The single worker runs one task at a time; a step of an upload ends     *)
(* where a request of the API or a crash can come in between.  A download  *)
(* is one step: no other step of the daemon removes a video meanwhile, and *)
(* one that vanishes makes it fail like any other failure.                 *)
(*                                                                         *)
(* Left out: passwords (module FileKeys), task rows in detail (TaskQueue), *)
(* what the changes tell the sync, i.e. the LSN, pending_sync and the      *)
(* backup timer (SyncProtocol), manifest tasks, which no caller creates,   *)
(* folders and playlists, and writes to the database that fail.            *)
(***************************************************************************)
EXTENDS Naturals, Sequences, FiniteSets, Selection

CONSTANTS Paths,       \* full paths of local files
          Base,        \* Base[p]: filepath.Base(p), the name an upload saves
          Contents,    \* possible contents, told apart by their SHA-256
          Parts,       \* Parts[c]: shards of 2 GB that content c fills
          MaxParts,    \* bound: shards of one file
          FirstLocal,  \* FirstLocal[p]: the content of p at the start
          MaxUploads,  \* bound: upload requests
          MaxQueue,    \* bound: tasks under way when a request is made
          MaxFaults    \* bound: edits of local files, vanished videos, crashes

Names    == {Base[p] : p \in Paths} \cup Paths
Keys     == 1..MaxUploads             \* a file key is known by its upload
NoKey    == 0                         \* file_key = ''
Ids      == 1..MaxUploads             \* files.id, never used twice
Videos   == 1..(MaxUploads * MaxParts)
Data     == Contents \X (0..(MaxParts - 1))

ASSUME FilesAssumption ==
  /\ Contents # {}
  /\ Base \in [Paths -> STRING] /\ Paths \subseteq STRING
  /\ MaxParts \in Nat \ {0} /\ Parts \in [Contents -> 1..MaxParts]
  /\ FirstLocal \in [Paths -> Contents]
  /\ MaxUploads \in Nat \ {0} /\ MaxFaults \in Nat

VARIABLES local,    \* path -> content: the user's files
          files,    \* rows of the files table
          shards,   \* rows of the shards table
          nextId,   \* the id AUTOINCREMENT gives next
          cloud,    \* the videos ever inserted, in order
          queue,    \* q.taskChan
          sending,  \* delete tasks whose sender has not reached the channel
          listed,   \* video -> what q.tasks holds under its id
          sweep,    \* videos the orphan cleanup read from the trash
          run,      \* the upload the worker is busy with
          uploads,  \* history: key -> what became of the upload that made it
          asked, faults   \* counters of the bounds

vars == <<local, files, shards, nextId, cloud, queue, sending, listed, sweep,
          run, uploads, asked, faults>>
tables == <<files, shards, nextId>>
tasks  == <<queue, sending, listed, sweep>>
bounds == <<asked, faults>>

-----------------------------------------------------------------------------
File    == [id : Ids, path : Names, video : Videos, sha : Contents,
            key : Keys \cup {NoKey}, trash : BOOLEAN]
Shard   == [file : Ids, video : Videos, pos : 0..(MaxParts - 1)]
Video   == [data : Data, key : Keys, there : BOOLEAN]
Upload(p)      == [kind |-> "upload", path |-> p]
Download(v, c) == [kind |-> "download", video |-> v, sha |-> c]
\* from: "user" for status "Pending", which Init resumes, otherwise "purge"
\* or "orphan".
Delete(v, w)   == [kind |-> "delete", video |-> v, from |-> w]
Deletes        == {Delete(v, w) : v \in Videos, w \in {"user", "purge", "orphan"}}
Task           == {Upload(p) : p \in Paths}
                  \cup {Download(v, c) : v \in Videos, c \in Contents}
                  \cup Deletes
NoUpload == [at |-> "none"]
Running  == [at : {"verify"}, path : Paths, sha : Contents, found : Ids, video : Videos]
            \cup [at : {"send", "file", "shard"}, path : Paths, sha : Contents,
                  key : Keys, pos : 0..(MaxParts - 1), video : Videos \cup {0}]
\* state: how the upload ended; torn: its local file changed after it was
\* hashed, before the upload ended; clean: no row had its name or its content
\* when it began, and its content was not sent again since.
History  == [sha : Contents, state : {"running", "done", "cut"},
             torn : BOOLEAN, clean : BOOLEAN]

TypeOK ==
  /\ local \in [Paths -> Contents]
  /\ files \subseteq File
  /\ shards \subseteq Shard
  /\ nextId \in 1..(MaxUploads + 1)
  /\ cloud \in Seq(Video)
  /\ queue \in Seq(Task)
  /\ sending \subseteq Deletes
  /\ listed \in [Videos -> {"no", "live", "dead"}]
  /\ sweep \subseteq Videos
  /\ run \in Running \cup {NoUpload}
  /\ uploads \in Seq(History)
  /\ asked \in 0..MaxUploads
  /\ faults \in 0..MaxFaults

Init ==
  /\ local = FirstLocal
  /\ files = {} /\ shards = {} /\ nextId = 1
  /\ cloud = <<>>
  /\ queue = <<>> /\ sending = {} /\ listed = [v \in Videos |-> "no"]
  /\ sweep = {}
  /\ run = NoUpload
  /\ uploads = <<>>
  /\ asked = 0 /\ faults = 0
-----------------------------------------------------------------------------
(* The tables.                                                             *)
WithHash(c)   == {f \in files : f.sha = c}
\* GetFileByHash: the first row, in the trash or not.
FileByHash(c) == CHOOSE f \in WithHash(c) : \A g \in WithHash(c) : f.id <= g.id

\* Slips: an upsert that forgets the key; ids that are given again.
SaveFileKeepingKey(p, v, c, k) ==
  LET old == {f \in files : f.path = p}
      row == CHOOSE f \in old : TRUE
  IN /\ files'  = (files \ old)
                  \cup {[id |-> IF old = {} THEN nextId ELSE row.id, path |-> p,
                         video |-> v, sha |-> c, trash |-> FALSE,
                         key |-> IF old = {} THEN k ELSE row.key]}
     /\ nextId' = IF old = {} THEN nextId + 1 ELSE nextId
SaveFileReusingIds(p, v, c, k) ==
  LET old == {f \in files : f.path = p}
      id  == IF old = {} THEN Cardinality(files) + 1 ELSE (CHOOSE f \in old : TRUE).id
  IN /\ files' = (files \ old)
                 \cup {[id |-> id, path |-> p, video |-> v, sha |-> c,
                        key |-> k, trash |-> FALSE]}
     /\ UNCHANGED nextId

\* SaveFileWithKey: a known path keeps its row, and its id, and leaves the trash.
SaveFileWithKey(p, v, c, k) ==
  LET old == {f \in files : f.path = p}
      id  == IF old = {} THEN nextId ELSE (CHOOSE f \in old : TRUE).id
  IN /\ files'  = (files \ old)
                  \cup {[id |-> id, path |-> p, video |-> v, sha |-> c,
                         key |-> k, trash |-> FALSE]}
     /\ nextId' = IF old = {} THEN nextId + 1 ELSE nextId

Waits(v) == \/ \E i \in 1..Len(queue) : queue[i].kind # "upload" /\ queue[i].video = v
            \/ \E t \in sending : t.video = v

-----------------------------------------------------------------------------
(* Requests of the API.                                                    *)
Room == Len(queue) + Cardinality(sending) < MaxQueue

RequestUpload(p) ==
  /\ asked < MaxUploads /\ Room
  /\ queue' = Append(queue, Upload(p))
  /\ asked' = asked + 1
  /\ UNCHANGED <<local, tables, cloud, sending, listed, sweep, run, uploads, faults>>

RequestDownload(f) ==
  /\ Room
  /\ queue'  = Append(queue, Download(f.video, f.sha))
  /\ listed' = [listed EXCEPT ![f.video] = "live"]
  /\ UNCHANGED <<local, tables, cloud, sending, sweep, run, uploads, bounds>>

SoftDelete(f) ==
  /\ ~f.trash
  /\ files' = (files \ {f}) \cup {[f EXCEPT !.trash = TRUE]}
  /\ UNCHANGED <<local, shards, nextId, cloud, tasks, run, uploads, bounds>>

Restore(f) ==
  /\ f.trash
  /\ files' = (files \ {f}) \cup {[f EXCEPT !.trash = FALSE]}
  /\ UNCHANGED <<local, shards, nextId, cloud, tasks, run, uploads, bounds>>

\* DELETE /api/files/{id}/permanent: the row goes, its shard rows stay, and
\* the task for its video is on its way to AddTask.
PermanentDelete(f) ==
  /\ Room
  /\ files'   = files \ {f}
  /\ sending' = sending \cup {Delete(f.video, "user")}
  /\ UNCHANGED <<local, shards, nextId, cloud, queue, listed, sweep, run,
                 uploads, bounds>>

-----------------------------------------------------------------------------
(* The schedulers.                                                         *)
\* CleanupTrash and the loop of scheduleTrashCleanup over its result.
PurgeTrash(expired) ==
  /\ Room
  /\ expired # {}
  /\ expired \subseteq {f \in files : f.trash}
  /\ files'   = files \ expired
  /\ sending' = sending \cup {Delete(f.video, "purge") : f \in expired}
  /\ UNCHANGED <<local, shards, nextId, cloud, queue, listed, sweep, run,
                 uploads, bounds>>

\* AddTask for a delete task of the API or of the purge.
AddDelete(t) ==
  /\ t \in sending /\ t.from # "orphan"
  /\ sending' = sending \ {t}
  /\ queue'   = Append(queue, t)
  /\ listed'  = [listed EXCEPT ![t.video] = "live"]
  /\ UNCHANGED <<local, tables, cloud, sweep, run, uploads, bounds>>

\* CleanupOrphanedVideos: ListTrash, then, under the queue's mutex, a task
\* for every video that q.tasks does not know, sent by a goroutine each.
ListTrash ==
  /\ sweep = {}
  /\ \E f \in files : f.trash
  /\ sweep' = {f.video : f \in {g \in files : g.trash}}
  /\ UNCHANGED <<local, tables, cloud, queue, sending, listed, run, uploads, bounds>>

CleanupOrphanedVideos ==
  LET orphans == {v \in sweep : listed[v] = "no"} IN
  /\ sweep # {}
  /\ sweep'   = {}
  /\ listed'  = [v \in Videos |-> IF v \in orphans THEN "live" ELSE listed[v]]
  /\ sending' = sending \cup {Delete(v, "orphan") : v \in orphans}
  /\ UNCHANGED <<local, tables, cloud, queue, run, uploads, bounds>>

SendOrphan(t) ==
  /\ t \in sending /\ t.from = "orphan"
  /\ sending' = sending \ {t}
  /\ queue'   = Append(queue, t)
  /\ UNCHANGED <<local, tables, cloud, listed, sweep, run, uploads, bounds>>

\* cleanupCompletedTasks, 30 seconds after the last task of the id finished.
Forget(v) ==
  /\ listed[v] = "live" /\ ~Waits(v)
  /\ listed' = [listed EXCEPT ![v] = "no"]
  /\ UNCHANGED <<local, tables, cloud, queue, sending, sweep, run, uploads, bounds>>

-----------------------------------------------------------------------------
(* The worker: uploads.                                                    *)
Receive(t) == /\ run = NoUpload
            /\ queue # <<>> /\ t = Head(queue)
            /\ queue' = Tail(queue)

\* GenerateFileKey and the first round of the loop over the shards; rows is
\* the files table the upload starts from.
StartShards(p, c, rows) ==
  /\ uploads' = Append([k \in 1..Len(uploads) |->
                         [uploads[k] EXCEPT !.clean = @ /\ uploads[k].sha # c]],
       [sha |-> c, state |-> "running", torn |-> local[p] # c,
        clean |-> ~\E f \in rows : f.sha = c \/ f.path = Base[p]])
  /\ run' = [at |-> "send", path |-> p, sha |-> c, key |-> Len(uploads) + 1,
             pos |-> 0, video |-> 0]

\* Hashing, and the look for a row with the same hash.
BeginUpload(t) ==
  /\ Receive(t) /\ t.kind = "upload"
  /\ LET c == local[t.path] IN
     IF WithHash(c) = {} THEN StartShards(t.path, c, files)
     ELSE /\ run' = [at |-> "verify", path |-> t.path, sha |-> c,
                     found |-> FileByHash(c).id, video |-> FileByHash(c).video]
          /\ UNCHANGED uploads
  /\ UNCHANGED <<local, tables, cloud, sending, listed, sweep, bounds>>

\* The file cannot be read or archived.
RefuseUpload(t) ==
  /\ Receive(t) /\ t.kind = "upload"
  /\ UNCHANGED <<local, tables, cloud, sending, listed, sweep, run, uploads, bounds>>

\* VideoExists says yes: the row it found lends its video, not its key, to a
\* row under the full path.
LinkExisting ==
  /\ run.at = "verify"
  /\ cloud[run.video].there
  /\ SaveFileWithKey(run.path, run.video, run.sha, NoKey)
  /\ run' = NoUpload
  /\ UNCHANGED <<local, shards, cloud, tasks, uploads, bounds>>

\* VideoExists says no, or fails: the row is dropped and the upload starts.
PurgeStale ==
  /\ run.at = "verify"
  /\ files' = {f \in files : f.id # run.found}
  /\ StartShards(run.path, run.sha, files')
  /\ UNCHANGED <<local, shards, nextId, cloud, tasks, bounds>>

\* The shard that the loop reads now, sealed with the upload's key.
Sealed == [data |-> <<local[run.path], run.pos>>, key |-> run.key, there |-> TRUE]

\* It is encoded as a video and inserted.
SendShard ==
  /\ run.at = "send"
  /\ cloud' = Append(cloud, Sealed)
  /\ run'   = [run EXCEPT !.at = IF run.pos = 0 THEN "file" ELSE "shard",
                          !.video = Len(cloud) + 1]
  /\ UNCHANGED <<local, tables, tasks, uploads, bounds>>

RecordFile ==
  /\ run.at = "file"
  /\ SaveFileWithKey(Base[run.path], run.video, run.sha, run.key)
  /\ run' = [run EXCEPT !.at = "shard"]
  /\ UNCHANGED <<local, shards, cloud, tasks, uploads, bounds>>

\* Slip: one round too many.
RecordShardPast ==
  LET last == run.pos = Parts[run.sha] IN
  /\ run.at = "shard"
  /\ shards' = IF WithHash(run.sha) = {} THEN shards
               ELSE shards \cup {[file |-> FileByHash(run.sha).id,
                                  video |-> run.video, pos |-> run.pos]}
  /\ run'     = IF last THEN NoUpload
                ELSE [run EXCEPT !.at = "send", !.pos = @ + 1]
  /\ uploads' = IF last THEN [uploads EXCEPT ![run.key].state = "done"] ELSE uploads
  /\ UNCHANGED <<local, files, nextId, cloud, tasks, bounds>>

RecordShard ==
  LET last == run.pos + 1 = Parts[run.sha] IN
  /\ run.at = "shard"
  /\ shards' = IF WithHash(run.sha) = {} THEN shards
               ELSE shards \cup {[file |-> FileByHash(run.sha).id,
                                  video |-> run.video, pos |-> run.pos]}
  /\ run'     = IF last THEN NoUpload
                ELSE [run EXCEPT !.at = "send", !.pos = @ + 1]
  /\ uploads' = IF last THEN [uploads EXCEPT ![run.key].state = "done"] ELSE uploads
  /\ UNCHANGED <<local, files, nextId, cloud, tasks, bounds>>

\* Any error on the way to a shard's insertion ends the upload; what the
\* earlier shards left stays.
FailUpload ==
  /\ run.at = "send"
  /\ run'     = NoUpload
  /\ uploads' = [uploads EXCEPT ![run.key].state = "cut"]
  /\ UNCHANGED <<local, tables, cloud, tasks, bounds>>

-----------------------------------------------------------------------------
(* The worker: downloads and deletions.                                    *)
\* Slip: the shards table is not asked.
OneVideo(t) == {<<0, t.video>>}

\* The shards to fetch, by position; without shard rows, the task's video.
ShardsFor(t) ==
  LET rows == {s \in shards : s.file = FileByHash(t.sha).id} IN
  IF WithHash(t.sha) = {} \/ rows = {} THEN {<<0, t.video>>}
  ELSE {<<s.pos, s.video>> : s \in rows}

\* What is written to ~/Downloads/Nexus: the parts in the order of positions.
Recovered(t) == {<<s[1], cloud[s[2]].data>> : s \in ShardsFor(t)}

\* A shard comes from YouTube or, even when its video is gone, from the disk
\* cache of an earlier download (module LocalDisk).
Fetched(v) == v \in 1..Len(cloud)

\* DecryptWithKey with the row's key; the ways of a row without a key open
\* nothing that handleUpload has sealed.
Opens(v, f) == cloud[v].key = f.key

RunDownload(t) ==
  /\ Receive(t) /\ t.kind = "download"
  /\ WithHash(t.sha) # {}
  /\ \A s \in ShardsFor(t) : Fetched(s[2]) /\ Opens(s[2], FileByHash(t.sha))
  /\ UNCHANGED <<local, tables, cloud, sending, listed, sweep, run, uploads, bounds>>

\* A video cannot be fetched or decoded, or a key does not open it.
FailDownload(t) ==
  /\ Receive(t) /\ t.kind = "download"
  /\ UNCHANGED <<local, tables, cloud, sending, listed, sweep, run, uploads, bounds>>

RunDelete(t) ==
  /\ Receive(t) /\ t.kind = "delete"
  /\ cloud' = [cloud EXCEPT ![t.video].there = FALSE]
  /\ UNCHANGED <<local, tables, sending, listed, sweep, run, uploads, bounds>>

\* Offline, or YouTube refuses: a warning, and the task counts as completed.
SkipDelete(t) ==
  /\ Receive(t) /\ t.kind = "delete"
  /\ UNCHANGED <<local, tables, cloud, sending, listed, sweep, run, uploads, bounds>>

-----------------------------------------------------------------------------
(* The environment.                                                        *)
EditLocal(p, c) ==
  /\ faults < MaxFaults /\ local[p] # c
  /\ faults' = faults + 1
  /\ local' = [local EXCEPT ![p] = c]
  /\ uploads' = IF run.at \in {"send", "file", "shard"} /\ run.path = p
                THEN [uploads EXCEPT ![run.key].torn = TRUE] ELSE uploads
  /\ UNCHANGED <<tables, cloud, tasks, run, asked>>

Vanish(v) ==
  /\ faults < MaxFaults
  /\ v \in 1..Len(cloud) /\ cloud[v].there
  /\ cloud' = [cloud EXCEPT ![v].there = FALSE]
  /\ faults' = faults + 1
  /\ UNCHANGED <<local, tables, tasks, run, uploads, asked>>

\* Init resumes the rows that say "Pending" and lists the others without ever
\* running or forgetting them; an orphan's task has no row before it runs.
Crash ==
  LET resumes(t) == t.kind = "delete" => t.from = "user"
      resumed    == Selected(queue, {i \in 1..Len(queue) : resumes(queue[i])})
      again      == {resumed[i].video : i \in {j \in 1..Len(resumed) : resumed[j].kind # "upload"}}
      unsaved    == {v \in Videos : \/ Delete(v, "orphan") \in sending
                                    \/ \E i \in 1..Len(queue) : queue[i] = Delete(v, "orphan")}
  IN
  /\ faults < MaxFaults
  /\ faults' = faults + 1
  /\ queue'   = resumed
  /\ sending' = {} /\ sweep' = {}
  /\ listed'  = [v \in Videos |-> CASE v \in again -> "live"
                                    [] v \notin again /\ (listed[v] = "no" \/ v \in unsaved) -> "no"
                                    [] OTHER -> "dead"]
  /\ run'     = NoUpload
  /\ uploads' = IF run.at \in {"send", "file", "shard"}
                THEN [uploads EXCEPT ![run.key].state = "cut"] ELSE uploads
  /\ UNCHANGED <<local, tables, cloud, asked>>

-----------------------------------------------------------------------------
Worker == \/ /\ queue # <<>>
             /\ LET t == Head(queue) IN
                \/ BeginUpload(t) \/ RefuseUpload(t)
                \/ RunDownload(t) \/ FailDownload(t)
                \/ RunDelete(t) \/ SkipDelete(t)
          \/ LinkExisting \/ PurgeStale
          \/ SendShard \/ RecordFile \/ RecordShard \/ FailUpload

Faults == \/ \E p \in Paths, c \in Contents : EditLocal(p, c)
          \/ \E v \in Videos : Vanish(v)
          \/ Crash

Requests == \/ \E p \in Paths : RequestUpload(p)
            \/ \E f \in files : \/ RequestDownload(f) \/ SoftDelete(f)
                                \/ Restore(f) \/ PermanentDelete(f)

Schedulers == \/ \E expired \in SUBSET files : PurgeTrash(expired)
              \/ \E t \in sending : AddDelete(t) \/ SendOrphan(t)
              \/ ListTrash \/ CleanupOrphanedVideos
              \/ \E v \in Videos : Forget(v)

Next == Worker \/ Faults \/ Requests \/ Schedulers

Spec == Init /\ [][Next]_vars

-----------------------------------------------------------------------------
(* A row with a key names a video that exists or existed, and that is the  *)
(* first part, under that very key, of the content the row claims: a row   *)
(* is never saved ahead of its video, nor with the video of another upload *)
(* (handleUpload, queue.go:818-827).  Only a file that changed while it    *)
(* was uploaded breaks the link between the hash and the bytes.            *)
RowNamesItsVideo ==
  \A f \in files :
    f.key # NoKey =>
      /\ f.video \in 1..Len(cloud) /\ f.key \in 1..Len(uploads)
      /\ cloud[f.video].key = f.key
      /\ cloud[f.video].data[2] = 0
      /\ uploads[f.key].sha = f.sha
      /\ ~uploads[f.key].torn => cloud[f.video].data[1] = f.sha

(* An upload of a new content under a new name that ended well, and whose  *)
(* row is still there, has one shard row per part, in order, whatever was  *)
(* trashed, restored, deleted, linked or uploaded in the meantime          *)
(* (handleUpload, queue.go:828-831) - unless the same content was sent     *)
(* again: then deduplication had found and dropped another row of it, and  *)
(* the new shards may have been recorded under this one (queue.go:828).    *)
WholeFile ==
  \A f \in files :
    (f.key # NoKey /\ uploads[f.key].clean /\ uploads[f.key].state = "done") =>
      LET rows == {s \in shards : s.file = f.id} IN
      /\ {s.pos : s \in rows} = 0..(Parts[f.sha] - 1)
      /\ \A s \in rows : /\ cloud[s.video].key = f.key
                         /\ cloud[s.video].data[2] = s.pos
      /\ \A s, r \in rows : s.pos = r.pos => s = r

(* What a download that ends well writes is, part by part, the content it  *)
(* was asked for, unless the file changed while it was uploaded; parts are *)
(* missing only if the upload was cut short, was not of a new content      *)
(* under a new name, or was of one sent again since (handleDownload,       *)
(* queue.go:972-1309).                                                     *)
DownloadIsGenuine ==
  [][\A t \in Task :
       RunDownload(t) =>
         LET h == uploads[FileByHash(t.sha).key] IN
         /\ ~h.torn => \A d \in Recovered(t) : d[2] = <<t.sha, d[1]>>
         /\ (h.clean /\ h.state = "done") =>
              {d[1] : d \in Recovered(t)} = 0..(Parts[t.sha] - 1)]_vars

(* The orphan cleanup removes the videos of "permanently deleted files"    *)
(* (queue.go:1353) only: when a deletion it asked for reaches YouTube, no  *)
(* row names the video any more.  A file in the trash is not deleted: it   *)
(* can be restored until the purge takes it, after trash_purge_days        *)
(* (main.go:257).                                                          *)
OnlyOrphansGo ==
  [][\A t \in Deletes :
       (RunDelete(t) /\ t.from = "orphan") =>
         ~\E f \in files : f.video = t.video]_vars
=============================================================================
