----------------------------- MODULE TaskQueue ------------------------------
(***************************************************************************)
(* The task queue of the desktop daemon (nexus-daemon/queue.go): the map   *)
(* of tasks the GUI sees, the buffered channel the single worker reads,    *)
(* the mutex that guards the map, and the rows of the tasks table, which   *)
(* alone survive a crash.                                                  *)
(*                                                                         *)
(* Covered: AddTask by any number of callers, RemoveTask, the worker and   *)
(* its handlers (only the statuses they write and save), the cleanup       *)
(* ticker, the orphan cleanup, a crash at any point and the reload of the  *)
(* table by Init.  A step is what runs under one hold of the mutex, or     *)
(* between two places where another goroutine can get in.                  *)
(*                                                                         *)
(* Left out: what the handlers do to files and videos, manifest tasks (no  *)
(* caller creates one), failing writes to the table, and the replacement   *)
(* of the whole table by a logout or by a pull of a remote database.       *)
(***************************************************************************)
EXTENDS Naturals, Sequences

CONSTANTS UploadIds,   \* ids of uploads: "task-" and the clock, never reused
          VideoIds,    \* ids of downloads and deletions: the video's id
          Cap,         \* places in the channel (100 in the code)
          MaxGen,      \* bound: task objects per id in one run of the process
          MaxCrashes,  \* bound: crashes
          NoTask       \* no task object

Ids   == UploadIds \cup VideoIds
\* The n-th *Task created under id i since the process started.
Tasks == Ids \X (1..MaxGen)

Kinds    == {"upload", "download", "delete"}
\* "PendingOther": "Pending Purge (Scheduled)" and "Pending (Orphan Cleanup)".
\* "Working": any of the statuses a handler shows while it works.
Statuses == {"Pending", "PendingOther", "Processing", "Preparing", "Working",
             "Completed", "Error", "Cancelled"}
NoRow    == [kind |-> "none", status |-> "none"]
Row      == [kind : Kinds, status : Statuses] \cup {NoRow}

ASSUME QueueAssumption ==
  /\ UploadIds \cap VideoIds = {}
  /\ Cap \in Nat \ {0}
  /\ MaxGen \in Nat \ {0}
  /\ MaxCrashes \in Nat
  /\ NoTask \notin Tasks

VARIABLES phase,    \* "loading": Init reads the table; "up": the worker runs
          toLoad,   \* ids of the rows Init has still to read
          crashes,  \* crashes so far
          tasks,    \* q.tasks: id -> generation of its object, 0 if absent
          gen,      \* id -> objects created under it in this run
          kind,     \* fields of the objects: Type,
          status,   \*   Status,
          done,     \*   CompletedAt: "no" (zero), "recent", "old" (> 30 s)
          chan,     \* q.taskChan
          senders,  \* orphan tasks whose goroutine waits to send
          mu,       \* q.mu: "free", or what its holder is doing
          held,     \* the object the holder works on
          wpc,      \* where the worker is
          cur,      \* the object the worker has received
          rows      \* the tasks table: id -> row

vars == <<phase, toLoad, crashes, tasks, gen, kind, status, done, chan,
          senders, mu, held, wpc, cur, rows>>
lockVars   == <<mu, held>>
workerVars == <<wpc, cur>>
loadVars   == <<phase, toLoad, crashes>>

Obj(i) == <<i, tasks[i]>>

-----------------------------------------------------------------------------
(* SaveTask: an upsert that leaves the stored type of a known id alone.     *)
Upsert(i, k, s) ==
  [rows EXCEPT ![i] = [kind |-> IF @ = NoRow THEN k ELSE @.kind, status |-> s]]

Save(o, s) == rows' = Upsert(o[1], kind[o], s)

\* What the callers of AddTask ask for: an upload from the API or the
\* virtual disk, a download, a permanent deletion, the nightly purge.
Request(i) ==
  IF i \in UploadIds
  THEN {<<"upload", "Pending">>}
  ELSE {<<"download", "Pending">>, <<"delete", "Pending">>,
        <<"delete", "PendingOther">>}

\* Slip: the new task is listed but not saved.
AddTaskUnsaved(i, req) ==
  LET o == <<i, gen[i] + 1>> IN
  /\ phase = "up" /\ mu = "free"
  /\ req \in Request(i)
  /\ gen[i] < MaxGen
  /\ i \in UploadIds => gen[i] = 0 /\ rows[i] = NoRow
  /\ gen'    = [gen EXCEPT ![i] = @ + 1]
  /\ tasks'  = [tasks EXCEPT ![i] = gen[i] + 1]
  /\ kind'   = [kind EXCEPT ![o] = req[1]]
  /\ status' = [status EXCEPT ![o] = req[2]]
  /\ mu' = "add" /\ held' = o
  /\ UNCHANGED <<loadVars, done, chan, senders, workerVars, rows>>

\* Up to the send, which blocks with the mutex held.
AddTask(i, req) ==
  LET o == <<i, gen[i] + 1>> IN
  /\ phase = "up" /\ mu = "free"
  /\ req \in Request(i)
  /\ gen[i] < MaxGen
  /\ i \in UploadIds => gen[i] = 0 /\ rows[i] = NoRow
  /\ gen'    = [gen EXCEPT ![i] = @ + 1]
  /\ tasks'  = [tasks EXCEPT ![i] = gen[i] + 1]
  /\ kind'   = [kind EXCEPT ![o] = req[1]]
  /\ status' = [status EXCEPT ![o] = req[2]]
  /\ rows'   = Upsert(i, req[1], req[2])
  /\ mu' = "add" /\ held' = o
  /\ UNCHANGED <<loadVars, done, chan, senders, workerVars>>

\* Slips: a channel without a buffer, a send that does not wait for a place,
\* one that jumps the line.
SendAddedUnbuffered ==
  /\ mu = "add"
  /\ chan = <<>> /\ wpc = "idle"
  /\ chan' = Append(chan, held)
  /\ mu' = "free" /\ held' = NoTask
  /\ UNCHANGED <<loadVars, tasks, gen, kind, status, done, senders,
                 workerVars, rows>>
SendAddedUnbounded ==
  /\ mu = "add"
  /\ chan' = Append(chan, held)
  /\ mu' = "free" /\ held' = NoTask
  /\ UNCHANGED <<loadVars, tasks, gen, kind, status, done, senders,
                 workerVars, rows>>
SendAddedFirst ==
  /\ mu = "add"
  /\ Len(chan) < Cap
  /\ chan' = <<held>> \o chan
  /\ mu' = "free" /\ held' = NoTask
  /\ UNCHANGED <<loadVars, tasks, gen, kind, status, done, senders,
                 workerVars, rows>>

\* The send of AddTask, and its return.
SendAdded ==
  /\ mu = "add"
  /\ Len(chan) < Cap
  /\ chan' = Append(chan, held)
  /\ mu' = "free" /\ held' = NoTask
  /\ UNCHANGED <<loadVars, tasks, gen, kind, status, done, senders,
                 workerVars, rows>>

\* RemoveTask up to the deletion of the row.
RemoveTask(i) ==
  /\ phase = "up" /\ mu = "free"
  /\ tasks[i] # 0
  /\ status' = [status EXCEPT ![Obj(i)] = "Cancelled"]
  /\ Save(Obj(i), "Cancelled")
  /\ tasks' = [tasks EXCEPT ![i] = 0]
  /\ mu' = "remove" /\ held' = Obj(i)
  /\ UNCHANGED <<loadVars, gen, kind, done, chan, senders, workerVars>>

DeleteRow ==
  /\ mu = "remove"
  /\ rows' = [rows EXCEPT ![held[1]] = NoRow]
  /\ mu' = "free" /\ held' = NoTask
  /\ UNCHANGED <<loadVars, tasks, gen, kind, status, done, chan, senders,
                 workerVars>>

-----------------------------------------------------------------------------
(* The worker.                                                              *)
Receive ==
  /\ phase = "up" /\ wpc = "idle"
  /\ chan # <<>>
  /\ cur' = Head(chan)
  /\ chan' = Tail(chan)
  /\ wpc' = "start"
  /\ UNCHANGED <<loadVars, tasks, gen, kind, status, done, senders, lockVars,
                 rows>>

\* First critical section of processTask.
BeginTask ==
  /\ wpc = "start" /\ mu = "free"
  /\ status' = [status EXCEPT ![cur] = "Processing"]
  /\ Save(cur, "Processing")
  /\ wpc' = "enter"
  /\ UNCHANGED <<loadVars, tasks, gen, kind, done, chan, senders, lockVars,
                 cur>>

\* A handler's first status; handleDelete shows it without saving it.
EnterHandler ==
  /\ wpc = "enter"
  /\ status' = [status EXCEPT ![cur] = IF kind[cur] = "download"
                                       THEN "Preparing" ELSE "Working"]
  /\ wpc' = IF kind[cur] = "delete" THEN "run" ELSE "save"
  /\ UNCHANGED <<loadVars, tasks, gen, kind, done, chan, senders, lockVars,
                 cur, rows>>

\* updateTaskState from a handler: no lock is held.
SaveProgress ==
  /\ wpc = "save"
  /\ Save(cur, status[cur])
  /\ wpc' = "run"
  /\ UNCHANGED <<loadVars, tasks, gen, kind, status, done, chan, senders,
                 lockVars, cur>>

\* A later status of an upload or a download, most of them saved next.
ShowProgress ==
  /\ wpc = "run" /\ kind[cur] # "delete"
  /\ status' = [status EXCEPT ![cur] = "Working"]
  /\ wpc' \in {"save", "run"}
  /\ UNCHANGED <<loadVars, tasks, gen, kind, done, chan, senders, lockVars,
                 cur, rows>>

\* The handler returns.  Deletions never fail; an upload that finds its
\* content in the cloud says "Completed" itself.
HandlerReturn ==
  /\ wpc = "run"
  /\ \/ wpc' = "ok" /\ UNCHANGED status
     \/ wpc' = "failed" /\ kind[cur] # "delete" /\ UNCHANGED status
     \/ /\ wpc' = "ok" /\ kind[cur] = "upload"
        /\ status' = [status EXCEPT ![cur] = "Completed"]
  /\ UNCHANGED <<loadVars, tasks, gen, kind, done, chan, senders, lockVars,
                 cur, rows>>

\* Slips: a failed task is sent again; the completion time is not set.
FinishTaskRetry ==
  LET s == IF wpc = "ok" THEN "Completed" ELSE "Error" IN
  /\ wpc \in {"ok", "failed"} /\ mu = "free"
  /\ status' = [status EXCEPT ![cur] = s]
  /\ done' = [done EXCEPT ![cur] = "recent"]
  /\ chan' = IF wpc = "failed" THEN Append(chan, cur) ELSE chan
  /\ Save(cur, s)
  /\ wpc' = "idle" /\ cur' = NoTask
  /\ UNCHANGED <<loadVars, tasks, gen, kind, senders, lockVars>>
FinishTaskUntimed ==
  LET s == IF wpc = "ok" THEN "Completed" ELSE "Error" IN
  /\ wpc \in {"ok", "failed"} /\ mu = "free"
  /\ status' = [status EXCEPT ![cur] = s]
  /\ Save(cur, s)
  /\ wpc' = "idle" /\ cur' = NoTask
  /\ UNCHANGED <<loadVars, tasks, gen, kind, done, chan, senders, lockVars>>

\* Slip: a task that was removed is not saved at its end.
FinishTaskListed ==
  LET s == IF wpc = "ok" THEN "Completed" ELSE "Error" IN
  /\ wpc \in {"ok", "failed"} /\ mu = "free"
  /\ status' = [status EXCEPT ![cur] = s]
  /\ done' = [done EXCEPT ![cur] = "recent"]
  /\ IF tasks[cur[1]] # 0 THEN Save(cur, s) ELSE UNCHANGED rows
  /\ wpc' = "idle" /\ cur' = NoTask
  /\ UNCHANGED <<loadVars, tasks, gen, kind, chan, senders, lockVars>>

\* Last critical section of processTask.
FinishTask ==
  LET s == IF wpc = "ok" THEN "Completed" ELSE "Error" IN
  /\ wpc \in {"ok", "failed"} /\ mu = "free"
  /\ status' = [status EXCEPT ![cur] = s]
  /\ done' = [done EXCEPT ![cur] = "recent"]
  /\ Save(cur, s)
  /\ wpc' = "idle" /\ cur' = NoTask
  /\ UNCHANGED <<loadVars, tasks, gen, kind, chan, senders, lockVars>>

Worker == \/ Receive \/ BeginTask \/ EnterHandler \/ SaveProgress
          \/ ShowProgress \/ HandlerReturn \/ FinishTask

-----------------------------------------------------------------------------
(* The ticker goroutine and the orphan cleanup.                             *)

\* Thirty seconds pass since object o was completed.
Age(o) ==
  /\ done[o] = "recent"
  /\ done' = [done EXCEPT ![o] = "old"]
  /\ UNCHANGED <<loadVars, tasks, gen, kind, status, chan, senders, lockVars,
                 workerVars, rows>>

\* Slip: only failed tasks are taken off the list.
ExpiredErrors == {i \in Ids : /\ tasks[i] # 0
                              /\ done[Obj(i)] = "old"
                              /\ status[Obj(i)] = "Error"}
Expired == {i \in Ids : /\ tasks[i] # 0
                        /\ done[Obj(i)] = "old"
                        /\ status[Obj(i)] \in {"Completed", "Error"}}

\* Slip: a tick that deletes the rows and leaves the entries.
CleanupTickRowsOnly ==
  /\ phase = "up" /\ mu = "free"
  /\ Expired # {}
  /\ rows'  = [i \in Ids |-> IF i \in Expired THEN NoRow ELSE rows[i]]
  /\ UNCHANGED <<loadVars, tasks, gen, kind, status, done, chan, senders,
                 lockVars, workerVars>>

\* One tick of cleanupCompletedTasks.
CleanupTick ==
  /\ phase = "up" /\ mu = "free"
  /\ Expired # {}
  /\ rows'  = [i \in Ids |-> IF i \in Expired THEN NoRow ELSE rows[i]]
  /\ tasks' = [i \in Ids |-> IF i \in Expired THEN 0 ELSE tasks[i]]
  /\ UNCHANGED <<loadVars, gen, kind, status, done, chan, senders, lockVars,
                 workerVars>>

\* CleanupOrphanedVideos for the videos of the files in the trash.
OrphanCleanup(trash) ==
  LET new == {v \in trash : tasks[v] = 0}
      next(v) == <<v, gen[v] + 1>>
      created == {next(v) : v \in new} IN
  /\ phase = "up" /\ mu = "free"
  /\ new # {}
  /\ \A v \in new : gen[v] < MaxGen
  /\ gen'    = [i \in Ids |-> IF i \in new THEN gen[i] + 1 ELSE gen[i]]
  /\ tasks'  = [i \in Ids |-> IF i \in new THEN gen[i] + 1 ELSE tasks[i]]
  /\ kind'   = [o \in Tasks |-> IF o \in created THEN "delete" ELSE kind[o]]
  /\ status' = [o \in Tasks |-> IF o \in created THEN "PendingOther"
                                ELSE status[o]]
  /\ senders' = senders \cup created
  /\ UNCHANGED <<loadVars, done, chan, lockVars, workerVars, rows>>

\* Slip: the goroutine keeps the task after it sent it.
SendOrphanAgain(o) ==
  /\ o \in senders
  /\ Len(chan) < Cap
  /\ chan' = Append(chan, o)
  /\ UNCHANGED <<loadVars, tasks, gen, kind, status, done, senders, lockVars,
                 workerVars, rows>>

SendOrphan(o) ==
  /\ o \in senders
  /\ Len(chan) < Cap
  /\ chan' = Append(chan, o)
  /\ senders' = senders \ {o}
  /\ UNCHANGED <<loadVars, tasks, gen, kind, status, done, lockVars,
                 workerVars, rows>>

-----------------------------------------------------------------------------
(* Crash and restart.                                                       *)
NoEntries == [i \in Ids |-> 0]
NewTasks(x) == [o \in Tasks |-> x]   \* a field of the unused objects

Stored == {i \in Ids : rows[i] # NoRow}

Crash ==
  /\ crashes < MaxCrashes
  /\ crashes' = crashes + 1
  /\ phase' = "loading"
  /\ toLoad' = Stored
  /\ tasks' = NoEntries /\ gen' = NoEntries
  /\ kind' = NewTasks("upload") /\ status' = NewTasks("Pending")
  /\ done' = NewTasks("no")
  /\ chan' = <<>> /\ senders' = {}
  /\ mu' = "free" /\ held' = NoTask
  /\ wpc' = "idle" /\ cur' = NoTask
  /\ UNCHANGED rows

\* Slip: only a task that had begun is resumed.
ResumedBegun == {"Preparing"}

\* The statuses Init resumes ("In Progress", which it also names, is written
\* by nobody).
Resumed == {"Pending", "Preparing"}

\* Init reads one row; the worker does not run yet, so the send may block.
LoadRow(i) ==
  LET o == <<i, 1>> IN
  /\ phase = "loading" /\ i \in toLoad
  /\ toLoad' = toLoad \ {i}
  /\ gen'    = [gen EXCEPT ![i] = 1]
  /\ tasks'  = [tasks EXCEPT ![i] = 1]
  /\ kind'   = [kind EXCEPT ![o] = rows[i].kind]
  /\ status' = [status EXCEPT ![o] = rows[i].status]
  /\ IF rows[i].status \in Resumed
     THEN Len(chan) < Cap /\ chan' = Append(chan, o)
     ELSE UNCHANGED chan
  /\ UNCHANGED <<phase, crashes, done, senders, lockVars, workerVars, rows>>

StartWorker ==
  /\ phase = "loading" /\ toLoad = {}
  /\ phase' = "up"
  /\ UNCHANGED <<toLoad, crashes, tasks, gen, kind, status, done, chan,
                 senders, lockVars, workerVars, rows>>

-----------------------------------------------------------------------------
Init ==
  /\ phase = "loading" /\ toLoad = {} /\ crashes = 0
  /\ tasks = NoEntries /\ gen = NoEntries
  /\ kind = NewTasks("upload") /\ status = NewTasks("Pending")
  /\ done = NewTasks("no")
  /\ chan = <<>> /\ senders = {}
  /\ mu = "free" /\ held = NoTask
  /\ wpc = "idle" /\ cur = NoTask
  /\ rows = [i \in Ids |-> NoRow]

Next ==
  \/ \E i \in Ids : \E req \in Request(i) : AddTask(i, req)
  \/ SendAdded
  \/ \E i \in Ids : RemoveTask(i)
  \/ DeleteRow
  \/ Worker
  \/ \E o \in Tasks : Age(o)
  \/ CleanupTick
  \/ \E trash \in SUBSET VideoIds : OrphanCleanup(trash)
  \/ \E o \in Tasks : SendOrphan(o)
  \/ Crash
  \/ \E i \in Ids : LoadRow(i)
  \/ StartWorker

Spec == Init /\ [][Next]_vars

(***************************************************************************)
(* Fairness.  Handlers end (their loops are over shards and every tool     *)
(* they run has a deadline or an end of input), a Go mutex hands itself to *)
(* a starving waiter and a channel serves blocked senders in order: hence  *)
(* strong fairness for the steps that wait for one of the two.             *)
(***************************************************************************)
Fairness ==
  /\ SF_vars(SendAdded) /\ WF_vars(DeleteRow)
  /\ WF_vars(Receive) /\ SF_vars(BeginTask) /\ WF_vars(EnterHandler)
  /\ WF_vars(SaveProgress) /\ SF_vars(HandlerReturn) /\ SF_vars(FinishTask)
  /\ \A o \in Tasks : WF_vars(Age(o)) /\ SF_vars(SendOrphan(o))
  /\ SF_vars(CleanupTick)
  /\ \A i \in Ids : WF_vars(LoadRow(i))
  /\ WF_vars(StartWorker)

FairSpec == Spec /\ Fairness

-----------------------------------------------------------------------------
(* Properties.                                                              *)

\* Every variable has its type.
TypeOK ==
  /\ phase \in {"loading", "up"}
  /\ toLoad \subseteq Ids
  /\ crashes \in 0..MaxCrashes
  /\ tasks \in [Ids -> 0..MaxGen]
  /\ gen \in [Ids -> 0..MaxGen]
  /\ kind \in [Tasks -> Kinds]
  /\ status \in [Tasks -> Statuses]
  /\ done \in [Tasks -> {"no", "recent", "old"}]
  /\ chan \in Seq(Tasks) /\ Len(chan) <= Cap
  /\ senders \subseteq Tasks
  /\ mu \in {"free", "add", "remove"}
  /\ held \in Tasks \cup {NoTask}
  /\ wpc \in {"idle", "start", "enter", "save", "run", "ok", "failed"}
  /\ cur \in Tasks \cup {NoTask}
  /\ rows \in [Ids -> Row]

InChan  == {chan[n] : n \in DOMAIN chan}
Adding  == IF mu = "add" THEN {held} ELSE {}
Waiting == InChan \cup senders \cup Adding

\* One task object is delivered to the worker at most once: it is in one place
\* of the channel, or with one goroutine that will send it, or being worked
\* on, never in two of them, whatever AddTask, the reload and the orphan
\* cleanup do at the same time.
DeliveredOnce ==
  /\ \A m, n \in DOMAIN chan : chan[m] = chan[n] => m = n
  /\ InChan \cap (senders \cup Adding \cup {cur}) = {}
  /\ senders \cap (Adding \cup {cur}) = {}
  /\ cur \notin Adding

\* A task the GUI lists as "Pending" will be worked on: it is on its way to
\* the worker.  No interleaving leaves a pending entry that nobody holds.
PendingIsQueued ==
  \A i \in Ids : tasks[i] # 0 /\ status[Obj(i)] = "Pending" =>
    Obj(i) \in Waiting \/ (wpc = "start" /\ cur = Obj(i))

\* What AddTask accepted survives a crash: as long as an upload is pending its
\* row says so and Init will resume it as an upload.
PendingUploadIsStored ==
  \A i \in UploadIds : tasks[i] # 0 /\ status[Obj(i)] = "Pending" =>
    rows[i] = [kind |-> "upload", status |-> "Pending"]

\* A task the GUI lists has a row, except the orphan cleanup's own before the
\* worker gets to them: the two are removed together or not at all.
ListedIsStored ==
  \A i \in Ids : tasks[i] # 0 /\ status[Obj(i)] # "PendingOther" =>
    rows[i] # NoRow

\* A finished task is not worked on again: only a cancellation changes its
\* status (processTask and the handlers write it without a check).
FinishedIsFinal ==
  [][\A o \in Tasks : done[o] # "no" /\ done'[o] # "no" =>
       status'[o] \in {status[o], "Cancelled"}]_vars

\* The queue implements the abstract job queue: each job once, in order, one
\* at a time.
JQ == INSTANCE JobQueue WITH
        Jobs <- Tasks, NoJob <- NoTask,
        offered <- senders \cup Adding, line <- chan, active <- cur,
        finished <- {o \in Tasks : done[o] # "no"}
ImplementsJobQueue == JQ!Spec

\* AddTask returns to its caller, an HTTP handler: it blocks on a full channel
\* with the mutex the worker needs (README.md:254 promises the opposite).
AddTaskReturns == mu = "add" ~> mu # "add"

\* Every task on its way to the worker is finished, unless the daemon dies.
QueuedIsFinished ==
  \A o \in Tasks : o \in Waiting ~> (done[o] # "no" \/ phase = "loading")

\* A stored pending upload is eventually started, across crashes.
StoredUploadStarts ==
  \A i \in UploadIds : rows[i].status = "Pending" ~> rows[i].status # "Pending"

\* A finished task leaves the list and the table by the cleanup ticker.
FinishedIsForgotten ==
  \A i \in Ids : (tasks[i] # 0 /\ done[Obj(i)] # "no") ~>
                   (tasks[i] = 0 \/ done[Obj(i)] = "no")

\* "Remove from DB so it doesn't resume" (queue.go:146): a row Init would
\* resume belongs to a task on the list, or to one removed while its handler
\* runs, which saves it again and, if the daemon dies then, resumes.
RemovedDoesNotResume ==
  phase = "up" =>
    \A i \in Ids : rows[i].status \in Resumed =>
      tasks[i] # 0 \/ \E g \in 1..MaxGen : cur = <<i, g>>
=============================================================================
