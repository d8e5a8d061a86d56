-------------------------- MODULE TaskQueueProofs ---------------------------
(***************************************************************************)
(* Machine-checked proofs about TaskQueue, for every set of ids, every     *)
(* channel capacity and every bound.                                       *)
(***************************************************************************)
EXTENDS TaskQueue, SequenceLemmas, TLAPS

\* The lock, the worker's position and the reload agree with the objects they
\* work on; TypeOK alone is not inductive.
LockInv == mu = "free" <=> held = NoTask
WorkInv == wpc = "idle" <=> cur = NoTask
LoadInv == /\ \A i \in toLoad : rows[i] # NoRow /\ gen[i] = 0
           /\ phase = "loading" => /\ mu = "free" /\ wpc = "idle"
                                   /\ senders = {}
           /\ phase = "up" => toLoad = {}

TypeInv == TypeOK /\ LockInv /\ WorkInv /\ LoadInv

-----------------------------------------------------------------------------
(* An upsert of a task with a type and a status leaves a table of rows.     *)
LEMMA UpsertRow ==
  ASSUME rows \in [Ids -> Row], NEW i \in Ids, NEW k \in Kinds,
         NEW s \in Statuses
  PROVE  /\ Upsert(i, k, s) \in [Ids -> Row]
         /\ \A j \in Ids : Upsert(i, k, s)[j] # NoRow <=>
                           (j = i \/ rows[j] # NoRow)
<1>1. "none" \notin Kinds
  BY DEF Kinds
<1>2. (IF rows[i] = NoRow THEN k ELSE rows[i].kind) \in Kinds
  BY DEF Row
<1>3. [kind |-> IF rows[i] = NoRow THEN k ELSE rows[i].kind, status |-> s]
        \in Row \ {NoRow}
  BY <1>1, <1>2 DEF Row, NoRow
<1>4. QED
  BY <1>3 DEF Upsert

LEMMA UpsertCur ==
  ASSUME TypeInv, cur # NoTask, NEW s \in Statuses
  PROVE  Upsert(cur[1], kind[cur], s) \in [Ids -> Row]
<1>1. cur \in Tasks /\ cur[1] \in Ids /\ kind[cur] \in Kinds
  BY DEF TypeInv, TypeOK, Tasks
<1>2. QED
  BY <1>1, UpsertRow DEF TypeInv, TypeOK

-----------------------------------------------------------------------------
(* Type correctness.                                                        *)

\* The initial state has the right types.
LEMMA TypeInit == Init => TypeInv
<1> SUFFICES ASSUME Init PROVE TypeInv
  OBVIOUS
<1> USE QueueAssumption DEF Init, NoEntries, NewTasks
<1>1. TypeOK
  BY DEF TypeOK, Kinds, Statuses, Row, NoRow
<1>2. LockInv /\ WorkInv /\ LoadInv
  BY DEF LockInv, WorkInv, LoadInv
<1>3. QED
  BY <1>1, <1>2 DEF TypeInv

\* Every step keeps the types.
LEMMA TypeStep == TypeInv /\ [Next]_vars => TypeInv'
<1> SUFFICES ASSUME TypeInv, [Next]_vars PROVE TypeInv'
  OBVIOUS
<1> USE QueueAssumption DEF TypeInv, TypeOK, LockInv, WorkInv, LoadInv,
      loadVars, lockVars, workerVars, Statuses
<1>1. ASSUME NEW i \in Ids, NEW req \in Request(i), AddTask(i, req)
      PROVE  TypeInv'
  <2>1. req[1] \in Kinds /\ req[2] \in Statuses
    BY DEF Request, Kinds
  <2>2. <<i, gen[i] + 1>> \in Tasks
    BY <1>1 DEF AddTask, Tasks
  <2>3. rows' \in [Ids -> Row]
    BY <1>1, <2>1, UpsertRow DEF AddTask
  <2>4. /\ gen' \in [Ids -> 0..MaxGen] /\ tasks' \in [Ids -> 0..MaxGen]
        /\ kind' \in [Tasks -> Kinds] /\ status' \in [Tasks -> Statuses]
    BY <1>1, <2>1, <2>2 DEF AddTask
  <2>5. QED
    BY <1>1, <2>2, <2>3, <2>4 DEF AddTask
<1>2. CASE SendAdded
  <2>1. /\ held \in Tasks
        /\ Append(chan, held) \in Seq(Tasks)
        /\ Len(Append(chan, held)) = Len(chan) + 1
    BY <1>2, AppendElems DEF SendAdded
  <2>2. QED
    BY <1>2, <2>1 DEF SendAdded
<1>3. ASSUME NEW i \in Ids, RemoveTask(i)
      PROVE  TypeInv'
  <2>1. Obj(i) \in Tasks /\ Obj(i)[1] \in Ids /\ kind[Obj(i)] \in Kinds
    BY <1>3 DEF RemoveTask, Obj, Tasks
  <2>2. rows' \in [Ids -> Row]
    BY <1>3, <2>1, UpsertRow DEF RemoveTask, Save
  <2>3. /\ tasks' \in [Ids -> 0..MaxGen] /\ status' \in [Tasks -> Statuses]
        /\ held' \in Tasks
    BY <1>3, <2>1 DEF RemoveTask
  <2>4. TypeOK'
    BY <1>3, <2>2, <2>3 DEF RemoveTask
  <2>5. QED
    BY <1>3, <2>3, <2>4 DEF RemoveTask
<1>4. CASE DeleteRow
  BY <1>4 DEF DeleteRow, Row
<1>5. CASE Receive
  <2>1. /\ Head(chan) \in Tasks /\ Tail(chan) \in Seq(Tasks)
        /\ Len(Tail(chan)) = Len(chan) - 1 /\ Len(chan) \in Nat
    BY <1>5, TailElems DEF Receive
  <2>2. QED
    BY <1>5, <2>1 DEF Receive
<1>6. CASE BeginTask
  <2>1. rows' \in [Ids -> Row]
    BY <1>6, UpsertCur DEF BeginTask, Save
  <2>2. QED
    BY <1>6, <2>1 DEF BeginTask
<1>7. CASE EnterHandler
  BY <1>7 DEF EnterHandler
<1>8. CASE SaveProgress
  <2>1. rows' \in [Ids -> Row]
    BY <1>8, UpsertCur DEF SaveProgress, Save
  <2>2. QED
    BY <1>8, <2>1 DEF SaveProgress
<1>9. CASE ShowProgress
  BY <1>9 DEF ShowProgress
<1>10. CASE HandlerReturn
  BY <1>10 DEF HandlerReturn
<1>11. CASE FinishTask
  <2>1. rows' \in [Ids -> Row]
    BY <1>11, UpsertCur DEF FinishTask, Save
  <2>2. QED
    BY <1>11, <2>1 DEF FinishTask
<1>12. ASSUME NEW o \in Tasks, Age(o)
       PROVE  TypeInv'
  BY <1>12 DEF Age
<1>13. CASE CleanupTick
  <2>1. rows' \in [Ids -> Row] /\ tasks' \in [Ids -> 0..MaxGen]
    BY <1>13 DEF CleanupTick, Row
  <2>2. QED
    BY <1>13, <2>1 DEF CleanupTick
<1>14. ASSUME NEW trash \in SUBSET VideoIds, OrphanCleanup(trash)
       PROVE  TypeInv'
  <2> DEFINE new == {v \in trash : tasks[v] = 0}
             created == {<<v, gen[v] + 1>> : v \in new}
  <2>1. created \subseteq Tasks
    BY <1>14 DEF OrphanCleanup, Tasks, Ids
  <2>2. gen' \in [Ids -> 0..MaxGen] /\ tasks' \in [Ids -> 0..MaxGen]
    BY <1>14 DEF OrphanCleanup
  <2>3. kind' \in [Tasks -> Kinds] /\ status' \in [Tasks -> Statuses]
    BY <1>14 DEF OrphanCleanup, Kinds
  <2>4. QED
    BY <1>14, <2>1, <2>2, <2>3 DEF OrphanCleanup
<1>15. ASSUME NEW o \in Tasks, SendOrphan(o)
       PROVE  TypeInv'
  <2>1. /\ Append(chan, o) \in Seq(Tasks)
        /\ Len(Append(chan, o)) = Len(chan) + 1
    BY AppendElems
  <2>2. QED
    BY <1>15, <2>1 DEF SendOrphan
<1>16. CASE Crash
  <2>1. TypeOK'
    BY <1>16 DEF Crash, NoEntries, NewTasks, Stored, Kinds
  <2>2. QED
    BY <1>16, <2>1 DEF Crash, NoEntries, Stored
<1>17. ASSUME NEW i \in Ids, LoadRow(i)
       PROVE  TypeInv'
  <2>1. <<i, 1>> \in Tasks
    BY DEF Tasks
  <2>2. rows[i].kind \in Kinds /\ rows[i].status \in Statuses
    BY <1>17 DEF LoadRow, Row
  <2>3. chan' \in Seq(Tasks) /\ Len(chan') <= Cap
    <3>1. /\ Append(chan, <<i, 1>>) \in Seq(Tasks)
          /\ Len(Append(chan, <<i, 1>>)) = Len(chan) + 1
      BY <2>1, AppendElems
    <3>2. CASE rows[i].status \in Resumed
      <4>1. Len(chan) < Cap /\ chan' = Append(chan, <<i, 1>>)
        BY <1>17, <3>2 DEF LoadRow
      <4>2. Len(chan) \in Nat
        OBVIOUS
      <4>3. QED
        BY <3>1, <4>1, <4>2
    <3>3. CASE rows[i].status \notin Resumed
      BY <1>17, <3>3 DEF LoadRow
    <3>4. QED
      BY <3>2, <3>3
  <2>4. /\ gen' \in [Ids -> 0..MaxGen] /\ tasks' \in [Ids -> 0..MaxGen]
        /\ kind' \in [Tasks -> Kinds] /\ status' \in [Tasks -> Statuses]
    BY <1>17, <2>1, <2>2 DEF LoadRow
  <2>5. QED
    BY <1>17, <2>3, <2>4 DEF LoadRow
<1>18. CASE StartWorker
  BY <1>18 DEF StartWorker
<1>19. CASE UNCHANGED vars
  BY <1>19 DEF vars
<1>20. QED
  BY <1>1, <1>2, <1>3, <1>4, <1>5, <1>6, <1>7, <1>8, <1>9, <1>10, <1>11,
     <1>12, <1>13, <1>14, <1>15, <1>16, <1>17, <1>18, <1>19 DEF Next, Worker

\* The queue's variables always have their types; in particular the channel
\* never holds more tasks than its capacity.
THEOREM TypeCorrect == Spec => []TypeOK
<1>1. TypeInv => TypeOK
  BY DEF TypeInv
<1>2. QED
  BY <1>1, TypeInit, TypeStep, PTL DEF Spec

-----------------------------------------------------------------------------
(* Delivery.                                                                *)

\* Objects on their way to the worker or with it exist, and so do those that
\* were finished; the latter are nowhere else.
GenInv ==
  /\ \A i \in Ids : tasks[i] <= gen[i]
  /\ \A o \in Tasks : o \in Waiting \cup {cur} \/ done[o] # "no" =>
       o[2] <= gen[o[1]]
FinInv == \A o \in Tasks : done[o] # "no" => o \notin Waiting \cup {cur}

\* What makes DeliveredOnce and PendingIsQueued inductive.
QueueInv == TypeInv /\ GenInv /\ FinInv /\ DeliveredOnce /\ PendingIsQueued

\* The elements of the channel, before and after a step.
LEMMA ChanElems ==
  /\ InChan = Elems(chan) /\ InChan' = Elems(chan')
  /\ (\A m, n \in DOMAIN chan : chan[m] = chan[n] => m = n) <=> Distinct(chan)
  /\ (\A m, n \in DOMAIN chan' : chan'[m] = chan'[n] => m = n) <=>
       Distinct(chan')
BY DEF InChan, Elems, Distinct

\* A step that moves no task object and creates none keeps the parts of the
\* invariant that say where objects are.
LEMMA NothingMoves ==
  ASSUME QueueInv, TypeInv',
         UNCHANGED <<chan, senders, cur, gen, Adding>>,
         \A o \in Tasks : done'[o] # "no" => done[o] # "no",
         \A i \in Ids : tasks'[i] \in {0, tasks[i]}
  PROVE  GenInv' /\ FinInv' /\ DeliveredOnce' /\ Waiting' = Waiting
<1>1. InChan' = InChan /\ Waiting' = Waiting
  BY DEF InChan, Waiting
<1>2. DeliveredOnce'
  BY <1>1 DEF QueueInv, DeliveredOnce
<1>3. GenInv'
  <2>1. \A i \in Ids : tasks[i] \in Nat /\ gen[i] \in Nat
    BY QueueAssumption DEF QueueInv, TypeInv, TypeOK
  <2>2. QED
    BY <1>1, <2>1 DEF QueueInv, GenInv
<1>4. FinInv'
  BY <1>1 DEF QueueInv, FinInv
<1>5. QED
  BY <1>1, <1>2, <1>3, <1>4

\* A new object of id i is with nobody yet.
LEMMA FreshTask ==
  ASSUME QueueInv, NEW i \in Ids, gen[i] < MaxGen
  PROVE  LET o == <<i, gen[i] + 1>> IN
         o \in Tasks /\ o \notin Waiting \cup {cur} /\ done[o] = "no"
<1>1. gen[i] \in Nat /\ <<i, gen[i] + 1>> \in Tasks
  BY QueueAssumption DEF QueueInv, TypeInv, TypeOK, Tasks
<1>2. ~(gen[i] + 1 <= gen[i])
  BY <1>1
<1>3. QED
  BY <1>1, <1>2 DEF QueueInv, GenInv

\* The invariant holds when the process starts for the first time.
LEMMA QueueInit == Init => QueueInv
<1> SUFFICES ASSUME Init PROVE QueueInv
  OBVIOUS
<1>1. TypeInv
  BY TypeInit
<1>2. Waiting = {} /\ InChan = {} /\ Adding = {} /\ cur = NoTask
  BY DEF Init, Waiting, InChan, Adding
<1>3. GenInv /\ FinInv
  BY <1>2, QueueAssumption DEF Init, GenInv, FinInv, NoEntries, NewTasks
<1>4. DeliveredOnce
  BY <1>2 DEF DeliveredOnce, Init
<1>5. PendingIsQueued
  BY DEF PendingIsQueued, Init, NoEntries
<1>6. QED
  BY <1>1, <1>3, <1>4, <1>5 DEF QueueInv

\* AddTask: the new object is in nobody's hands but the caller's.
LEMMA QueueAddTask ==
  ASSUME QueueInv, TypeInv', NEW i \in Ids, NEW req \in Request(i),
         AddTask(i, req)
  PROVE  QueueInv'
<1> DEFINE o == <<i, gen[i] + 1>>
<1>1. o \in Tasks /\ o \notin Waiting \cup {cur} /\ done[o] = "no"
  BY FreshTask DEF AddTask
<1>2. /\ InChan' = InChan /\ Adding = {} /\ Adding' = {o} /\ senders' = senders
      /\ cur' = cur /\ Waiting' = Waiting \cup {o} /\ chan' = chan
      /\ tasks' = [tasks EXCEPT ![i] = gen[i] + 1] /\ gen[i] < MaxGen
      /\ gen' = [gen EXCEPT ![i] = @ + 1] /\ done' = done
      /\ status' = [status EXCEPT ![o] = req[2]] /\ wpc' = wpc
  BY DEF AddTask, InChan, Adding, Waiting, workerVars
<1>3. /\ gen \in [Ids -> 0..MaxGen] /\ tasks \in [Ids -> 0..MaxGen]
      /\ status \in [Tasks -> Statuses] /\ MaxGen \in Nat
  BY QueueAssumption DEF QueueInv, TypeInv, TypeOK
<1> HIDE DEF o
<1>4. DeliveredOnce'
  BY <1>1, <1>2 DEF QueueInv, DeliveredOnce, Waiting
<1>5. GenInv'
  <2>1. \A j \in Ids : gen[j] <= gen'[j] /\ gen[j] \in Nat /\ gen'[j] \in Nat
    BY <1>2, <1>3
  <2>2. ASSUME NEW p \in Tasks,
               p \in Waiting' \cup {cur'} \/ done'[p] # "no"
        PROVE  p[2] <= gen'[p[1]]
    <3>1. CASE p = o
      BY <3>1, <1>2, <1>3 DEF o
    <3>2. CASE p # o
      <4>1. p[2] <= gen[p[1]] /\ p[1] \in Ids /\ p[2] \in Nat
        BY <3>2, <2>2, <1>2 DEF QueueInv, GenInv, Tasks
      <4>2. QED
        BY <4>1, <2>1
    <3>3. QED
      BY <3>1, <3>2
  <2>3. \A j \in Ids : tasks'[j] <= gen'[j]
    BY <1>2, <1>3 DEF QueueInv, GenInv
  <2>4. QED
    BY <2>2, <2>3 DEF GenInv
<1>6. FinInv'
  BY <1>1, <1>2 DEF QueueInv, FinInv
<1>7. PendingIsQueued'
  <2> SUFFICES ASSUME NEW j \in Ids, tasks'[j] # 0,
                      status'[<<j, tasks'[j]>>] = "Pending"
               PROVE  \/ <<j, tasks'[j]>> \in Waiting'
                      \/ wpc' = "start" /\ cur' = <<j, tasks'[j]>>
    BY DEF PendingIsQueued, Obj
  <2>1. CASE j = i
    BY <2>1, <1>2, <1>3 DEF o
  <2>2. CASE j # i
    <3>1. tasks'[j] = tasks[j] /\ <<j, tasks[j]>> \in Tasks
          /\ <<j, tasks[j]>> # o
      BY <2>2, <1>2, <1>3 DEF Tasks, o
    <3>2. status[<<j, tasks[j]>>] = "Pending"
      BY <3>1, <1>2, <1>3
    <3>3. QED
      BY <3>1, <3>2, <1>2 DEF QueueInv, PendingIsQueued, Obj
  <2>3. QED
    BY <2>1, <2>2
<1>8. QED
  BY <1>4, <1>5, <1>6, <1>7 DEF QueueInv

\* A send: object o leaves its sender's hands and joins the channel.
LEMMA QueueSend ==
  ASSUME QueueInv, TypeInv', NEW o \in Tasks,
         o \in senders \cup Adding,
         chan' = Append(chan, o),
         senders' \cup Adding' = (senders \cup Adding) \ {o},
         senders' \cap Adding' = {},
         senders' \subseteq senders, Adding' \subseteq Adding,
         UNCHANGED <<tasks, gen, status, done, workerVars>>
  PROVE  QueueInv'
<1>1. /\ Elems(chan') = Elems(chan) \cup {o}
      /\ Distinct(chan) /\ o \notin Elems(chan) => Distinct(chan')
  BY AppendElems DEF QueueInv, TypeInv, TypeOK
<1>2. InChan' = InChan \cup {o}
  BY <1>1, ChanElems
<1>3. Waiting' = Waiting
  BY <1>2 DEF Waiting
<1>4. cur' = cur /\ wpc' = wpc
  BY DEF workerVars
<1>5. o \notin InChan /\ o # cur
  BY DEF QueueInv, DeliveredOnce
<1>6. Distinct(chan')
  BY <1>1, <1>5, ChanElems DEF QueueInv, DeliveredOnce
<1>7. DeliveredOnce'
  BY <1>2, <1>4, <1>5, <1>6, ChanElems DEF QueueInv, DeliveredOnce
<1>8. GenInv' /\ FinInv'
  BY <1>3, <1>4 DEF QueueInv, GenInv, FinInv
<1>9. PendingIsQueued'
  BY <1>3, <1>4 DEF QueueInv, PendingIsQueued, Obj
<1>10. QED
  BY <1>7, <1>8, <1>9 DEF QueueInv

\* A step that moves no object and makes none pending keeps the invariant.
LEMMA QueueQuiet ==
  ASSUME QueueInv, TypeInv',
         UNCHANGED <<chan, senders, cur, gen, Adding>>,
         \A o \in Tasks : done'[o] # "no" => done[o] # "no",
         \A i \in Ids : tasks'[i] \in {0, tasks[i]},
         \A o \in Tasks : status'[o] = "Pending" =>
           /\ status[o] = "Pending"
           /\ wpc = "start" /\ cur = o => wpc' = "start"
  PROVE  QueueInv'
<1>1. GenInv' /\ FinInv' /\ DeliveredOnce' /\ Waiting' = Waiting
  BY NothingMoves
<1>2. PendingIsQueued'
  <2> SUFFICES ASSUME NEW i \in Ids, tasks'[i] # 0,
                      status'[<<i, tasks'[i]>>] = "Pending"
               PROVE  \/ <<i, tasks'[i]>> \in Waiting'
                      \/ wpc' = "start" /\ cur' = <<i, tasks'[i]>>
    BY DEF PendingIsQueued, Obj
  <2>1. tasks'[i] = tasks[i] /\ <<i, tasks[i]>> \in Tasks
    BY QueueAssumption DEF QueueInv, TypeInv, TypeOK, Tasks
  <2>2. /\ status[<<i, tasks[i]>>] = "Pending"
        /\ wpc = "start" /\ cur = <<i, tasks[i]>> => wpc' = "start"
    BY <2>1
  <2>3. QED
    BY <2>1, <2>2, <1>1 DEF QueueInv, PendingIsQueued, Obj
<1>3. QED
  BY <1>1, <1>2 DEF QueueInv

\* The worker takes the head of the line.
LEMMA QueueReceive == ASSUME QueueInv, TypeInv', Receive PROVE QueueInv'
<1>1. /\ Elems(chan) = Elems(chan') \cup {cur'}
      /\ Distinct(chan') /\ cur' \notin Elems(chan')
  BY TailElems, ChanElems DEF QueueInv, TypeInv, TypeOK, DeliveredOnce, Receive
<1>2. InChan = InChan' \cup {cur'} /\ cur' \notin InChan' /\ Distinct(chan')
  BY <1>1, ChanElems
<1>3. /\ Adding' = Adding /\ senders' = senders /\ done' = done /\ gen' = gen
      /\ tasks' = tasks /\ status' = status /\ wpc' = "start"
      /\ wpc = "idle" /\ cur = NoTask
  BY DEF Receive, Adding, lockVars, QueueInv, TypeInv, WorkInv
<1>4. Waiting' \cup {cur'} = Waiting
  BY <1>2, <1>3 DEF Waiting
<1>5. DeliveredOnce'
  BY <1>2, <1>3, ChanElems DEF QueueInv, DeliveredOnce
<1>6. GenInv' /\ FinInv'
  BY <1>3, <1>4 DEF QueueInv, GenInv, FinInv
<1>7. PendingIsQueued'
  BY <1>3, <1>4 DEF QueueInv, PendingIsQueued, Obj
<1>8. QED
  BY <1>5, <1>6, <1>7 DEF QueueInv

\* The worker finishes its object, which is nowhere else.
LEMMA QueueFinish == ASSUME QueueInv, TypeInv', FinishTask PROVE QueueInv'
<1>1. /\ Adding' = Adding /\ senders' = senders /\ gen' = gen
      /\ tasks' = tasks /\ chan' = chan /\ cur' = NoTask
      /\ wpc \in {"ok", "failed"} /\ wpc' = "idle"
      /\ cur \in Tasks /\ cur # NoTask
      /\ done' = [done EXCEPT ![cur] = "recent"]
  BY DEF FinishTask, Adding, lockVars, QueueInv, TypeInv, TypeOK, WorkInv
<1>2. InChan' = InChan /\ Waiting' = Waiting
  BY <1>1 DEF InChan, Waiting
<1>3. NoTask \notin Waiting
  <2>1. InChan \subseteq Tasks
    BY DEF QueueInv, TypeInv, TypeOK, InChan
  <2>2. Adding \subseteq Tasks /\ senders \subseteq Tasks
    BY DEF QueueInv, TypeInv, TypeOK, LockInv, Adding
  <2>3. QED
    BY <2>1, <2>2, QueueAssumption DEF Waiting
<1>4. cur \notin Waiting
  BY <1>1 DEF QueueInv, DeliveredOnce, Waiting
<1>5. DeliveredOnce'
  BY <1>1, <1>2, <1>3 DEF QueueInv, DeliveredOnce, Waiting
<1>6. \A o \in Tasks : done'[o] # "no" => done[o] # "no" \/ o = cur
  BY <1>1 DEF QueueInv, TypeInv, TypeOK
<1>7. GenInv' /\ FinInv'
  BY <1>1, <1>2, <1>4, <1>6, QueueAssumption
  DEF QueueInv, GenInv, FinInv
<1>8. PendingIsQueued'
  <2>1. \A o \in Tasks : status'[o] = "Pending" => status[o] = "Pending"
    BY DEF FinishTask, QueueInv, TypeInv, TypeOK
  <2>2. \A i \in Ids : Obj(i) \in Tasks \/ tasks[i] = 0
    BY QueueAssumption DEF QueueInv, TypeInv, TypeOK, Tasks, Obj
  <2>3. QED
    BY <1>1, <1>2, <2>1, <2>2 DEF QueueInv, PendingIsQueued, Obj
<1>9. QED
  BY <1>5, <1>7, <1>8 DEF QueueInv

\* The orphan cleanup creates objects that only their goroutines hold.
LEMMA QueueOrphans ==
  ASSUME QueueInv, TypeInv', NEW trash \in SUBSET VideoIds,
         OrphanCleanup(trash)
  PROVE  QueueInv'
<1> DEFINE new == {v \in trash : tasks[v] = 0}
           created == {<<v, gen[v] + 1>> : v \in new}
<1>1. \A v \in new : v \in Ids /\ gen[v] < MaxGen
  BY DEF OrphanCleanup, Ids
<1>2. \A o \in created : /\ o \in Tasks /\ o \notin Waiting \cup {cur}
                         /\ done[o] = "no" /\ o[1] \in new
                         /\ o[2] = gen[o[1]] + 1
  BY <1>1, FreshTask
<1>3. /\ chan' = chan /\ cur' = cur /\ wpc' = wpc /\ done' = done
      /\ Adding = {} /\ Adding' = {} /\ senders' = senders \cup created
      /\ gen' = [j \in Ids |-> IF j \in new THEN gen[j] + 1 ELSE gen[j]]
      /\ tasks' = [j \in Ids |-> IF j \in new THEN gen[j] + 1 ELSE tasks[j]]
      /\ status' = [o \in Tasks |-> IF o \in created THEN "PendingOther"
                                    ELSE status[o]]
  BY DEF OrphanCleanup, Adding, lockVars, workerVars
<1>4. /\ \A j \in Ids : gen[j] \in Nat /\ tasks[j] \in Nat
      /\ \A j \in Ids : gen[j] <= gen'[j] /\ gen'[j] \in Nat
      /\ \A o \in Tasks : o[1] \in Ids /\ o[2] \in Nat
  BY <1>3, QueueAssumption DEF QueueInv, TypeInv, TypeOK, Tasks
<1> HIDE DEF new, created
<1>5. InChan' = InChan /\ Waiting' = Waiting \cup created
  BY <1>3 DEF InChan, Waiting
<1>6. DeliveredOnce'
  BY <1>2, <1>3, <1>5 DEF QueueInv, DeliveredOnce, Waiting
<1>7. FinInv'
  BY <1>2, <1>3, <1>5 DEF QueueInv, FinInv
<1>8. GenInv'
  <2>1. \A j \in Ids : tasks'[j] <= gen'[j]
    BY <1>3, <1>4 DEF QueueInv, GenInv
  <2>2. ASSUME NEW o \in Tasks, o \in Waiting' \cup {cur'} \/ done'[o] # "no"
        PROVE  o[2] <= gen'[o[1]]
    <3>1. CASE o \in created
      <4>1. o[1] \in new /\ o[2] = gen[o[1]] + 1 /\ gen'[o[1]] = gen[o[1]] + 1
        BY <3>1, <1>2, <1>3, <1>4
      <4>2. QED
        BY <4>1, <1>4
    <3>2. CASE o \notin created
      <4>1. o[2] <= gen[o[1]]
        BY <3>2, <2>2, <1>3, <1>5 DEF QueueInv, GenInv
      <4>2. QED
        BY <4>1, <1>4
    <3>3. QED
      BY <3>1, <3>2
  <2>3. QED
    BY <2>1, <2>2 DEF GenInv
<1>9. PendingIsQueued'
  <2> SUFFICES ASSUME NEW i \in Ids, tasks'[i] # 0,
                      status'[<<i, tasks'[i]>>] = "Pending"
               PROVE  \/ <<i, tasks'[i]>> \in Waiting'
                      \/ wpc' = "start" /\ cur' = <<i, tasks'[i]>>
    BY DEF PendingIsQueued, Obj
  <2>1. CASE i \in new
    <3>1. <<i, tasks'[i]>> \in created
      BY <2>1, <1>3 DEF created
    <3>2. QED
      BY <3>1, <1>5
  <2>2. CASE i \notin new
    <3>1. tasks'[i] = tasks[i]
      BY <2>2, <1>3
    <3>2. <<i, tasks[i]>> \in Tasks /\ <<i, tasks[i]>> \notin created
      BY <3>1, <2>2, <1>2, QueueAssumption
      DEF QueueInv, TypeInv, TypeOK, Tasks
    <3>3. status[<<i, tasks[i]>>] = "Pending"
      BY <3>1, <3>2, <1>3
    <3>4. QED
      BY <3>1, <3>3, <1>3, <1>5 DEF QueueInv, PendingIsQueued, Obj
  <2>3. QED
    BY <2>1, <2>2
<1>10. QED
  BY <1>6, <1>7, <1>8, <1>9 DEF QueueInv

\* Init reads a row: its object is new, and joins the line if it is resumed.
LEMMA QueueLoadRow ==
  ASSUME QueueInv, TypeInv', NEW i \in Ids, LoadRow(i)
  PROVE  QueueInv'
<1> DEFINE o == <<i, 1>>
<1>1. gen[i] = 0 /\ phase = "loading" /\ mu = "free" /\ wpc = "idle"
      /\ senders = {}
  BY DEF QueueInv, TypeInv, LoadInv, LoadRow
<1>2. o \in Tasks /\ o \notin Waiting \cup {cur} /\ done[o] = "no"
  <2>1. gen[i] < MaxGen /\ gen[i] + 1 = 1
    BY <1>1, QueueAssumption
  <2>2. QED
    BY <2>1, FreshTask
<1>3. /\ cur' = cur /\ wpc' = wpc /\ done' = done /\ Adding = {}
      /\ Adding' = {} /\ senders' = senders
      /\ gen' = [gen EXCEPT ![i] = 1] /\ tasks' = [tasks EXCEPT ![i] = 1]
      /\ status' = [status EXCEPT ![o] = rows[i].status]
      /\ IF rows[i].status \in Resumed THEN chan' = Append(chan, o)
                                       ELSE chan' = chan
  BY <1>1 DEF LoadRow, Adding, lockVars, workerVars
<1>4. /\ gen \in [Ids -> 0..MaxGen] /\ tasks \in [Ids -> 0..MaxGen]
      /\ status \in [Tasks -> Statuses] /\ chan \in Seq(Tasks)
      /\ MaxGen \in Nat \ {0}
  BY QueueAssumption DEF QueueInv, TypeInv, TypeOK
<1> HIDE DEF o
<1>5. /\ Distinct(chan')
      /\ \/ InChan' = InChan \cup {o} /\ rows[i].status \in Resumed
         \/ InChan' = InChan /\ rows[i].status \notin Resumed
  <2>1. o \notin Elems(chan) /\ Distinct(chan)
    BY <1>2, ChanElems DEF QueueInv, DeliveredOnce, Waiting
  <2>2. CASE rows[i].status \in Resumed
    <3>1. chan' = Append(chan, o)
      BY <2>2, <1>3
    <3>2. Distinct(chan') /\ Elems(chan') = Elems(chan) \cup {o}
      BY <3>1, <2>1, <1>2, <1>4, AppendElems
    <3>3. QED
      BY <2>2, <3>2, ChanElems
  <2>3. CASE rows[i].status \notin Resumed
    <3>1. chan' = chan
      BY <2>3, <1>3
    <3>2. QED
      BY <2>1, <2>3, <3>1, ChanElems
  <2>4. QED
    BY <2>2, <2>3
<1>6. Waiting \subseteq Waiting' /\ Waiting' \subseteq Waiting \cup {o}
  BY <1>3, <1>5 DEF Waiting
<1>7. DeliveredOnce'
  BY <1>1, <1>2, <1>3, <1>5, ChanElems DEF QueueInv, DeliveredOnce, Waiting
<1>8. FinInv'
  BY <1>2, <1>3, <1>6 DEF QueueInv, FinInv
<1>9. GenInv'
  <2>1. \A j \in Ids : tasks'[j] <= gen'[j]
    BY <1>3, <1>4 DEF QueueInv, GenInv
  <2>2. \A j \in Ids : gen[j] \in Nat /\ gen'[j] \in Nat /\ gen[j] <= gen'[j]
    BY <1>1, <1>3, <1>4
  <2>3. ASSUME NEW p \in Tasks, p \in Waiting' \cup {cur'} \/ done'[p] # "no"
        PROVE  p[2] <= gen'[p[1]]
    <3>1. CASE p = o
      BY <3>1, <1>3, <1>4 DEF o
    <3>2. CASE p # o
      <4>1. p[2] <= gen[p[1]] /\ p[1] \in Ids /\ p[2] \in Nat
        BY <3>2, <2>3, <1>3, <1>6 DEF QueueInv, GenInv, Tasks
      <4>2. QED
        BY <4>1, <2>2
    <3>3. QED
      BY <3>1, <3>2
  <2>4. QED
    BY <2>1, <2>3 DEF GenInv
<1>10. PendingIsQueued'
  <2> SUFFICES ASSUME NEW j \in Ids, tasks'[j] # 0,
                      status'[<<j, tasks'[j]>>] = "Pending"
               PROVE  \/ <<j, tasks'[j]>> \in Waiting'
                      \/ wpc' = "start" /\ cur' = <<j, tasks'[j]>>
    BY DEF PendingIsQueued, Obj
  <2>1. CASE j = i
    <3>1. rows[i].status = "Pending" /\ <<j, tasks'[j]>> = o
      BY <2>1, <1>2, <1>3, <1>4 DEF o
    <3>2. QED
      BY <3>1, <1>5 DEF Resumed, Waiting
  <2>2. CASE j # i
    <3>1. tasks'[j] = tasks[j] /\ <<j, tasks[j]>> \in Tasks
          /\ <<j, tasks[j]>> # o
      BY <2>2, <1>3, <1>4 DEF Tasks, o
    <3>2. status[<<j, tasks[j]>>] = "Pending"
      BY <3>1, <1>3, <1>4
    <3>3. QED
      BY <3>1, <3>2, <1>3, <1>6 DEF QueueInv, PendingIsQueued, Obj
  <2>3. QED
    BY <2>1, <2>2
<1>11. QED
  BY <1>7, <1>8, <1>9, <1>10 DEF QueueInv

\* A crash forgets every object.
LEMMA QueueCrash == ASSUME QueueInv, TypeInv', Crash PROVE QueueInv'
<1>1. Waiting' = {} /\ InChan' = {} /\ Adding' = {} /\ cur' = NoTask
      /\ chan' = <<>> /\ senders' = {}
  BY DEF Crash, Waiting, InChan, Adding
<1>2. GenInv' /\ FinInv'
  BY <1>1, QueueAssumption DEF Crash, GenInv, FinInv, NoEntries, NewTasks
<1>3. DeliveredOnce'
  BY <1>1 DEF DeliveredOnce
<1>4. PendingIsQueued'
  BY DEF PendingIsQueued, Crash, NoEntries
<1>5. QED
  BY <1>2, <1>3, <1>4 DEF QueueInv

\* Every step keeps the invariant.
LEMMA QueueStep == QueueInv /\ [Next]_vars => QueueInv'
<1> SUFFICES ASSUME QueueInv, [Next]_vars PROVE QueueInv'
  OBVIOUS
<1>0. TypeInv'
  BY TypeStep DEF QueueInv
<1>a. /\ tasks \in [Ids -> 0..MaxGen] /\ status \in [Tasks -> Statuses]
      /\ done \in [Tasks -> {"no", "recent", "old"}]
      /\ rows \in [Ids -> Row] /\ TypeInv
  BY DEF QueueInv, TypeInv, TypeOK
<1>1. ASSUME NEW i \in Ids, NEW req \in Request(i), AddTask(i, req)
      PROVE  QueueInv'
  BY <1>0, <1>1, QueueAddTask
<1>2. CASE SendAdded
  <2>1. held \in Tasks /\ Adding = {held} /\ Adding' = {}
    BY <1>2, <1>a DEF SendAdded, Adding, TypeInv, TypeOK, LockInv
  <2>2. held \notin senders
    BY <2>1 DEF QueueInv, DeliveredOnce
  <2>3. QED
    BY <1>0, <1>2, <2>1, <2>2, QueueSend DEF SendAdded
<1>3. ASSUME NEW i \in Ids, RemoveTask(i)
      PROVE  QueueInv'
  <2>1. UNCHANGED <<chan, senders, cur, gen, done, wpc, Adding>>
    BY <1>3 DEF RemoveTask, Adding, workerVars
  <2>2. \A j \in Ids : tasks'[j] \in {0, tasks[j]}
    BY <1>3, <1>a DEF RemoveTask
  <2>3. \A o \in Tasks : status'[o] = "Pending" => status[o] = "Pending"
    BY <1>3, <1>a DEF RemoveTask
  <2>4. QED
    BY <1>0, <2>1, <2>2, <2>3, QueueQuiet
<1>4. CASE DeleteRow
  BY <1>0, <1>4, QueueQuiet DEF DeleteRow, Adding, workerVars
<1>5. CASE Receive
  BY <1>0, <1>5, QueueReceive
<1>6. CASE BeginTask
  <2>1. UNCHANGED <<chan, senders, cur, gen, done, tasks, Adding>>
    BY <1>6 DEF BeginTask, Adding, lockVars
  <2>2. /\ \A o \in Tasks : status'[o] = "Pending" =>
             status[o] = "Pending" /\ o # cur
    BY <1>6, <1>a DEF BeginTask
  <2>3. QED
    BY <1>0, <2>1, <2>2, QueueQuiet
<1>7. CASE EnterHandler
  <2>1. /\ UNCHANGED <<chan, senders, cur, gen, done, tasks, Adding>>
        /\ wpc = "enter"
    BY <1>7 DEF EnterHandler, Adding, lockVars
  <2>2. \A o \in Tasks : status'[o] = "Pending" => status[o] = "Pending"
    BY <1>7, <1>a DEF EnterHandler
  <2>3. QED
    BY <1>0, <2>1, <2>2, QueueQuiet
<1>8. CASE SaveProgress
  BY <1>0, <1>8, QueueQuiet DEF SaveProgress, Adding, lockVars
<1>9. CASE ShowProgress
  <2>1. /\ UNCHANGED <<chan, senders, cur, gen, done, tasks, Adding>>
        /\ wpc = "run"
    BY <1>9 DEF ShowProgress, Adding, lockVars
  <2>2. \A o \in Tasks : status'[o] = "Pending" => status[o] = "Pending"
    BY <1>9, <1>a DEF ShowProgress
  <2>3. QED
    BY <1>0, <2>1, <2>2, QueueQuiet
<1>10. CASE HandlerReturn
  <2>1. /\ UNCHANGED <<chan, senders, cur, gen, done, tasks, Adding>>
        /\ wpc = "run"
    BY <1>10 DEF HandlerReturn, Adding, lockVars
  <2>2. \A o \in Tasks : status'[o] = "Pending" => status[o] = "Pending"
    BY <1>10, <1>a DEF HandlerReturn
  <2>3. QED
    BY <1>0, <2>1, <2>2, QueueQuiet
<1>11. CASE FinishTask
  BY <1>0, <1>11, QueueFinish
<1>12. ASSUME NEW o \in Tasks, Age(o)
       PROVE  QueueInv'
  <2>1. UNCHANGED <<chan, senders, cur, gen, status, tasks, wpc, Adding>>
    BY <1>12 DEF Age, Adding, lockVars, workerVars
  <2>2. \A p \in Tasks : done'[p] # "no" => done[p] # "no"
    BY <1>12, <1>a DEF Age
  <2>3. QED
    BY <1>0, <2>1, <2>2, QueueQuiet
<1>13. CASE CleanupTick
  <2>1. UNCHANGED <<chan, senders, cur, gen, status, done, wpc, Adding>>
    BY <1>13 DEF CleanupTick, Adding, lockVars, workerVars
  <2>2. \A j \in Ids : tasks'[j] \in {0, tasks[j]}
    BY <1>13 DEF CleanupTick
  <2>3. QED
    BY <1>0, <2>1, <2>2, QueueQuiet
<1>14. ASSUME NEW trash \in SUBSET VideoIds, OrphanCleanup(trash)
       PROVE  QueueInv'
  BY <1>0, <1>14, QueueOrphans
<1>15. ASSUME NEW o \in Tasks, SendOrphan(o)
       PROVE  QueueInv'
  <2>1. o \in senders /\ Adding' = Adding /\ o \notin Adding
        /\ senders' = senders \ {o} /\ chan' = Append(chan, o)
    BY <1>15 DEF SendOrphan, Adding, lockVars, QueueInv, DeliveredOnce
  <2>2. senders \cap Adding = {}
    BY DEF QueueInv, DeliveredOnce
  <2>3. UNCHANGED <<tasks, gen, status, done, workerVars>>
    BY <1>15 DEF SendOrphan
  <2>4. QED
    BY <1>0, <2>1, <2>2, <2>3, QueueSend
<1>16. CASE Crash
  BY <1>0, <1>16, QueueCrash
<1>17. ASSUME NEW i \in Ids, LoadRow(i)
       PROVE  QueueInv'
  BY <1>0, <1>17, QueueLoadRow
<1>18. CASE StartWorker
  BY <1>0, <1>18, QueueQuiet DEF StartWorker, Adding, lockVars, workerVars
<1>19. CASE UNCHANGED vars
  BY <1>0, <1>19, QueueQuiet DEF vars, Adding
<1>20. QED
  BY <1>1, <1>2, <1>3, <1>4, <1>5, <1>6, <1>7, <1>8, <1>9, <1>10, <1>11,
     <1>12, <1>13, <1>14, <1>15, <1>16, <1>17, <1>18, <1>19 DEF Next, Worker

\* No task object is ever in two places on its way to the worker, whatever
\* the callers, the orphan cleanup and the reload do.
THEOREM DeliveredOnceHolds == Spec => []DeliveredOnce
<1>1. QueueInv => DeliveredOnce
  BY DEF QueueInv
<1>2. QED
  BY <1>1, QueueInit, QueueStep, PTL DEF Spec

\* No interleaving leaves a "Pending" entry that nobody will deliver.
THEOREM PendingIsQueuedHolds == Spec => []PendingIsQueued
<1>1. QueueInv => PendingIsQueued
  BY DEF QueueInv
<1>2. QED
  BY <1>1, QueueInit, QueueStep, PTL DEF Spec

-----------------------------------------------------------------------------
(* What becomes of a finished task.                                         *)

\* The steps that write a status write that of an object not finished yet, or
\* "Cancelled".
LEMMA FinishedStep ==
  ASSUME QueueInv, Next, NEW o \in Tasks, done[o] # "no", done'[o] # "no"
  PROVE  status'[o] \in {status[o], "Cancelled"}
<1>1. /\ status \in [Tasks -> Statuses] /\ o \notin Waiting \cup {cur}
      /\ o # cur
  BY DEF QueueInv, TypeInv, TypeOK, FinInv
<1>2. ASSUME NEW i \in Ids, NEW req \in Request(i), AddTask(i, req)
      PROVE  status'[o] = status[o]
  <2>1. o # <<i, gen[i] + 1>>
    BY <1>2, FreshTask DEF AddTask
  <2>2. QED
    BY <1>1, <1>2, <2>1 DEF AddTask
<1>3. CASE \E i \in Ids : RemoveTask(i)
  BY <1>1, <1>3 DEF RemoveTask
<1>4. CASE Worker
  <2>1. CASE BeginTask \/ EnterHandler \/ ShowProgress \/ HandlerReturn
             \/ FinishTask
    BY <1>1, <2>1
    DEF BeginTask, EnterHandler, ShowProgress, HandlerReturn, FinishTask
  <2>2. CASE Receive \/ SaveProgress
    BY <2>2 DEF Receive, SaveProgress
  <2>3. QED
    BY <1>4, <2>1, <2>2 DEF Worker
<1>5. ASSUME NEW trash \in SUBSET VideoIds, OrphanCleanup(trash)
      PROVE  status'[o] = status[o]
  <2> DEFINE new == {v \in trash : tasks[v] = 0}
             created == {<<v, gen[v] + 1>> : v \in new}
  <2>1. \A v \in new : v \in Ids /\ gen[v] < MaxGen
    BY <1>5 DEF OrphanCleanup, Ids
  <2>2. \A p \in created : done[p] = "no"
    BY <2>1, FreshTask
  <2>3. status' = [p \in Tasks |-> IF p \in created THEN "PendingOther"
                                   ELSE status[p]]
    BY <1>5 DEF OrphanCleanup
  <2>4. QED
    BY <2>2, <2>3
<1>6. CASE Crash
  BY <1>6 DEF Crash, NewTasks
<1>7. ASSUME NEW i \in Ids, LoadRow(i)
      PROVE  status'[o] = status[o]
  <2>1. gen[i] = 0 /\ gen[i] < MaxGen
    BY <1>7, QueueAssumption DEF LoadRow, QueueInv, TypeInv, LoadInv
  <2>2. o # <<i, 1>>
    BY <2>1, FreshTask
  <2>3. QED
    BY <1>1, <1>7, <2>2 DEF LoadRow
<1>8. CASE SendAdded \/ DeleteRow \/ CleanupTick \/ StartWorker
           \/ (\E p \in Tasks : Age(p) \/ SendOrphan(p))
  BY <1>8 DEF SendAdded, DeleteRow, CleanupTick, StartWorker, Age, SendOrphan
<1>9. QED
  BY <1>2, <1>3, <1>4, <1>5, <1>6, <1>7, <1>8 DEF Next

\* Once a task is finished only a cancellation changes the status the GUI
\* shows for it.
THEOREM FinishedIsFinalHolds == Spec => FinishedIsFinal
<1>1. ASSUME QueueInv, [Next]_vars
      PROVE  [\A o \in Tasks : done[o] # "no" /\ done'[o] # "no" =>
                status'[o] \in {status[o], "Cancelled"}]_vars
  BY <1>1, FinishedStep
<1>2. QED
  BY <1>1, QueueInit, QueueStep, PTL DEF Spec, FinishedIsFinal

-----------------------------------------------------------------------------
(* Entries and rows.                                                        *)

\* While RemoveTask holds the mutex its task is off the list; a task being
\* worked on has left its pending status.
RowInv ==
  /\ mu = "remove" => tasks[held[1]] = 0
  /\ wpc \in {"enter", "save", "run", "ok", "failed"} =>
       status[cur] \notin {"Pending", "PendingOther"}

ListedInv == QueueInv /\ RowInv /\ ListedIsStored

\* A step that writes rows but deletes none, lists no new task and leaves
\* "PendingOther" only by a save.
LEMMA ListedQuiet ==
  ASSUME ListedInv, QueueInv', RowInv',
         \A i \in Ids : rows[i] # NoRow => rows'[i] # NoRow,
         \A i \in Ids : tasks'[i] \in {0, tasks[i]},
         \A i \in Ids : tasks[i] # 0 =>
           \/ status'[Obj(i)] = "PendingOther"
           \/ status[Obj(i)] # "PendingOther"
           \/ rows'[i] # NoRow
  PROVE  ListedInv'
<1> SUFFICES ASSUME NEW i \in Ids, tasks'[i] # 0,
                    status'[<<i, tasks'[i]>>] # "PendingOther"
             PROVE  rows'[i] # NoRow
  BY DEF ListedInv, ListedIsStored, Obj
<1>1. tasks'[i] = tasks[i]
  OBVIOUS
<1>2. QED
  BY <1>1 DEF ListedInv, ListedIsStored, Obj

LEMMA ListedStep == ListedInv /\ [Next]_vars => ListedInv'
<1> SUFFICES ASSUME ListedInv, [Next]_vars PROVE ListedInv'
  OBVIOUS
<1>0. QueueInv' /\ TypeInv'
  BY QueueStep DEF ListedInv, QueueInv
<1>a. /\ tasks \in [Ids -> 0..MaxGen] /\ status \in [Tasks -> Statuses]
      /\ gen \in [Ids -> 0..MaxGen] /\ kind \in [Tasks -> Kinds]
      /\ rows \in [Ids -> Row] /\ TypeInv /\ MaxGen \in Nat \ {0}
      /\ LockInv /\ WorkInv /\ RowInv
      /\ cur \in Tasks \cup {NoTask} /\ held \in Tasks \cup {NoTask}
      /\ NoTask \notin Tasks
  BY QueueAssumption DEF ListedInv, QueueInv, TypeInv, TypeOK
<1>c. \A i \in Ids : tasks[i] # 0 => Obj(i) \in Tasks
  BY <1>a DEF Obj, Tasks
<1>b. \A o \in Tasks : o[1] \in Ids
  BY DEF Tasks
<1>1. ASSUME NEW i \in Ids, NEW req \in Request(i), AddTask(i, req)
      PROVE  ListedInv'
  <2>1. req[1] \in Kinds /\ req[2] \in Statuses
    BY DEF Request, Kinds, Statuses
  <2>2. \A j \in Ids : rows'[j] # NoRow <=> (j = i \/ rows[j] # NoRow)
    BY <1>1, <1>a, <2>1, UpsertRow DEF AddTask
  <2>3. \A j \in Ids : j # i => tasks'[j] = tasks[j]
    BY <1>1, <1>a DEF AddTask
  <2>4. \A j \in Ids : j # i => status'[<<j, tasks[j]>>] = status[<<j, tasks[j]>>]
    BY <1>1, <1>a DEF AddTask
  <2>5. ListedIsStored'
    BY <2>2, <2>3, <2>4 DEF ListedInv, ListedIsStored, Obj
  <2>6. RowInv'
    <3>1. cur # <<i, gen[i] + 1>>
      BY <1>1, FreshTask DEF AddTask, ListedInv
    <3>2. cur \in Tasks => status'[cur] = status[cur]
      BY <1>1, <1>a, <3>1 DEF AddTask
    <3>3. QED
      BY <1>1, <1>a, <3>2 DEF AddTask, RowInv, WorkInv, workerVars
  <2>7. QED
    BY <1>0, <2>5, <2>6 DEF ListedInv
<1>2. CASE SendAdded
  <2>1. RowInv'
    BY <1>2, <1>a DEF SendAdded, RowInv, workerVars
  <2>2. QED
    BY <1>0, <1>2, <2>1, ListedQuiet DEF SendAdded
<1>3. ASSUME NEW i \in Ids, RemoveTask(i)
      PROVE  ListedInv'
  <2>1. Obj(i) \in Tasks /\ Obj(i)[1] = i /\ kind[Obj(i)] \in Kinds
    BY <1>3, <1>a DEF RemoveTask, Obj, Tasks
  <2>2. \A j \in Ids : rows'[j] # NoRow <=> (j = i \/ rows[j] # NoRow)
    BY <1>3, <1>a, <2>1, UpsertRow DEF RemoveTask, Save, Statuses
  <2>3. RowInv'
    BY <1>3, <1>a, <2>1 DEF RemoveTask, RowInv, workerVars
  <2>4. \A j \in Ids : tasks'[j] \in {0, tasks[j]}
    BY <1>3, <1>a DEF RemoveTask
  <2>5. \A j \in Ids : tasks[j] # 0 /\ j # i =>
                      status'[Obj(j)] = status[Obj(j)]
    BY <1>3, <1>a, <1>c DEF RemoveTask, Obj
  <2>6. QED
    BY <1>0, <2>2, <2>3, <2>4, <2>5, ListedQuiet
<1>4. CASE DeleteRow
  <2>1. tasks[held[1]] = 0 /\ held[1] \in Ids
    BY <1>4, <1>a, <1>b DEF DeleteRow, RowInv, LockInv
  <2>2. \A j \in Ids : j # held[1] => rows'[j] = rows[j]
    BY <1>4, <1>a DEF DeleteRow
  <2>3. UNCHANGED <<tasks, status, wpc, cur>> /\ mu' = "free"
    BY <1>4 DEF DeleteRow, workerVars
  <2>4. QED
    BY <1>0, <2>1, <2>2, <2>3, <1>a DEF ListedInv, ListedIsStored, RowInv, Obj
<1>5. CASE Receive
  <2>1. RowInv'
    BY <1>5, <1>a DEF Receive, RowInv, lockVars
  <2>2. QED
    BY <1>0, <1>5, <2>1, ListedQuiet DEF Receive
<1>6. ASSUME NEW s \in Statuses \ {"Pending", "PendingOther"}, cur \in Tasks,
             UNCHANGED <<tasks, mu, held>>, Save(cur, s),
             status' = [status EXCEPT ![cur] = s],
             cur' = cur \/ wpc' = "idle"
      PROVE  ListedInv'
  <2>1. cur[1] \in Ids /\ kind[cur] \in Kinds
    BY <1>6, <1>a, <1>b
  <2>2. \A j \in Ids : rows'[j] # NoRow <=> (j = cur[1] \/ rows[j] # NoRow)
    BY <1>6, <1>a, <2>1, UpsertRow DEF Save
  <2>3. RowInv'
    BY <1>6, <1>a DEF RowInv
  <2>4. \A j \in Ids : tasks[j] # 0 /\ Obj(j) # cur =>
                      status'[Obj(j)] = status[Obj(j)]
    BY <1>6, <1>a, <1>c
  <2>5. \A j \in Ids : Obj(j) = cur => j = cur[1]
    BY DEF Obj
  <2>6. QED
    BY <1>0, <1>6, <2>2, <2>3, <2>4, <2>5, ListedQuiet
<1>7. ASSUME NEW s \in Statuses \ {"Pending", "PendingOther"}, cur \in Tasks,
             wpc \in {"enter", "save", "run"}, cur' = cur,
             UNCHANGED <<tasks, mu, held, rows>>,
             status' = status \/ status' = [status EXCEPT ![cur] = s]
      PROVE  ListedInv'
  <2>1. status[cur] \notin {"Pending", "PendingOther"}
    BY <1>7, <1>a DEF RowInv
  <2>2. RowInv'
    BY <1>7, <1>a, <2>1 DEF RowInv
  <2>3. \A j \in Ids : tasks[j] # 0 /\ Obj(j) # cur =>
                      status'[Obj(j)] = status[Obj(j)]
    BY <1>7, <1>a, <1>c
  <2>4. QED
    BY <1>0, <1>7, <2>1, <2>2, <2>3, ListedQuiet
<1>8. CASE BeginTask
  BY <1>6, <1>8, <1>a DEF BeginTask, lockVars, WorkInv, Statuses
<1>9. CASE EnterHandler
  <2>1. /\ cur \in Tasks /\ wpc = "enter" /\ cur' = cur
        /\ UNCHANGED <<tasks, mu, held, rows>>
        /\ \/ status' = [status EXCEPT ![cur] = "Preparing"]
           \/ status' = [status EXCEPT ![cur] = "Working"]
    BY <1>9, <1>a DEF EnterHandler, lockVars, WorkInv
  <2>2. QED
    BY <1>7, <2>1 DEF Statuses
<1>10. CASE SaveProgress
  <2>1. /\ cur \in Tasks /\ kind[cur] \in Kinds /\ status[cur] \in Statuses
        /\ cur[1] \in Ids /\ cur' = cur /\ wpc = "save"
        /\ UNCHANGED <<tasks, status, mu, held>>
    BY <1>10, <1>a, <1>b DEF SaveProgress, lockVars, WorkInv
  <2>2. \A j \in Ids : rows[j] # NoRow => rows'[j] # NoRow
    BY <1>10, <1>a, <2>1, UpsertRow DEF SaveProgress, Save
  <2>3. RowInv'
    BY <2>1, <1>a DEF RowInv
  <2>4. QED
    BY <1>0, <2>1, <2>2, <2>3, ListedQuiet
<1>11. CASE ShowProgress
  BY <1>7, <1>11, <1>a DEF ShowProgress, lockVars, WorkInv, Statuses
<1>12. CASE HandlerReturn
  <2>1. /\ cur \in Tasks /\ wpc = "run" /\ cur' = cur
        /\ UNCHANGED <<tasks, mu, held, rows>>
        /\ \/ status' = [status EXCEPT ![cur] = "Completed"]
           \/ status' = status
    BY <1>12, <1>a DEF HandlerReturn, lockVars, WorkInv
  <2>2. QED
    BY <1>7, <2>1 DEF Statuses
<1>13. CASE FinishTask
  <2>1. /\ cur \in Tasks /\ wpc' = "idle" /\ UNCHANGED <<tasks, mu, held>>
        /\ \/ Save(cur, "Completed")
              /\ status' = [status EXCEPT ![cur] = "Completed"]
           \/ Save(cur, "Error") /\ status' = [status EXCEPT ![cur] = "Error"]
    BY <1>13, <1>a DEF FinishTask, lockVars, WorkInv
  <2>2. QED
    BY <1>6, <2>1 DEF Statuses
<1>14. ASSUME NEW o \in Tasks, Age(o)
       PROVE  ListedInv'
  <2>1. RowInv'
    BY <1>14, <1>a DEF Age, RowInv, workerVars, lockVars
  <2>2. QED
    BY <1>0, <1>14, <2>1, ListedQuiet DEF Age
<1>15. CASE CleanupTick
  <2>1. RowInv'
    BY <1>15, <1>a DEF CleanupTick, RowInv, workerVars, lockVars
  <2>2. /\ \A j \in Ids : tasks'[j] # 0 => tasks'[j] = tasks[j]
                                            /\ rows'[j] = rows[j]
        /\ status' = status
    BY <1>15, <1>a DEF CleanupTick
  <2>3. ListedIsStored'
    BY <2>2 DEF ListedInv, ListedIsStored, Obj
  <2>4. QED
    BY <1>0, <2>1, <2>3 DEF ListedInv
<1>16. ASSUME NEW trash \in SUBSET VideoIds, OrphanCleanup(trash)
       PROVE  ListedInv'
  <2> DEFINE new == {v \in trash : tasks[v] = 0}
             created == {<<v, gen[v] + 1>> : v \in new}
  <2>1. /\ tasks' = [j \in Ids |-> IF j \in new THEN gen[j] + 1 ELSE tasks[j]]
        /\ status' = [o \in Tasks |-> IF o \in created THEN "PendingOther"
                                      ELSE status[o]]
        /\ rows' = rows /\ mu = "free" /\ mu' = "free"
        /\ wpc' = wpc /\ cur' = cur
        /\ \A v \in new : v \in Ids /\ gen[v] < MaxGen
    BY <1>16 DEF OrphanCleanup, lockVars, workerVars, Ids
  <2>2. ListedIsStored'
    <3> SUFFICES ASSUME NEW j \in Ids, tasks'[j] # 0,
                        status'[<<j, tasks'[j]>>] # "PendingOther"
                 PROVE  rows'[j] # NoRow
      BY DEF ListedIsStored, Obj
    <3>1. tasks'[j] \in 1..MaxGen /\ <<j, tasks'[j]>> \in Tasks
      BY <1>0, <1>a DEF TypeInv, TypeOK, Tasks
    <3>2. j \notin new
      BY <3>1, <2>1
    <3>3. tasks'[j] = tasks[j] /\ status[<<j, tasks[j]>>] # "PendingOther"
      BY <3>1, <3>2, <2>1
    <3>4. QED
      BY <3>3, <2>1 DEF ListedInv, ListedIsStored, Obj
  <2>3. RowInv'
    <3> SUFFICES ASSUME wpc \in {"enter", "save", "run", "ok", "failed"}
                 PROVE  status'[cur] \notin {"Pending", "PendingOther"}
      BY <2>1 DEF RowInv
    <3>1. cur \in Tasks /\ status[cur] \notin {"Pending", "PendingOther"}
      BY <1>a DEF RowInv, WorkInv
    <3>2. cur \notin created
      BY <2>1, FreshTask DEF ListedInv
    <3>3. QED
      BY <3>1, <3>2, <2>1
  <2>4. QED
    BY <1>0, <2>2, <2>3 DEF ListedInv
<1>17. ASSUME NEW o \in Tasks, SendOrphan(o)
       PROVE  ListedInv'
  <2>1. RowInv'
    BY <1>17, <1>a DEF SendOrphan, RowInv, workerVars, lockVars
  <2>2. QED
    BY <1>0, <1>17, <2>1, ListedQuiet DEF SendOrphan
<1>18. CASE Crash
  BY <1>0, <1>18
  DEF Crash, ListedInv, ListedIsStored, RowInv, NoEntries
<1>19. ASSUME NEW i \in Ids, LoadRow(i)
       PROVE  ListedInv'
  <2>1. /\ rows' = rows /\ rows[i] # NoRow /\ mu' = "free" /\ wpc' = "idle"
        /\ \A j \in Ids : j # i => /\ tasks'[j] = tasks[j]
                                   /\ status'[<<j, tasks[j]>>] =
                                        status[<<j, tasks[j]>>]
    BY <1>19, <1>a
    DEF LoadRow, TypeInv, LoadInv, lockVars, workerVars
  <2>2. QED
    BY <1>0, <2>1 DEF ListedInv, ListedIsStored, RowInv, Obj
<1>20. CASE StartWorker
  <2>1. RowInv'
    BY <1>20, <1>a DEF StartWorker, RowInv, workerVars, lockVars
  <2>2. QED
    BY <1>0, <1>20, <2>1, ListedQuiet DEF StartWorker
<1>21. CASE UNCHANGED vars
  <2>1. RowInv'
    BY <1>21, <1>a DEF vars, RowInv
  <2>2. QED
    BY <1>0, <1>21, <2>1, ListedQuiet DEF vars
<1>22. QED
  BY <1>1, <1>2, <1>3, <1>4, <1>5, <1>8, <1>9, <1>10, <1>11, <1>12, <1>13,
     <1>14, <1>15, <1>16, <1>17, <1>18, <1>19, <1>20, <1>21 DEF Next, Worker

\* Entry and row of a task are removed together: what the GUI lists has a row
\* (the orphan cleanup's tasks get theirs when the worker begins them).
THEOREM ListedIsStoredHolds == Spec => []ListedIsStored
<1>1. Init => ListedInv
  BY QueueInit DEF Init, ListedInv, ListedIsStored, RowInv, NoEntries
<1>2. ListedInv => ListedIsStored
  BY DEF ListedInv
<1>3. QED
  BY <1>1, <1>2, ListedStep, PTL DEF Spec

-----------------------------------------------------------------------------
(* The queue implements the abstract job queue.                             *)

Finished == {o \in Tasks : done[o] # "no"}

\* An object with nobody is a job nobody has offered.
LEMMA FreshJob ==
  ASSUME NEW o \in Tasks, o \notin Waiting \cup {cur}, done[o] = "no"
  PROVE  JQ!Fresh(o)
BY DEF JQ!Fresh, JQ!InLine, Waiting, InChan

\* A step that leaves the hands, the line, the worker's object and the
\* completion of objects alone is a stutter.
LEMMA JobStutter ==
  ASSUME UNCHANGED <<senders, Adding, chan, cur>>, Finished' = Finished
  PROVE  UNCHANGED JQ!vars
BY DEF JQ!vars, Finished

LEMMA JobInit == Init => JQ!Init
BY DEF Init, JQ!Init, Adding, NewTasks

LEMMA JobStep == QueueInv /\ [Next]_vars => [JQ!Next]_(JQ!vars)
<1> SUFFICES ASSUME QueueInv, [Next]_vars PROVE JQ!Next \/ UNCHANGED JQ!vars
  OBVIOUS
<1>a. /\ chan \in Seq(Tasks) /\ senders \subseteq Tasks
      /\ cur \in Tasks \cup {NoTask} /\ held \in Tasks \cup {NoTask}
      /\ done \in [Tasks -> {"no", "recent", "old"}]
      /\ LockInv /\ WorkInv /\ LoadInv /\ NoTask \notin Tasks
      /\ \A i \in Ids : gen[i] \in Nat
  BY QueueAssumption DEF QueueInv, TypeInv, TypeOK
<1>1. ASSUME NEW i \in Ids, NEW req \in Request(i), AddTask(i, req)
      PROVE  JQ!Next
  <2> DEFINE o == <<i, gen[i] + 1>>
  <2>1. o \in Tasks /\ JQ!Fresh(o)
    BY <1>1, FreshTask, FreshJob DEF AddTask
  <2>2. Adding = {} /\ Adding' = {o} /\ UNCHANGED <<senders, chan, cur, done>>
    BY <1>1 DEF AddTask, Adding, workerVars
  <2>3. JQ!Offer({o})
    BY <2>1, <2>2 DEF JQ!Offer
  <2>4. QED
    BY <2>1, <2>3 DEF JQ!Next
<1>2. CASE SendAdded
  <2>1. /\ held \in Tasks /\ Adding = {held} /\ Adding' = {}
        /\ held \notin senders
        /\ chan' = Append(chan, held) /\ UNCHANGED <<senders, cur, done>>
    BY <1>2, <1>a
    DEF SendAdded, Adding, LockInv, workerVars, QueueInv, DeliveredOnce
  <2>2. JQ!Enter(held)
    BY <2>1 DEF JQ!Enter
  <2>3. QED
    BY <2>1, <2>2 DEF JQ!Next
<1>3. CASE Receive
  <2>1. /\ cur = NoTask /\ chan # <<>> /\ cur' = Head(chan)
        /\ chan' = Tail(chan) /\ UNCHANGED <<senders, Adding, done>>
    BY <1>3, <1>a DEF Receive, WorkInv, Adding, lockVars
  <2>2. JQ!Begin
    BY <2>1 DEF JQ!Begin
  <2>3. QED
    BY <2>2 DEF JQ!Next
<1>4. CASE FinishTask
  <2>1. /\ cur \in Tasks /\ cur # NoTask /\ cur' = NoTask
        /\ done' = [done EXCEPT ![cur] = "recent"]
        /\ UNCHANGED <<senders, Adding, chan>>
    BY <1>4, <1>a DEF FinishTask, WorkInv, Adding, lockVars
  <2>2. Finished' = Finished \cup {cur}
    BY <2>1, <1>a DEF Finished
  <2>3. JQ!Finish
    BY <2>1, <2>2 DEF JQ!Finish, Finished
  <2>4. QED
    BY <2>3 DEF JQ!Next
<1>5. ASSUME NEW trash \in SUBSET VideoIds, OrphanCleanup(trash)
      PROVE  JQ!Next
  <2> DEFINE new == {v \in trash : tasks[v] = 0}
             created == {<<v, gen[v] + 1>> : v \in new}
  <2>1. \A v \in new : v \in Ids /\ gen[v] < MaxGen
    BY <1>5 DEF OrphanCleanup, Ids
  <2>2. created \in SUBSET Tasks /\ \A o \in created : JQ!Fresh(o)
    BY <2>1, FreshTask, FreshJob
  <2>3. /\ Adding = {} /\ Adding' = {} /\ senders' = senders \cup created
        /\ UNCHANGED <<chan, cur, done>>
    BY <1>5 DEF OrphanCleanup, Adding, lockVars, workerVars
  <2> HIDE DEF created
  <2>4. JQ!Offer(created)
    BY <2>2, <2>3 DEF JQ!Offer
  <2>5. QED
    BY <2>2, <2>4 DEF JQ!Next
<1>6. ASSUME NEW o \in Tasks, SendOrphan(o)
      PROVE  JQ!Next
  <2>1. /\ o \in senders /\ o \notin Adding
        /\ chan' = Append(chan, o) /\ senders' = senders \ {o}
        /\ UNCHANGED <<Adding, cur, done>>
    BY <1>6
    DEF SendOrphan, Adding, lockVars, workerVars, QueueInv, DeliveredOnce
  <2>2. JQ!Enter(o)
    BY <2>1 DEF JQ!Enter
  <2>3. QED
    BY <2>2 DEF JQ!Next
<1>7. CASE Crash
  <2>1. JQ!Restart
    BY <1>7 DEF Crash, JQ!Restart, Adding, NewTasks
  <2>2. QED
    BY <2>1 DEF JQ!Next
<1>8. ASSUME NEW i \in Ids, LoadRow(i)
      PROVE  JQ!Next \/ UNCHANGED JQ!vars
  <2> DEFINE o == <<i, 1>>
  <2>1. /\ gen[i] = 0 /\ gen[i] < MaxGen /\ senders = {} /\ Adding = {}
    BY <1>8, <1>a, QueueAssumption DEF LoadRow, LoadInv, Adding
  <2>2. o \in Tasks /\ JQ!Fresh(o)
    BY <2>1, FreshTask, FreshJob
  <2>3. UNCHANGED <<senders, Adding, cur, done>>
    BY <1>8 DEF LoadRow, Adding, lockVars, workerVars
  <2>4. CASE chan' = Append(chan, o)
    <3>1. JQ!Enter(o)
      BY <2>1, <2>2, <2>3, <2>4 DEF JQ!Enter
    <3>2. QED
      BY <2>2, <3>1 DEF JQ!Next
  <2>5. CASE chan' = chan
    BY <2>3, <2>5, JobStutter DEF Finished
  <2>6. QED
    BY <1>8, <2>4, <2>5 DEF LoadRow
<1>9. ASSUME NEW o \in Tasks, Age(o)
      PROVE  UNCHANGED JQ!vars
  <2>1. Finished' = Finished
    BY <1>9, <1>a DEF Age, Finished
  <2>2. QED
    BY <1>9, <2>1, JobStutter DEF Age, Adding, lockVars, workerVars
<1>10. CASE \/ \E i \in Ids : RemoveTask(i)
            \/ DeleteRow \/ CleanupTick
  <2>1. UNCHANGED <<senders, Adding, chan, cur, done>>
    BY <1>10 DEF RemoveTask, DeleteRow, CleanupTick, Adding, lockVars, workerVars
  <2>2. QED
    BY <2>1, JobStutter DEF Finished
<1>11. CASE BeginTask \/ EnterHandler \/ SaveProgress \/ ShowProgress
            \/ HandlerReturn
  <2>1. UNCHANGED <<senders, Adding, chan, cur, done>>
    BY <1>11 DEF BeginTask, EnterHandler, SaveProgress, ShowProgress,
                 HandlerReturn, Adding, lockVars
  <2>2. QED
    BY <2>1, JobStutter DEF Finished
<1>12. CASE StartWorker \/ UNCHANGED vars
  <2>1. UNCHANGED <<senders, Adding, chan, cur, done>>
    BY <1>12 DEF StartWorker, vars, Adding, lockVars, workerVars
  <2>2. QED
    BY <2>1, JobStutter DEF Finished
<1>13. QED
  BY <1>1, <1>2, <1>3, <1>4, <1>5, <1>6, <1>7, <1>8, <1>9, <1>10, <1>11,
     <1>12 DEF Next, Worker

\* Every behaviour of the queue is one of the abstract job queue: each job is
\* offered and enters the line at most once, the line is served in order and
\* one job at a time, and what is finished stays finished until a restart.
THEOREM QueueImplementsJobQueue == Spec => ImplementsJobQueue
<1>1. Init => JQ!Init
  BY JobInit
<1>2. QueueInv /\ [Next]_vars => [JQ!Next]_(JQ!vars)
  BY JobStep
<1>3. QED
  BY <1>1, <1>2, QueueInit, QueueStep, PTL
  DEF Spec, ImplementsJobQueue, JQ!Spec
-----------------------------------------------------------------------------
(* Pending uploads.                                                         *)

\* The clock gives an upload an id of its own: one object, of one type.
OneUpload ==
  /\ \A i \in UploadIds : /\ gen[i] <= 1
                          /\ rows[i] = NoRow \/ rows[i].kind = "upload"
  /\ \A o \in Tasks : o[1] \in UploadIds => kind[o] = "upload"

UploadInv == OneUpload /\ PendingUploadIsStored

\* The listed object of an upload is the only one of its id.
LEMMA OnlyObject ==
  ASSUME ListedInv, OneUpload, NEW i \in UploadIds, tasks[i] # 0,
         cur \in Tasks, cur[1] = i
  PROVE  Obj(i) = cur
<1>1. /\ tasks[i] \in Nat /\ tasks[i] <= gen[i] /\ gen[i] \in Nat
      /\ cur[2] \in Nat \ {0} /\ cur[2] <= gen[i] /\ cur = <<i, cur[2]>>
  BY QueueAssumption
     DEF ListedInv, QueueInv, GenInv, TypeInv, TypeOK, Tasks, Ids
<1>2. tasks[i] = 1 /\ cur[2] = 1
  BY <1>1 DEF OneUpload
<1>3. QED
  BY <1>1, <1>2 DEF Obj

\* The worker saves its task under another status than Pending.
LEMMA UploadWork ==
  ASSUME ListedInv, UploadInv, cur \in Tasks, UNCHANGED <<tasks, gen, kind>>,
         NEW s \in Statuses, rows' = rows \/ Save(cur, s),
         \A o \in Tasks \ {cur} : status'[o] = status[o],
         status'[cur] # "Pending"
  PROVE  UploadInv'
<1>0. /\ rows \in [Ids -> Row] /\ cur[1] \in Ids /\ UploadIds \subseteq Ids
      /\ tasks \in [Ids -> 0..MaxGen] /\ \A i \in Ids : tasks[i] # 0 => Obj(i) \in Tasks
  BY QueueAssumption
     DEF ListedInv, QueueInv, TypeInv, TypeOK, Tasks, Ids, Obj
<1>1. \A i \in Ids : i # cur[1] => rows'[i] = rows[i]
  BY <1>0 DEF Save, Upsert
<1>2. cur[1] \in UploadIds => rows'[cur[1]] = NoRow \/ rows'[cur[1]].kind = "upload"
  BY <1>0 DEF Save, Upsert, UploadInv, OneUpload
<1>3. OneUpload'
  BY <1>0, <1>1, <1>2 DEF UploadInv, OneUpload
<1>4. ASSUME NEW i \in UploadIds, tasks[i] # 0, status'[Obj(i)] = "Pending"
      PROVE  rows'[i] = [kind |-> "upload", status |-> "Pending"]
  <2>1. Obj(i) # cur /\ Obj(i) \in Tasks
    BY <1>0, <1>4
  <2>2. i # cur[1]
    BY <1>4, <2>1, OnlyObject DEF UploadInv
  <2>3. QED
    BY <1>0, <1>1, <1>4, <2>1, <2>2 DEF UploadInv, PendingUploadIsStored
<1>5. QED
  BY <1>3, <1>4 DEF UploadInv, PendingUploadIsStored, Obj

\* A step that leaves the uploads that stay on the list alone.
LEMMA UploadQuiet ==
  ASSUME UploadInv, UNCHANGED <<gen, kind>>,
         \A i \in UploadIds : rows'[i] \in {rows[i], NoRow} \/ rows'[i].kind = "upload",
         \A i \in UploadIds : tasks'[i] # 0 =>
           /\ tasks'[i] = tasks[i] /\ rows'[i] = rows[i]
           /\ status'[Obj(i)] = status[Obj(i)]
  PROVE  UploadInv'
<1>1. OneUpload'
  BY DEF UploadInv, OneUpload
<1>2. PendingUploadIsStored'
  BY DEF UploadInv, PendingUploadIsStored, Obj
<1>3. QED
  BY <1>1, <1>2 DEF UploadInv

LEMMA UploadStep == ListedInv /\ UploadInv /\ [Next]_vars => UploadInv'
<1> SUFFICES ASSUME ListedInv, UploadInv, [Next]_vars PROVE UploadInv'
  OBVIOUS
<1>a. /\ tasks \in [Ids -> 0..MaxGen] /\ status \in [Tasks -> Statuses]
      /\ gen \in [Ids -> 0..MaxGen] /\ kind \in [Tasks -> Kinds]
      /\ rows \in [Ids -> Row] /\ MaxGen \in Nat \ {0}
      /\ LockInv /\ WorkInv /\ RowInv /\ LoadInv
      /\ cur \in Tasks \cup {NoTask} /\ held \in Tasks \cup {NoTask}
      /\ NoTask \notin Tasks /\ UploadIds \subseteq Ids
      /\ VideoIds \cap UploadIds = {} /\ toLoad \subseteq Ids
  BY QueueAssumption DEF ListedInv, QueueInv, TypeInv, TypeOK, Ids
<1>b. \A i \in Ids : tasks[i] # 0 => Obj(i) \in Tasks
  BY <1>a DEF Obj, Tasks
<1>1. ASSUME NEW i \in Ids, NEW req \in Request(i), AddTask(i, req)
      PROVE  UploadInv'
  <2> DEFINE o == <<i, gen[i] + 1>>
  <2>1. /\ gen' = [gen EXCEPT ![i] = gen[i] + 1]
        /\ tasks' = [tasks EXCEPT ![i] = gen[i] + 1]
        /\ kind' = [kind EXCEPT ![o] = req[1]]
        /\ status' = [status EXCEPT ![o] = req[2]]
        /\ rows' = Upsert(i, req[1], req[2])
        /\ i \in UploadIds => gen[i] = 0 /\ rows[i] = NoRow
    BY <1>1 DEF AddTask
  <2>2. o \in Tasks
    BY <1>1, FreshTask DEF AddTask, ListedInv
  <2>3. i \in UploadIds => req = <<"upload", "Pending">>
    BY DEF Request
  <2>4. \A j \in Ids : j # i => /\ rows'[j] = rows[j] /\ tasks'[j] = tasks[j]
                                /\ gen'[j] = gen[j]
    BY <1>a, <2>1 DEF Upsert
  <2>5. i \in UploadIds => /\ rows'[i] = [kind |-> "upload", status |-> "Pending"]
                           /\ gen'[i] = 1
    BY <1>a, <2>1, <2>3 DEF Upsert
  <2>6. \A p \in Tasks : p # o => kind'[p] = kind[p] /\ status'[p] = status[p]
    BY <1>a, <2>1
  <2>7. i \in UploadIds => kind'[o] = "upload"
    BY <1>a, <2>1, <2>2, <2>3
  <2>8. OneUpload'
    BY <1>a, <2>4, <2>5, <2>6, <2>7 DEF UploadInv, OneUpload, Tasks
  <2>9. ASSUME NEW j \in UploadIds, j # i, tasks'[j] # 0,
               status'[<<j, tasks'[j]>>] = "Pending"
        PROVE  rows'[j] = [kind |-> "upload", status |-> "Pending"]
    BY <1>a, <1>b, <2>4, <2>6, <2>9 DEF UploadInv, PendingUploadIsStored, Obj
  <2>10. QED
    BY <2>5, <2>8, <2>9 DEF UploadInv, PendingUploadIsStored, Obj
<1>2. CASE SendAdded \/ StartWorker \/ Receive
  BY <1>2, UploadQuiet DEF SendAdded, StartWorker, Receive
<1>3. ASSUME NEW i \in Ids, RemoveTask(i) PROVE UploadInv'
  <2>1. Obj(i) \in Tasks /\ Obj(i)[1] = i
    BY <1>3, <1>a, <1>b DEF RemoveTask, Obj
  <2>2. rows' = Upsert(i, kind[Obj(i)], "Cancelled") /\ UNCHANGED <<gen, kind>>
    BY <1>3, <2>1 DEF RemoveTask, Save
  <2>3. i \in UploadIds => rows'[i].kind = "upload"
    BY <1>a, <2>1, <2>2 DEF Upsert, UploadInv, OneUpload
  <2>4. \A j \in Ids : j # i => rows'[j] = rows[j]
    BY <1>a, <2>2 DEF Upsert
  <2>5. tasks'[i] = 0 /\ \A j \in Ids : j # i => tasks'[j] = tasks[j]
    BY <1>3, <1>a DEF RemoveTask
  <2>6. \A j \in Ids : tasks[j] # 0 /\ j # i => status'[Obj(j)] = status[Obj(j)]
    BY <1>3, <1>a, <1>b DEF RemoveTask, Obj
  <2>7. QED
    BY <1>a, <2>2, <2>3, <2>4, <2>5, <2>6, UploadQuiet
<1>4. CASE DeleteRow
  <2>1. tasks[held[1]] = 0 /\ UNCHANGED <<gen, kind, tasks, status>>
    BY <1>4, <1>a DEF DeleteRow, RowInv
  <2>2. \A j \in Ids : rows'[j] = IF j = held[1] THEN NoRow ELSE rows[j]
    BY <1>4, <1>a DEF DeleteRow
  <2>3. QED
    BY <1>a, <2>1, <2>2, UploadQuiet
<1>5. CASE BeginTask \/ FinishTask
  <2> DEFINE s == IF wpc = "start" THEN "Processing"
                  ELSE IF wpc = "ok" THEN "Completed" ELSE "Error"
  <2>1. cur \in Tasks
    BY <1>5, <1>a DEF BeginTask, FinishTask, WorkInv
  <2>2. /\ status' = [status EXCEPT ![cur] = s] /\ Save(cur, s)
        /\ UNCHANGED <<tasks, gen, kind>>
    BY <1>5 DEF BeginTask, FinishTask
  <2>3. s \in Statuses /\ s # "Pending"
    BY DEF Statuses
  <2> HIDE DEF s
  <2>4. status'[cur] # "Pending" /\ \A o \in Tasks \ {cur} : status'[o] = status[o]
    BY <1>a, <2>1, <2>2, <2>3
  <2>5. QED
    BY <2>1, <2>2, <2>3, <2>4, UploadWork
<1>6. CASE EnterHandler \/ SaveProgress \/ ShowProgress \/ HandlerReturn
  <2>1. cur \in Tasks /\ status[cur] # "Pending" /\ status[cur] \in Statuses
    BY <1>6, <1>a DEF EnterHandler, SaveProgress, ShowProgress, HandlerReturn,
                      WorkInv, RowInv
  <2>2. /\ rows' = rows \/ Save(cur, status[cur])
        /\ UNCHANGED <<tasks, gen, kind>>
    BY <1>6 DEF EnterHandler, SaveProgress, ShowProgress, HandlerReturn
  <2>3. status'[cur] # "Pending" /\ \A o \in Tasks \ {cur} : status'[o] = status[o]
    BY <1>6, <1>a, <2>1 DEF EnterHandler, SaveProgress, ShowProgress, HandlerReturn
  <2>4. QED
    BY <2>1, <2>2, <2>3, UploadWork
<1>7. ASSUME NEW o \in Tasks, Age(o) \/ SendOrphan(o) PROVE UploadInv'
  BY <1>7, UploadQuiet DEF Age, SendOrphan
<1>8. CASE CleanupTick
  <2>1. /\ \A j \in Ids : rows'[j] = IF j \in Expired THEN NoRow ELSE rows[j]
        /\ \A j \in Ids : tasks'[j] = IF j \in Expired THEN 0 ELSE tasks[j]
        /\ UNCHANGED <<gen, kind, status>>
    BY <1>8 DEF CleanupTick
  <2>2. QED
    BY <1>a, <2>1, UploadQuiet
<1>9. ASSUME NEW trash \in SUBSET VideoIds, OrphanCleanup(trash) PROVE UploadInv'
  <2> DEFINE new == {v \in trash : tasks[v] = 0}
             created == {<<v, gen[v] + 1>> : v \in new}
  <2>1. \A i \in UploadIds : gen'[i] = gen[i] /\ tasks'[i] = tasks[i] /\ rows'[i] = rows[i]
    BY <1>9, <1>a DEF OrphanCleanup
  <2>2. \A o \in Tasks : o[1] \in UploadIds => o \notin created
    BY <1>a
  <2>3. \A o \in Tasks : o[1] \in UploadIds => kind'[o] = kind[o] /\ status'[o] = status[o]
    BY <1>9, <2>2 DEF OrphanCleanup
  <2>4. OneUpload'
    BY <2>1, <2>3 DEF UploadInv, OneUpload
  <2>5. PendingUploadIsStored'
    BY <1>a, <1>b, <2>1, <2>3 DEF UploadInv, PendingUploadIsStored, Obj
  <2>6. QED
    BY <2>4, <2>5 DEF UploadInv
<1>10. CASE Crash
  BY <1>10, <1>a DEF Crash, NoEntries, NewTasks, UploadInv, OneUpload,
                     PendingUploadIsStored
<1>11. ASSUME NEW i \in Ids, LoadRow(i) PROVE UploadInv'
  <2> DEFINE o == <<i, 1>>
  <2>1. /\ gen' = [gen EXCEPT ![i] = 1] /\ tasks' = [tasks EXCEPT ![i] = 1]
        /\ kind' = [kind EXCEPT ![o] = rows[i].kind]
        /\ status' = [status EXCEPT ![o] = rows[i].status]
        /\ rows' = rows /\ i \in toLoad
    BY <1>11 DEF LoadRow
  <2>2. o \in Tasks /\ rows[i] # NoRow
    BY <1>a, <2>1 DEF Tasks, LoadInv
  <2>3. i \in UploadIds => rows[i].kind = "upload" /\ rows[i] \in Row \ {NoRow}
    BY <1>a, <2>2 DEF UploadInv, OneUpload
  <2>4. OneUpload'
    BY <1>a, <2>1, <2>2, <2>3 DEF UploadInv, OneUpload, Tasks
  <2>5. ASSUME NEW j \in UploadIds, tasks'[j] # 0, status'[<<j, tasks'[j]>>] = "Pending"
        PROVE  rows[j] = [kind |-> "upload", status |-> "Pending"]
    <3>1. CASE j = i
      <4>1. rows[i].status = "Pending"
        BY <1>a, <2>1, <2>2, <2>5, <3>1
      <4>2. QED
        BY <2>3, <3>1, <4>1 DEF Row
    <3>2. CASE j # i
      BY <1>a, <1>b, <2>1, <2>5, <3>2 DEF UploadInv, PendingUploadIsStored, Obj
    <3>3. QED
      BY <3>1, <3>2
  <2>6. QED
    BY <2>1, <2>4, <2>5 DEF UploadInv, PendingUploadIsStored, Obj
<1>12. CASE UNCHANGED vars
  BY <1>12, UploadQuiet DEF vars
<1>13. QED
  BY <1>1, <1>2, <1>3, <1>4, <1>5, <1>6, <1>7, <1>8, <1>9, <1>10, <1>11, <1>12
     DEF Next, Worker

\* An upload that is pending has a row that Init resumes, whatever the worker,
\* the ticker and earlier crashes did (queue.go:98-112, 303-317).
THEOREM PendingUploadIsStoredHolds == Spec => []PendingUploadIsStored
<1>1. Init => ListedInv
  BY QueueInit DEF Init, ListedInv, ListedIsStored, RowInv, NoEntries
<1>2. Init => UploadInv
  BY QueueAssumption DEF Init, NoEntries, NewTasks, UploadInv, OneUpload,
                         PendingUploadIsStored, Ids
<1>3. UploadInv => PendingUploadIsStored
  BY DEF UploadInv
<1>4. QED
  BY <1>1, <1>2, <1>3, ListedStep, UploadStep, PTL DEF Spec

-----------------------------------------------------------------------------
(* Removed tasks and the reload.                                            *)

\* A row the reload would take up is still to be read, or its task is on the
\* list or in the worker's hands.
Owned(i)   == i \in toLoad \/ tasks[i] # 0 \/ (cur # NoTask /\ cur[1] = i)
ResumeInv  == \A i \in Ids : rows[i].status \in Resumed => Owned(i)

\* An upsert writes the status of its row and leaves the other rows alone.
LEMMA UpsertStatus ==
  ASSUME rows \in [Ids -> Row], NEW i \in Ids, NEW k, NEW s
  PROVE  /\ Upsert(i, k, s)[i].status = s
         /\ \A j \in Ids : j # i => Upsert(i, k, s)[j] = rows[j]
  BY DEF Upsert

\* A step that writes no row the reload would take up.
LEMMA ResumeQuiet ==
  ASSUME ResumeInv, toLoad' = toLoad,
         \A i \in Ids : rows'[i].status \in Resumed =>
           \/ rows'[i] = rows[i] /\ (tasks[i] # 0 => tasks'[i] # 0)
           \/ Owned(i)',
         cur' = cur \/ cur = NoTask
           \/ (cur # NoTask /\ rows'[cur[1]].status \notin Resumed)
  PROVE  ResumeInv'
<1> SUFFICES ASSUME NEW i \in Ids, rows'[i].status \in Resumed PROVE Owned(i)'
  BY DEF ResumeInv, Resumed
<1>1. CASE rows'[i] = rows[i] /\ (tasks[i] # 0 => tasks'[i] # 0)
  <2>1. Owned(i)
    BY <1>1 DEF ResumeInv
  <2>2. QED
    BY <1>1, <2>1 DEF Owned
<1>2. QED
  BY <1>1

LEMMA ResumeStep == TypeInv /\ ResumeInv /\ [Next]_vars => ResumeInv'
<1> SUFFICES ASSUME TypeInv, ResumeInv, [Next]_vars PROVE ResumeInv'
  OBVIOUS
<1>a. /\ tasks \in [Ids -> 0..MaxGen] /\ gen \in [Ids -> 0..MaxGen]
      /\ rows \in [Ids -> Row] /\ WorkInv /\ LockInv /\ MaxGen \in Nat \ {0}
      /\ cur \in Tasks \cup {NoTask} /\ held \in Tasks \cup {NoTask}
      /\ NoTask \notin Tasks
  BY QueueAssumption DEF TypeInv, TypeOK
<1>b. \A o \in Tasks : o[1] \in Ids
  BY DEF Tasks
<1>c. NoRow.status \notin Resumed
  BY DEF NoRow, Resumed
<1>1. ASSUME NEW i \in Ids, NEW req \in Request(i), AddTask(i, req)
      PROVE  ResumeInv'
  <2>1. \A j \in Ids : j # i => rows'[j] = rows[j] /\ tasks'[j] = tasks[j]
    BY <1>1, <1>a, UpsertStatus DEF AddTask
  <2>2. tasks'[i] # 0
    BY <1>1, <1>a DEF AddTask
  <2>3. QED
    BY <1>1, <2>1, <2>2, ResumeQuiet DEF AddTask, loadVars, workerVars, Owned
<1>2. ASSUME UNCHANGED <<rows, tasks, toLoad, cur>> PROVE ResumeInv'
  BY <1>2, ResumeQuiet
<1>3. CASE \/ SendAdded \/ EnterHandler \/ ShowProgress \/ HandlerReturn \/ StartWorker
           \/ UNCHANGED vars
           \/ \E o \in Tasks : Age(o) \/ SendOrphan(o)
  BY <1>2, <1>3 DEF SendAdded, EnterHandler, ShowProgress, HandlerReturn, StartWorker,
     vars, Age, SendOrphan, loadVars, workerVars
<1>4. ASSUME NEW i \in Ids, RemoveTask(i)
      PROVE  ResumeInv'
  <2>1. Obj(i)[1] = i
    BY DEF Obj
  <2>2. rows'[i].status = "Cancelled" /\ \A j \in Ids : j # i => rows'[j] = rows[j]
    BY <1>4, <1>a, <2>1, UpsertStatus DEF RemoveTask, Save
  <2>3. \A j \in Ids : j # i => tasks'[j] = tasks[j]
    BY <1>4, <1>a DEF RemoveTask
  <2>4. "Cancelled" \notin Resumed /\ toLoad' = toLoad /\ cur' = cur
    BY <1>4 DEF RemoveTask, loadVars, workerVars, Resumed
  <2>5. QED
    BY <2>2, <2>3, <2>4, ResumeQuiet
<1>5. CASE DeleteRow
  <2>1. \A j \in Ids : rows'[j] = NoRow \/ rows'[j] = rows[j]
    BY <1>5, <1>a DEF DeleteRow
  <2>2. UNCHANGED <<tasks, toLoad, cur>>
    BY <1>5 DEF DeleteRow, loadVars, workerVars
  <2>3. QED
    BY <1>c, <2>1, <2>2, ResumeQuiet
<1>6. CASE Receive
  <2>1. cur = NoTask /\ UNCHANGED <<rows, tasks, toLoad>>
    BY <1>6, <1>a DEF Receive, WorkInv, loadVars
  <2>2. QED
    BY <2>1, ResumeQuiet
<1>7. ASSUME NEW s, cur \in Tasks, Save(cur, s), s \notin Resumed \/ cur' = cur,
             UNCHANGED <<tasks, toLoad>>
      PROVE  ResumeInv'
  <2>1. /\ cur[1] \in Ids /\ rows'[cur[1]].status = s
        /\ \A j \in Ids : j # cur[1] => rows'[j] = rows[j]
    BY <1>7, <1>a, <1>b, UpsertStatus DEF Save
  <2>2. cur # NoTask
    BY <1>7, <1>a
  <2>3. s \in Resumed => Owned(cur[1])'
    BY <1>7, <2>2 DEF Owned
  <2>4. QED
    BY <1>7, <2>1, <2>2, <2>3, ResumeQuiet
<1>8. CASE BeginTask
  BY <1>7, <1>8, <1>a DEF BeginTask, WorkInv, loadVars, Resumed
<1>9. CASE SaveProgress
  BY <1>7, <1>9, <1>a DEF SaveProgress, WorkInv, loadVars
<1>10. CASE FinishTask
  <2>1. /\ cur \in Tasks /\ UNCHANGED <<tasks, toLoad>>
        /\ Save(cur, "Completed") \/ Save(cur, "Error")
    BY <1>10, <1>a DEF FinishTask, WorkInv, loadVars
  <2>2. QED
    BY <1>7, <2>1 DEF Resumed
<1>11. CASE CleanupTick
  <2>1. \A j \in Ids : rows'[j] = NoRow \/ (rows'[j] = rows[j] /\ tasks'[j] = tasks[j])
    BY <1>11, <1>a DEF CleanupTick
  <2>2. UNCHANGED <<toLoad, cur>>
    BY <1>11 DEF CleanupTick, loadVars, workerVars
  <2>3. QED
    BY <1>c, <2>1, <2>2, ResumeQuiet
<1>12. ASSUME NEW trash \in SUBSET VideoIds, OrphanCleanup(trash)
       PROVE  ResumeInv'
  <2> DEFINE new == {v \in trash : tasks[v] = 0}
  <2>1. /\ tasks' = [j \in Ids |-> IF j \in new THEN gen[j] + 1 ELSE tasks[j]]
        /\ rows' = rows /\ UNCHANGED <<toLoad, cur>>
    BY <1>12 DEF OrphanCleanup, loadVars, workerVars
  <2>2. \A j \in Ids : tasks[j] # 0 => tasks'[j] # 0
    BY <2>1, <1>a
  <2>3. QED
    BY <2>1, <2>2, ResumeQuiet
<1>13. CASE Crash
  <2>1. /\ rows' = rows /\ toLoad' = Stored
    BY <1>13 DEF Crash
  <2>2. QED
    BY <1>c, <2>1 DEF ResumeInv, Owned, Stored, Resumed
<1>14. ASSUME NEW i \in Ids, LoadRow(i)
       PROVE  ResumeInv'
  <2>1. /\ rows' = rows /\ cur' = cur /\ toLoad' = toLoad \ {i} /\ tasks'[i] = 1
        /\ \A j \in Ids : j # i => tasks'[j] = tasks[j]
    BY <1>14, <1>a DEF LoadRow, workerVars
  <2>2. QED
    BY <2>1 DEF ResumeInv, Owned, Resumed
<1>15. QED
  BY <1>1, <1>3, <1>4, <1>5, <1>6, <1>8, <1>9, <1>10, <1>11, <1>12, <1>13, <1>14
  DEF Next, Worker

\* A task that was removed is not resumed, unless its handler still runs and
\* saves it again (queue.go:146).
THEOREM RemovedDoesNotResumeHolds == Spec => []RemovedDoesNotResume
<1> DEFINE Inv == TypeInv /\ ResumeInv
<1>1. Init => Inv
  BY TypeInit DEF Init, ResumeInv, NoRow, Resumed
<1>2. Inv /\ [Next]_vars => Inv'
  BY TypeStep, ResumeStep
<1>3. Inv => RemovedDoesNotResume
  <2> SUFFICES ASSUME Inv, phase = "up", NEW i \in Ids, rows[i].status \in Resumed
               PROVE  tasks[i] # 0 \/ \E g \in 1..MaxGen : cur = <<i, g>>
    BY DEF RemovedDoesNotResume
  <2>1. Owned(i) /\ toLoad = {} /\ cur \in Tasks \cup {NoTask}
    BY DEF ResumeInv, TypeInv, LoadInv, TypeOK
  <2>2. cur \in Tasks /\ cur[1] = i => \E g \in 1..MaxGen : cur = <<i, g>>
    BY DEF Tasks
  <2>3. QED
    BY <2>1, <2>2 DEF Owned
<1>4. QED
  BY <1>1, <1>2, <1>3, PTL DEF Spec
=============================================================================
