------------------------------ MODULE JobQueue ------------------------------
(***************************************************************************)
(* What the daemon's task queue promises, without locks, statuses or a     *)
(* database: a job that is offered enters the line at most once, the line  *)
(* is served in order, one job at a time, and a finished job stays         *)
(* finished until the process restarts.  TaskQueue.tla implements it.      *)
(***************************************************************************)
EXTENDS Naturals, Sequences

CONSTANTS Jobs,     \* every job object the process may create
          NoJob     \* no job; not a member of Jobs

VARIABLES offered,  \* jobs whose creator waits for a place in the line
          line,     \* jobs waiting to be served, in order
          active,   \* the job being served, or NoJob
          finished  \* jobs served

vars == <<offered, line, active, finished>>

InLine == {line[n] : n \in DOMAIN line}

\* A job nobody has offered yet.
Fresh(j) == j \notin offered \cup InLine \cup finished \cup {active}

Init == /\ offered = {}
        /\ line = <<>>
        /\ active = NoJob
        /\ finished = {}

Offer(S) == /\ S \subseteq Jobs
            /\ \A j \in S : Fresh(j)
            /\ offered' = offered \cup S
            /\ UNCHANGED <<line, active, finished>>

\* A job takes its place: one that was offered, or a new one at once.
Enter(j) == /\ j \in offered \/ Fresh(j)
            /\ offered' = offered \ {j}
            /\ line' = Append(line, j)
            /\ UNCHANGED <<active, finished>>

Begin == /\ active = NoJob
         /\ line # <<>>
         /\ active' = Head(line)
         /\ line' = Tail(line)
         /\ UNCHANGED <<offered, finished>>

Finish == /\ active # NoJob
          /\ finished' = finished \cup {active}
          /\ active' = NoJob
          /\ UNCHANGED <<offered, line>>

\* The process dies and its successor starts with an empty line.
Restart == /\ offered' = {}
           /\ line' = <<>>
           /\ active' = NoJob
           /\ finished' = {}

Next == \/ \E S \in SUBSET Jobs : Offer(S)
        \/ \E j \in Jobs : Enter(j)
        \/ Begin
        \/ Finish
        \/ Restart

Spec == Init /\ [][Next]_vars
=============================================================================
