------------------------------ MODULE TaskPool ------------------------------
(***************************************************************************)
(* What core/ThreadPool promises to its callers, with everything about     *)
(* locks, condition variables and notifications hidden: accepted tasks     *)
(* queue first-in first-out, each free worker may start the oldest one,    *)
(* a started task finishes, and a closed pool accepts nothing more but     *)
(* still runs what it has.  ThreadPool is shown to implement this module;  *)
(* StdioTransport is built on it.                                          *)
(***************************************************************************)
EXTENDS Sequences

CONSTANTS Task,     \* the packaged tasks, each submitted at most once
          Worker,   \* the pool's threads
          NoTask    \* what an idle worker runs

VARIABLES queue,    \* accepted tasks no worker has taken yet, oldest first
          running,  \* the task each worker is executing
          done,     \* tasks whose future is ready
          closed    \* the pool refuses new tasks

poolVars == <<queue, running, done, closed>>

\* A task somebody already handed to the pool.
IsAccepted(t) ==
    \/ \E i \in DOMAIN queue : queue[i] = t
    \/ \E w \in Worker : running[w] = t
    \/ t \in done

Init ==
    /\ queue = <<>>
    /\ running = [w \in Worker |-> NoTask]
    /\ done = {}
    /\ closed = FALSE

Submit(t) ==
    /\ ~closed
    /\ ~IsAccepted(t)
    /\ queue' = Append(queue, t)
    /\ UNCHANGED <<running, done>> /\ closed' = closed

Start(w) ==
    /\ running[w] = NoTask
    /\ queue # <<>>
    /\ running' = [running EXCEPT ![w] = Head(queue)]
    /\ queue' = Tail(queue)
    /\ UNCHANGED done /\ closed' = closed

Finish(w) ==
    /\ running[w] # NoTask
    /\ done' = done \cup {running[w]}
    /\ running' = [running EXCEPT ![w] = NoTask]
    /\ UNCHANGED queue /\ closed' = closed

Close ==
    /\ ~closed
    /\ closed' = TRUE
    /\ UNCHANGED <<queue, running, done>>

Next ==
    \/ \E t \in Task : Submit(t)
    \/ \E w \in Worker : Start(w) \/ Finish(w)
    \/ Close

Spec == Init /\ [][Next]_poolVars

\* A backlog never waits on an idle pool, and a started task is finished.
Fairness ==
    /\ WF_poolVars(\E w \in Worker : Start(w))
    /\ \A w \in Worker : WF_poolVars(Finish(w))

FairSpec == Spec /\ Fairness
=============================================================================
