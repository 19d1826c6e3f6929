----------------------------- MODULE ThreadPool -----------------------------
(***************************************************************************)
(* core/ThreadPool: worker threads on one mutex and one condition          *)
(* variable.  Every critical section under m_Mtx is one step (nothing      *)
(* blocks inside it); what happens after the unlock, notify_one in Submit  *)
(* and notify_all in Shutdown, is a step of its own, so the windows in     *)
(* which a wake-up could be lost are all here.                             *)
(***************************************************************************)
EXTENDS Naturals, Sequences, FiniteSets

CONSTANTS Task, Worker, NoTask

\* The constructor turns a size of 0 into 1, so there is always a worker.
ASSUME PoolAssumption == /\ NoTask \notin Task
                         /\ IsFiniteSet(Worker)
                         /\ Worker # {}

VARIABLES m_Tasks,    \* queue of accepted tasks
          m_Stopping,
          pc,         \* where each worker is in its loop
          current,    \* the task each worker is executing
          done,       \* tasks whose future is ready
          rejected,   \* tasks whose Submit threw
          notifies,   \* Submit calls between their unlock and notify_one
          shutdown    \* progress of the Shutdown call

vars == <<m_Tasks, m_Stopping, pc, current, done, rejected, notifies, shutdown>>

InPc(s) == {w \in Worker : pc[w] = s}

IsAccepted(t) ==
    \/ \E i \in DOMAIN m_Tasks : m_Tasks[i] = t
    \/ \E w \in Worker : current[w] = t
    \/ t \in done

Init ==
    /\ m_Tasks = <<>>
    /\ m_Stopping = FALSE
    /\ pc = [w \in Worker |-> "loop"]
    /\ current = [w \in Worker |-> NoTask]
    /\ done = {}
    /\ rejected = {}
    /\ notifies = 0
    /\ shutdown = "no"

-----------------------------------------------------------------------------
\* Fault: the enqueue is not followed by a notification.
SubmitWithoutNotify(t) ==
    /\ ~m_Stopping
    /\ ~IsAccepted(t)
    /\ m_Tasks' = Append(m_Tasks, t)
    /\ UNCHANGED <<m_Stopping, pc, current, done, rejected, notifies, shutdown>>

\* Submit, under the lock: a fresh packaged_task is queued.
Submit(t) ==
    /\ ~m_Stopping
    /\ ~IsAccepted(t)
    /\ m_Tasks' = Append(m_Tasks, t)
    /\ notifies' = notifies + 1
    /\ UNCHANGED <<m_Stopping, pc, current, done, rejected, shutdown>>

\* Submit on a stopped pool throws.
SubmitThrows(t) ==
    /\ m_Stopping
    /\ ~IsAccepted(t)
    /\ t \notin rejected
    /\ rejected' = rejected \cup {t}
    /\ UNCHANGED <<m_Tasks, m_Stopping, pc, current, done, notifies, shutdown>>

\* Fault: the notification reaches nobody.
NotifyNobody ==
    /\ notifies > 0
    /\ notifies' = notifies - 1
    /\ UNCHANGED <<m_Tasks, m_Stopping, pc, current, done, rejected, shutdown>>

\* Submit, after the unlock: notify_one wakes one sleeper, if there is one.
NotifyOne ==
    /\ notifies > 0
    /\ notifies' = notifies - 1
    /\ IF InPc("waiting") = {}
       THEN UNCHANGED pc
       ELSE \E w \in InPc("waiting") : pc' = [pc EXCEPT ![w] = "loop"]
    /\ UNCHANGED <<m_Tasks, m_Stopping, current, done, rejected, shutdown>>

-----------------------------------------------------------------------------
\* The predicate of m_Cv.wait is false: release the lock and sleep.
Sleep(w) ==
    /\ pc[w] = "loop"
    /\ ~m_Stopping /\ m_Tasks = <<>>
    /\ pc' = [pc EXCEPT ![w] = "waiting"]
    /\ UNCHANGED <<m_Tasks, m_Stopping, current, done, rejected, notifies, shutdown>>

\* A condition variable may wake a thread nobody notified.
SpuriousWake(w) ==
    /\ pc[w] = "waiting"
    /\ pc' = [pc EXCEPT ![w] = "loop"]
    /\ UNCHANGED <<m_Tasks, m_Stopping, current, done, rejected, notifies, shutdown>>

\* Fault: a stopping worker leaves although tasks are queued.
ExitWithBacklog(w) ==
    /\ pc[w] = "loop"
    /\ m_Stopping
    /\ pc' = [pc EXCEPT ![w] = "exited"]
    /\ UNCHANGED <<m_Tasks, m_Stopping, current, done, rejected, notifies, shutdown>>

Exit(w) ==
    /\ pc[w] = "loop"
    /\ m_Stopping /\ m_Tasks = <<>>
    /\ pc' = [pc EXCEPT ![w] = "exited"]
    /\ UNCHANGED <<m_Tasks, m_Stopping, current, done, rejected, notifies, shutdown>>

\* Fault: front() without pop().
TakeWithoutPop(w) ==
    /\ pc[w] = "loop"
    /\ m_Tasks # <<>>
    /\ pc' = [pc EXCEPT ![w] = "running"]
    /\ current' = [current EXCEPT ![w] = Head(m_Tasks)]
    /\ UNCHANGED <<m_Tasks, m_Stopping, done, rejected, notifies, shutdown>>

Take(w) ==
    /\ pc[w] = "loop"
    /\ m_Tasks # <<>>
    /\ pc' = [pc EXCEPT ![w] = "running"]
    /\ current' = [current EXCEPT ![w] = Head(m_Tasks)]
    /\ m_Tasks' = Tail(m_Tasks)
    /\ UNCHANGED <<m_Stopping, done, rejected, notifies, shutdown>>

\* Fault: the worker loops with the old task still in hand.
FinishKeepsTask(w) ==
    /\ pc[w] = "running"
    /\ done' = done \cup {current[w]}
    /\ pc' = [pc EXCEPT ![w] = "loop"]
    /\ UNCHANGED <<m_Tasks, m_Stopping, current, rejected, notifies, shutdown>>

\* task() returns; the packaged_task keeps an exception for the future.
Finish(w) ==
    /\ pc[w] = "running"
    /\ done' = done \cup {current[w]}
    /\ current' = [current EXCEPT ![w] = NoTask]
    /\ pc' = [pc EXCEPT ![w] = "loop"]
    /\ UNCHANGED <<m_Tasks, m_Stopping, rejected, notifies, shutdown>>

-----------------------------------------------------------------------------
ShutdownStop ==
    /\ shutdown = "no"
    /\ m_Stopping' = TRUE
    /\ shutdown' = "stopped"
    /\ UNCHANGED <<m_Tasks, pc, current, done, rejected, notifies>>

\* Fault: notify_one where notify_all is needed.
ShutdownNotifyOne ==
    /\ shutdown = "stopped"
    /\ IF InPc("waiting") = {}
       THEN UNCHANGED pc
       ELSE \E w \in InPc("waiting") : pc' = [pc EXCEPT ![w] = "loop"]
    /\ shutdown' = "joining"
    /\ UNCHANGED <<m_Tasks, m_Stopping, current, done, rejected, notifies>>

ShutdownNotifyAll ==
    /\ shutdown = "stopped"
    /\ pc' = [w \in Worker |-> IF pc[w] = "waiting" THEN "loop" ELSE pc[w]]
    /\ shutdown' = "joining"
    /\ UNCHANGED <<m_Tasks, m_Stopping, current, done, rejected, notifies>>

\* Shutdown returns once every worker has been joined.
ShutdownJoin ==
    /\ shutdown = "joining"
    /\ InPc("exited") = Worker
    /\ shutdown' = "returned"
    /\ UNCHANGED <<m_Tasks, m_Stopping, pc, current, done, rejected, notifies>>

WorkerStep(w) == Sleep(w) \/ Exit(w) \/ Take(w)

Next ==
    \/ \E t \in Task : Submit(t) \/ SubmitThrows(t)
    \/ NotifyOne
    \/ \E w \in Worker : WorkerStep(w) \/ SpuriousWake(w) \/ Finish(w)
    \/ ShutdownStop \/ ShutdownNotifyAll \/ ShutdownJoin

Spec == Init /\ [][Next]_vars

\* Threads keep running and tasks return.  Nobody has to submit or shut down,
\* and no worker has to be woken without a notification.
Fairness ==
    /\ \A w \in Worker : WF_vars(WorkerStep(w)) /\ WF_vars(Finish(w))
    /\ WF_vars(NotifyOne)
    /\ WF_vars(ShutdownNotifyAll)
    /\ WF_vars(ShutdownJoin)

FairSpec == Spec /\ Fairness

-----------------------------------------------------------------------------
\* Types, with the one coupling the worker loop relies on: a worker holds a
\* task exactly while it is between pop() and the return of task().
TypeOK ==
    /\ m_Tasks \in Seq(Task)
    /\ m_Stopping \in BOOLEAN
    /\ pc \in [Worker -> {"loop", "waiting", "running", "exited"}]
    /\ current \in [Worker -> Task \cup {NoTask}]
    /\ done \subseteq Task
    /\ rejected \subseteq Task
    /\ notifies \in Nat
    /\ shutdown \in {"no", "stopped", "joining", "returned"}
    /\ \A w \in Worker : pc[w] = "running" <=> current[w] # NoTask

\* No task is lost, queued twice or run by two workers: an accepted task sits
\* in one queue slot, or in the hands of one worker, or is done, never in two
\* of these, however Submit, the workers and Shutdown interleave.
TaskAccounting ==
    /\ \A i, j \in DOMAIN m_Tasks : m_Tasks[i] = m_Tasks[j] => i = j
    /\ \A v, w \in Worker : current[v] = current[w] /\ current[v] # NoTask => v = w
    /\ \A i \in DOMAIN m_Tasks : m_Tasks[i] \notin done
    /\ \A w \in Worker : current[w] \notin done
    /\ \A i \in DOMAIN m_Tasks, w \in Worker : m_Tasks[i] # current[w]

\* No wake-up is lost between a worker's test of the queue and its sleep: a
\* worker sleeps over a backlog only if each queued task already has a worker
\* awake for it or a notification on its way.
WorkConserving ==
    InPc("waiting") # {} =>
        Len(m_Tasks) <= Cardinality(InPc("loop")) + notifies

\* Shutdown (and so the destructor) returns only after every task the pool
\* ever accepted has run: no future is left broken.
ShutdownDrains ==
    shutdown = "returned" => /\ m_Tasks = <<>>
                             /\ \A w \in Worker : current[w] = NoTask

\* Shutdown never joins a worker that sleeps: whoever fell asleep before
\* m_Stopping was set has been woken, and nobody falls asleep after, although
\* notify_all comes after the unlock and reaches only those asleep by then.
NoSleeperJoined == shutdown \in {"joining", "returned"} => InPc("waiting") = {}

\* What holds of Shutdown at every step: it drains the queue, and it waits for
\* nobody who sleeps.
ShutdownInv == ShutdownDrains /\ NoSleeperJoined

Pool == INSTANCE TaskPool WITH
            queue <- m_Tasks, running <- current, closed <- m_Stopping

\* The pool with its lock and condition variable implements the pool its
\* callers see, fairness included: a backlog is always started by somebody.
ImplementsTaskPool == Pool!FairSpec

\* Shutdown, once begun, joins every worker and returns.
ShutdownReturns == shutdown = "stopped" ~> shutdown = "returned"
=============================================================================
