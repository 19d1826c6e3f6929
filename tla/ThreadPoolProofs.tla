-------------------------- MODULE ThreadPoolProofs --------------------------
(***************************************************************************)
(* For any finite set of workers and any tasks: the pool's types, that no  *)
(* task is lost or run twice, that Shutdown drains, that no wake-up is     *)
(* lost, and that every step of the pool is a step of TaskPool.            *)
(***************************************************************************)
EXTENDS ThreadPool, FiniteSetTheorems, TLAPS

\* Every step of the pool and of its callers keeps the types.
LEMMA TypeOKStep == TypeOK /\ [Next]_vars => TypeOK'
<1> USE PoolAssumption
<1> SUFFICES ASSUME TypeOK, [Next]_vars PROVE TypeOK'
  OBVIOUS
<1> USE DEF TypeOK
<1>1. ASSUME NEW t \in Task, Submit(t) PROVE TypeOK'
  BY <1>1 DEF Submit
<1>2. ASSUME NEW t \in Task, SubmitThrows(t) PROVE TypeOK'
  BY <1>2 DEF SubmitThrows
<1>3. CASE NotifyOne
  BY <1>3 DEF NotifyOne, InPc
<1>4. ASSUME NEW w \in Worker, Sleep(w) PROVE TypeOK'
  BY <1>4 DEF Sleep
<1>5. ASSUME NEW w \in Worker, SpuriousWake(w) PROVE TypeOK'
  BY <1>5 DEF SpuriousWake
<1>6. ASSUME NEW w \in Worker, Exit(w) PROVE TypeOK'
  BY <1>6 DEF Exit
<1>7. ASSUME NEW w \in Worker, Take(w) PROVE TypeOK'
  BY <1>7 DEF Take
<1>8. ASSUME NEW w \in Worker, Finish(w) PROVE TypeOK'
  BY <1>8 DEF Finish
<1>9. CASE ShutdownStop
  BY <1>9 DEF ShutdownStop
<1>10. CASE ShutdownNotifyAll
  BY <1>10 DEF ShutdownNotifyAll
<1>11. CASE ShutdownJoin
  BY <1>11 DEF ShutdownJoin
<1>12. CASE UNCHANGED vars
  BY <1>12 DEF vars
<1>13. QED
  BY <1>1, <1>2, <1>3, <1>4, <1>5, <1>6, <1>7, <1>8, <1>9, <1>10, <1>11, <1>12
  DEF Next, WorkerStep

\* The thread pool's variables keep their types, and a worker holds a task
\* exactly while it runs one.
THEOREM TypeCorrect == Spec => []TypeOK
<1>1. ASSUME Init PROVE TypeOK
  <2>1. m_Tasks \in Seq(Task) /\ notifies \in Nat
    BY <1>1 DEF Init
  <2>2. m_Stopping \in BOOLEAN
    BY <1>1 DEF Init
  <2>3. \A w \in Worker : pc[w] = "running" <=> current[w] # NoTask
    BY <1>1 DEF Init
  <2>4. QED
    BY <1>1, <2>1, <2>2, <2>3 DEF Init, TypeOK
<1>2. QED
  BY <1>1, TypeOKStep, PTL DEF Spec

-----------------------------------------------------------------------------
LEMMA AccountingStep == TypeOK /\ TaskAccounting /\ [Next]_vars => TaskAccounting'
<1> USE PoolAssumption
<1> SUFFICES ASSUME TypeOK, TaskAccounting, [Next]_vars PROVE TaskAccounting'
  OBVIOUS
<1> USE DEF TypeOK, TaskAccounting
<1>1. ASSUME NEW t \in Task, Submit(t) PROVE TaskAccounting'
  BY <1>1 DEF Submit, IsAccepted
<1>2. ASSUME NEW t \in Task, SubmitThrows(t) PROVE TaskAccounting'
  BY <1>2 DEF SubmitThrows
<1>3. CASE NotifyOne
  BY <1>3 DEF NotifyOne
<1>4. ASSUME NEW w \in Worker, Sleep(w) \/ SpuriousWake(w) \/ Exit(w)
      PROVE TaskAccounting'
  BY <1>4 DEF Sleep, SpuriousWake, Exit
<1>5. ASSUME NEW w \in Worker, Take(w) PROVE TaskAccounting'
  BY <1>5 DEF Take
<1>6. ASSUME NEW w \in Worker, Finish(w) PROVE TaskAccounting'
  BY <1>6 DEF Finish
<1>7. CASE ShutdownStop \/ ShutdownNotifyAll \/ ShutdownJoin \/ UNCHANGED vars
  BY <1>7 DEF ShutdownStop, ShutdownNotifyAll, ShutdownJoin, vars
<1>8. QED
  BY <1>1, <1>2, <1>3, <1>4, <1>5, <1>6, <1>7 DEF Next, WorkerStep

\* Whatever the number of workers and tasks, no accepted task is lost,
\* duplicated or run by two workers.
THEOREM NoTaskLostOrDuplicated == Spec => []TaskAccounting
<1>1. Init => TaskAccounting
  BY DEF Init, TaskAccounting
<1>2. QED
  BY <1>1, TypeCorrect, AccountingStep, PTL DEF Spec

-----------------------------------------------------------------------------
\* Why Shutdown drains: a worker leaves only a stopping pool with an empty
\* queue, and a stopping pool accepts nothing, so the queue stays empty.
DrainInv ==
    /\ (\E w \in Worker : pc[w] = "exited") => m_Stopping /\ m_Tasks = <<>>
    /\ shutdown # "no" => m_Stopping
    /\ shutdown = "returned" => \A w \in Worker : pc[w] = "exited"

LEMMA DrainStep == TypeOK /\ DrainInv /\ [Next]_vars => DrainInv'
<1> USE PoolAssumption
<1> SUFFICES ASSUME TypeOK, DrainInv, [Next]_vars PROVE DrainInv'
  OBVIOUS
<1> USE DEF TypeOK, DrainInv
<1>1. ASSUME NEW t \in Task, Submit(t) \/ SubmitThrows(t) PROVE DrainInv'
  BY <1>1 DEF Submit, SubmitThrows
<1>2. CASE NotifyOne
  BY <1>2 DEF NotifyOne, InPc
<1>3. ASSUME NEW w \in Worker, Sleep(w) \/ SpuriousWake(w) \/ Exit(w)
      PROVE DrainInv'
  BY <1>3 DEF Sleep, SpuriousWake, Exit
<1>4. ASSUME NEW w \in Worker, Take(w) \/ Finish(w) PROVE DrainInv'
  BY <1>4 DEF Take, Finish
<1>5. CASE ShutdownStop \/ ShutdownNotifyAll
  BY <1>5 DEF ShutdownStop, ShutdownNotifyAll
<1>6. CASE ShutdownJoin
  BY <1>6 DEF ShutdownJoin, InPc
<1>7. CASE UNCHANGED vars
  BY <1>7 DEF vars
<1>8. QED
  BY <1>1, <1>2, <1>3, <1>4, <1>5, <1>6, <1>7 DEF Next, WorkerStep

\* When Shutdown returns, every task the pool accepted has run.
THEOREM ShutdownRunsEverything == Spec => []ShutdownDrains
<1>1. Init => DrainInv
  BY DEF Init, DrainInv
<1>2. TypeOK /\ DrainInv => ShutdownDrains
  BY PoolAssumption DEF TypeOK, DrainInv, ShutdownDrains
<1>3. QED
  BY <1>1, <1>2, TypeCorrect, DrainStep, PTL DEF Spec

\* ShutdownInv: when Shutdown returns every accepted task has run, and
\* a thread that Shutdown joins is awake, for any number of workers: notify_all
\* comes after the flag, and the flag keeps the others from falling asleep.
\* It is what ShutdownReturns rests on.
THEOREM ShutdownIsSound == Spec => []ShutdownInv
<1>1. Init => DrainInv /\ NoSleeperJoined
  BY DEF Init, DrainInv, NoSleeperJoined
<1>2. TypeOK /\ DrainInv /\ NoSleeperJoined /\ [Next]_vars => NoSleeperJoined'
  <2> SUFFICES ASSUME TypeOK, DrainInv, NoSleeperJoined, [Next]_vars
               PROVE  NoSleeperJoined'
    OBVIOUS
  <2> USE DEF TypeOK, DrainInv, NoSleeperJoined, InPc
  <2>1. ASSUME NEW t \in Task, Submit(t) \/ SubmitThrows(t) PROVE NoSleeperJoined'
    BY <2>1 DEF Submit, SubmitThrows
  <2>2. CASE NotifyOne
    BY <2>2 DEF NotifyOne
  <2>3. ASSUME NEW w \in Worker, Sleep(w) \/ SpuriousWake(w) \/ Exit(w)
        PROVE  NoSleeperJoined'
    BY <2>3 DEF Sleep, SpuriousWake, Exit
  <2>4. ASSUME NEW w \in Worker, Take(w) \/ Finish(w) PROVE NoSleeperJoined'
    BY <2>4 DEF Take, Finish
  <2>5. CASE ShutdownStop \/ ShutdownNotifyAll \/ ShutdownJoin
    BY <2>5 DEF ShutdownStop, ShutdownNotifyAll, ShutdownJoin
  <2>6. CASE UNCHANGED vars
    BY <2>6 DEF vars
  <2> QED
    BY <2>1, <2>2, <2>3, <2>4, <2>5, <2>6 DEF Next, WorkerStep
<1>3. Spec => []NoSleeperJoined
  BY <1>1, <1>2, TypeCorrect, DrainStep, PTL DEF Spec
<1> QED
  BY <1>3, ShutdownRunsEverything, PTL DEF ShutdownInv

-----------------------------------------------------------------------------
LEMMA InPcFinite ==
    \A s : /\ IsFiniteSet(InPc(s)) /\ Cardinality(InPc(s)) \in Nat
           /\ IsFiniteSet(InPc(s)') /\ Cardinality(InPc(s)') \in Nat
BY PoolAssumption, FS_Subset, FS_CardinalityType DEF InPc

LEMMA WorkConservingStep ==
    TypeOK /\ WorkConserving /\ [Next]_vars => WorkConserving'
<1> USE PoolAssumption, InPcFinite
<1> SUFFICES ASSUME TypeOK, WorkConserving, [Next]_vars PROVE WorkConserving'
  OBVIOUS
<1> USE DEF TypeOK, WorkConserving
<1>l. Len(m_Tasks) \in Nat
  OBVIOUS
<1>1. ASSUME NEW t \in Task, Submit(t) PROVE WorkConserving'
  <2>1. InPc("loop")' = InPc("loop") /\ InPc("waiting")' = InPc("waiting")
    BY <1>1 DEF Submit, InPc
  <2>2. Len(m_Tasks') = Len(m_Tasks) + 1 /\ notifies' = notifies + 1
    BY <1>1 DEF Submit
  <2>3. QED
    BY <1>l, <2>1, <2>2
<1>2. CASE NotifyOne /\ InPc("waiting") = {}
  BY <1>2 DEF NotifyOne, InPc
<1>3. CASE NotifyOne /\ InPc("waiting") # {}
  <2>1. PICK w \in InPc("waiting") : pc' = [pc EXCEPT ![w] = "loop"]
    BY <1>3 DEF NotifyOne
  <2>2. InPc("loop")' = InPc("loop") \cup {w} /\ w \notin InPc("loop")
    BY <2>1 DEF InPc
  <2>3. Cardinality(InPc("loop")') = Cardinality(InPc("loop")) + 1
    BY <2>2, FS_AddElement
  <2>4. m_Tasks' = m_Tasks /\ notifies' = notifies - 1 /\ notifies > 0
    BY <1>3 DEF NotifyOne
  <2>5. QED
    BY <1>3, <1>l, <2>3, <2>4
<1>4. ASSUME NEW w \in Worker, Sleep(w) \/ Exit(w) PROVE WorkConserving'
  <2>1. Len(m_Tasks') = 0 /\ notifies' = notifies
    BY <1>4 DEF Sleep, Exit
  <2>2. QED
    BY <2>1
<1>5. ASSUME NEW w \in Worker, SpuriousWake(w) PROVE WorkConserving'
  <2>1. InPc("loop")' = InPc("loop") \cup {w} /\ w \notin InPc("loop")
    BY <1>5 DEF SpuriousWake, InPc
  <2>2. Cardinality(InPc("loop")') = Cardinality(InPc("loop")) + 1
    BY <2>1, FS_AddElement
  <2>3. InPc("waiting") # {} /\ m_Tasks' = m_Tasks /\ notifies' = notifies
    BY <1>5 DEF SpuriousWake, InPc
  <2>4. QED
    BY <1>l, <2>2, <2>3
<1>6. ASSUME NEW w \in Worker, Take(w) PROVE WorkConserving'
  <2>1. /\ InPc("loop")' = InPc("loop") \ {w} /\ w \in InPc("loop")
        /\ InPc("waiting")' = InPc("waiting")
    BY <1>6 DEF Take, InPc
  <2>2. Cardinality(InPc("loop")') = Cardinality(InPc("loop")) - 1
    BY <2>1, FS_RemoveElement
  <2>3. Len(m_Tasks') = Len(m_Tasks) - 1 /\ notifies' = notifies
    BY <1>6 DEF Take
  <2>4. QED
    BY <1>l, <2>1, <2>2, <2>3
<1>7. ASSUME NEW w \in Worker, Finish(w) PROVE WorkConserving'
  <2>1. /\ InPc("loop")' = InPc("loop") \cup {w} /\ w \notin InPc("loop")
        /\ InPc("waiting")' = InPc("waiting")
    BY <1>7 DEF Finish, InPc
  <2>2. Cardinality(InPc("loop")') = Cardinality(InPc("loop")) + 1
    BY <2>1, FS_AddElement
  <2>3. m_Tasks' = m_Tasks /\ notifies' = notifies
    BY <1>7 DEF Finish
  <2>4. QED
    BY <1>l, <2>1, <2>2, <2>3
<1>8. CASE ShutdownNotifyAll
  <2>1. InPc("waiting")' = {}
    BY <1>8 DEF ShutdownNotifyAll, InPc
  <2>2. QED
    BY <2>1
<1>9. ASSUME UNCHANGED <<m_Tasks, pc, notifies>> PROVE WorkConserving'
  BY <1>9 DEF InPc
<1>10. CASE ShutdownStop \/ ShutdownJoin \/ UNCHANGED vars
  BY <1>9, <1>10 DEF ShutdownStop, ShutdownJoin, vars
<1>11. ASSUME NEW t \in Task, SubmitThrows(t) PROVE WorkConserving'
  BY <1>9, <1>11 DEF SubmitThrows
<1>12. QED
  BY <1>1, <1>2, <1>3, <1>4, <1>5, <1>6, <1>7, <1>8, <1>10, <1>11
  DEF Next, WorkerStep

\* For any number of workers, no worker sleeps over a task that nobody has
\* been woken for: notify_one after the unlock loses no wake-up.
THEOREM NoLostWakeup == Spec => []WorkConserving
<1>1. Init => WorkConserving
  BY DEF Init, WorkConserving, InPc
<1>2. QED
  BY <1>1, TypeCorrect, WorkConservingStep, PTL DEF Spec

-----------------------------------------------------------------------------
LEMMA RefinementStep == TypeOK /\ [Next]_vars => [Pool!Next]_(Pool!poolVars)
<1> USE PoolAssumption
<1> SUFFICES ASSUME TypeOK, [Next]_vars PROVE [Pool!Next]_(Pool!poolVars)
  OBVIOUS
<1> USE DEF Pool!poolVars, Pool!Next
<1>1. ASSUME NEW t \in Task, Submit(t) PROVE Pool!Submit(t)
  BY <1>1 DEF Submit, IsAccepted, Pool!Submit, Pool!IsAccepted
<1>2. ASSUME NEW w \in Worker, Take(w) PROVE Pool!Start(w)
  BY <1>2 DEF Take, Pool!Start, TypeOK
<1>3. ASSUME NEW w \in Worker, Finish(w) PROVE Pool!Finish(w)
  BY <1>3 DEF Finish, Pool!Finish, TypeOK
<1>4. CASE ShutdownStop
  BY <1>4 DEF ShutdownStop, Pool!Close, TypeOK
<1>5. ASSUME NEW t \in Task, SubmitThrows(t) PROVE UNCHANGED Pool!poolVars
  BY <1>5 DEF SubmitThrows
<1>6. ASSUME NEW w \in Worker, Sleep(w) \/ SpuriousWake(w) \/ Exit(w)
      PROVE UNCHANGED Pool!poolVars
  BY <1>6 DEF Sleep, SpuriousWake, Exit
<1>7. CASE NotifyOne \/ ShutdownNotifyAll \/ ShutdownJoin \/ UNCHANGED vars
  BY <1>7 DEF NotifyOne, ShutdownNotifyAll, ShutdownJoin, vars
<1>8. QED
  BY <1>1, <1>2, <1>3, <1>4, <1>5, <1>6, <1>7 DEF Next, WorkerStep

\* The locked, condition-variable pool only does what the abstract pool may
\* do: FIFO starts, one worker per task, nothing accepted once closed.
THEOREM PoolRefinesTaskPool == Spec => Pool!Spec
<1>1. Init => Pool!Init
  BY DEF Init, Pool!Init
<1>2. QED
  BY <1>1, TypeCorrect, RefinementStep, PTL DEF Spec, Pool!Spec
=============================================================================
