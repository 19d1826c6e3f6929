------------------------ MODULE NativePluginAdapter ------------------------
(***************************************************************************)
(* plugins/NativePluginAdapter: one tool of a native plugin, called by any *)
(* number of threads at once.  Three atomics guard the calls and no lock   *)
(* covers two of them: m_ShutdownRequested, the circuit breaker            *)
(* m_FaultCount and the count m_ActiveThreads of calls inside the plugin.  *)
(* Each is read in one step and acted on in a later one, which is what     *)
(* this module is about.  The future is deferred: the whole of             *)
(* ExecuteAsync's lambda runs on the thread that waits for it.             *)
(***************************************************************************)
EXTENDS Naturals, FiniteSets

CONSTANTS Caller,               \* threads that may call the tool
          Key, NoKey,           \* request ids; NoKey for the empty string
          kMaxFaults,
          kMaxConcurrentCalls

ASSUME AdapterAssumption ==
    /\ IsFiniteSet(Caller)
    /\ NoKey \notin Key
    /\ kMaxFaults \in Nat \ {0}
    /\ kMaxConcurrentCalls \in Nat \ {0}

VARIABLES m_FaultCount, m_ActiveThreads, m_ShutdownRequested,
          m_CancelledRequests,
          pc,           \* where each caller is in ExecuteAsync
          requestId     \* the id of the request it carries

vars == <<m_FaultCount, m_ActiveThreads, m_ShutdownRequested,
          m_CancelledRequests, pc, requestId>>

Init ==
    /\ m_FaultCount = 0 /\ m_ActiveThreads = 0
    /\ m_ShutdownRequested = FALSE /\ m_CancelledRequests = {}
    /\ pc = [c \in Caller |-> "idle"]
    /\ requestId = [c \in Caller |-> NoKey]

\* Caller c moves on, leaving everything but its position alone.
GoTo(c, label) == pc' = [pc EXCEPT ![c] = label]

-----------------------------------------------------------------------------
(* ExecuteAsync                                                            *)

\* A request arrives, with an id or without one.
Call(c, k) ==
    /\ pc[c] = "idle"
    /\ requestId' = [requestId EXCEPT ![c] = k]
    /\ GoTo(c, "start")
    /\ UNCHANGED <<m_FaultCount, m_ActiveThreads, m_ShutdownRequested,
                   m_CancelledRequests>>

\* Fault: the shutdown flag is not looked at.
IgnoreShutdown(c) ==
    /\ pc[c] = "start"
    /\ GoTo(c, "breaker")
    /\ UNCHANGED <<m_FaultCount, m_ActiveThreads, m_ShutdownRequested,
                   m_CancelledRequests, requestId>>

\* "is shutting down"
TestShutdown(c) ==
    /\ pc[c] = "start"
    /\ GoTo(c, IF m_ShutdownRequested THEN "idle" ELSE "breaker")
    /\ UNCHANGED <<m_FaultCount, m_ActiveThreads, m_ShutdownRequested,
                   m_CancelledRequests, requestId>>

IsDisabled == m_FaultCount >= kMaxFaults

\* Fault: the breaker opens only after one fault more, as with ">".
TestBreakerOffByOne(c) ==
    /\ pc[c] = "breaker"
    /\ GoTo(c, IF m_FaultCount > kMaxFaults THEN "idle" ELSE "limit")
    /\ UNCHANGED <<m_FaultCount, m_ActiveThreads, m_ShutdownRequested,
                   m_CancelledRequests, requestId>>

\* "is disabled after 3 consecutive faults"
TestBreaker(c) ==
    /\ pc[c] = "breaker"
    /\ GoTo(c, IF IsDisabled THEN "idle" ELSE "limit")
    /\ UNCHANGED <<m_FaultCount, m_ActiveThreads, m_ShutdownRequested,
                   m_CancelledRequests, requestId>>

\* Fault: a refused call gives back a place it never took.
TestLimitReleases(c) ==
    /\ pc[c] = "limit"
    /\ IF m_ActiveThreads >= kMaxConcurrentCalls
       THEN GoTo(c, "idle") /\ m_ActiveThreads' = m_ActiveThreads - 1
       ELSE GoTo(c, "enter") /\ UNCHANGED m_ActiveThreads
    /\ UNCHANGED <<m_FaultCount, m_ShutdownRequested, m_CancelledRequests,
                   requestId>>

\* "has too many outstanding calls"
TestLimit(c) ==
    /\ pc[c] = "limit"
    /\ GoTo(c, IF m_ActiveThreads >= kMaxConcurrentCalls THEN "idle" ELSE "enter")
    /\ UNCHANGED <<m_FaultCount, m_ActiveThreads, m_ShutdownRequested,
                   m_CancelledRequests, requestId>>

Enter(c) ==
    /\ pc[c] = "enter"
    /\ m_ActiveThreads' = m_ActiveThreads + 1
    /\ GoTo(c, "execute")
    /\ UNCHANGED <<m_FaultCount, m_ShutdownRequested, m_CancelledRequests,
                   requestId>>

\* Fault: the catch blocks forget the counter.
ThrowKeepsCount(c) ==
    /\ pc[c] = "execute"
    /\ GoTo(c, "fault")
    /\ UNCHANGED <<m_FaultCount, m_ActiveThreads, m_ShutdownRequested,
                   m_CancelledRequests, requestId>>

\* The plugin throws, a std::exception or anything else: both catch blocks do
\* the same.
ExecuteThrows(c) ==
    /\ pc[c] = "execute"
    /\ m_ActiveThreads' = m_ActiveThreads - 1
    /\ GoTo(c, "fault")
    /\ UNCHANGED <<m_FaultCount, m_ShutdownRequested, m_CancelledRequests,
                   requestId>>

\* The plugin returns, however late: nobody waits with a deadline.
ExecuteReturns(c) ==
    /\ pc[c] = "execute"
    /\ m_ActiveThreads' = m_ActiveThreads - 1
    /\ GoTo(c, "settle")
    /\ UNCHANGED <<m_FaultCount, m_ShutdownRequested, m_CancelledRequests,
                   requestId>>

WasCancelled(c) == requestId[c] \in m_CancelledRequests

\* "was cancelled": neither a fault nor a success.
ReportCancelled(c) ==
    /\ pc[c] = "settle" /\ WasCancelled(c)
    /\ m_CancelledRequests' = m_CancelledRequests \ {requestId[c]}
    /\ GoTo(c, "idle")
    /\ UNCHANGED <<m_FaultCount, m_ActiveThreads, m_ShutdownRequested, requestId>>

\* Fault: a call that timed out is made once more without asking the breaker.
SettleRetriesLate(c) ==
    /\ pc[c] = "settle" /\ ~WasCancelled(c)
    /\ \E late \in BOOLEAN : GoTo(c, IF late THEN "limit" ELSE "success")
    /\ UNCHANGED <<m_FaultCount, m_ActiveThreads, m_ShutdownRequested,
                   m_CancelledRequests, requestId>>

\* The clock is read after the fact: in time or timed out.
Settle(c) ==
    /\ pc[c] = "settle" /\ ~WasCancelled(c)
    /\ \E late \in BOOLEAN : GoTo(c, IF late THEN "fault" ELSE "success")
    /\ UNCHANGED <<m_FaultCount, m_ActiveThreads, m_ShutdownRequested,
                   m_CancelledRequests, requestId>>

CountFault(c) ==
    /\ pc[c] = "fault"
    /\ m_FaultCount' = m_FaultCount + 1
    /\ GoTo(c, "idle")
    /\ UNCHANGED <<m_ActiveThreads, m_ShutdownRequested, m_CancelledRequests,
                   requestId>>

\* A success closes the breaker again, even one that three faults have opened
\* while this call was inside.
ResetFaults(c) ==
    /\ pc[c] = "success"
    /\ m_FaultCount' = 0
    /\ GoTo(c, "idle")
    /\ UNCHANGED <<m_ActiveThreads, m_ShutdownRequested, m_CancelledRequests,
                   requestId>>

-----------------------------------------------------------------------------
(* Called by the transport and by the registry, from any thread.           *)

Cancel(k) ==
    /\ m_CancelledRequests' = m_CancelledRequests \cup {k}
    /\ UNCHANGED <<m_FaultCount, m_ActiveThreads, m_ShutdownRequested, pc,
                   requestId>>

Shutdown ==
    /\ m_ShutdownRequested' = TRUE
    /\ UNCHANGED <<m_FaultCount, m_ActiveThreads, m_CancelledRequests, pc,
                   requestId>>

CallStep(c) ==
    \/ TestShutdown(c) \/ TestBreaker(c) \/ TestLimit(c) \/ Enter(c)
    \/ ExecuteThrows(c) \/ ExecuteReturns(c)
    \/ ReportCancelled(c) \/ Settle(c) \/ CountFault(c) \/ ResetFaults(c)

Next ==
    \/ \E c \in Caller : (\E k \in Key \cup {NoKey} : Call(c, k)) \/ CallStep(c)
    \/ \E k \in Key : Cancel(k)
    \/ Shutdown

Spec == Init /\ [][Next]_vars

\* Threads are scheduled, and the plugin returns from every call.
FairSpec == Spec /\ \A c \in Caller : WF_vars(CallStep(c))

-----------------------------------------------------------------------------
Label == {"idle", "start", "breaker", "limit", "enter", "execute", "settle",
          "fault", "success"}

TypeOK ==
    /\ m_FaultCount \in Nat /\ m_ActiveThreads \in Nat
    /\ m_ShutdownRequested \in BOOLEAN
    /\ m_CancelledRequests \subseteq Key
    /\ pc \in [Caller -> Label]
    /\ requestId \in [Caller -> Key \cup {NoKey}]

At(labels) == {c \in Caller : pc[c] \in labels}

\* The calls the breaker has let through and whose outcome is still open.
PastBreaker == At({"limit", "enter", "execute", "settle", "fault", "success"})

\* m_ActiveThreads counts exactly the threads inside the plugin, whichever way
\* each leaves it: a drift would close the tool for good at the limit.
ActiveExact == m_ActiveThreads = Cardinality(At({"execute"}))

\* A plugin that keeps failing is called again only by threads that had passed
\* the breaker before it opened: the count exceeds kMaxFaults - 1 by at most
\* one per caller.
FaultsBounded ==
    m_FaultCount + Cardinality(PastBreaker) <= kMaxFaults - 1 + Cardinality(Caller)

\* An open breaker lets the calls inside run out.  One of them that succeeds
\* closes it again, though it began before the faults that opened it; if none
\* does, the plugin is never entered again, by a retry, a cancellation or a
\* refusal at the limit.
BreakerSettles ==
    IsDisabled ~> (~IsDisabled \/ [](IsDisabled /\ PastBreaker = {}))

\* After Shutdown the calls inside drain and no new one gets in: from some
\* point on the plugin is never executing again.
ShutdownQuiesces == m_ShutdownRequested ~> [](At({"enter", "execute"}) = {})
=============================================================================
