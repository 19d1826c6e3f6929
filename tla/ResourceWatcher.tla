--------------------------- MODULE ResourceWatcher ---------------------------
(***************************************************************************)
(* The resource subscriptions of server/StdioTransport: the reader thread  *)
(* handles resources/subscribe and /unsubscribe and ends at EOF; a watcher *)
(* thread, started with the first subscription and joined with the last,   *)
(* polls modification times and pushes notifications/resources/updated.    *)
(* They share m_SubscriptionMutex, the stop flag and the thread handle.    *)
(*                                                                         *)
(* A critical section in which nothing blocks is one step that needs the   *)
(* mutex free.  Two hold it longer: the watcher's scan, and unsubscribing  *)
(* the last URI, which joins the watcher before it unlocks.                *)
(***************************************************************************)
EXTENDS Naturals

CONSTANTS Uri,        \* resources below the root
          MaxStamp,   \* bound: how often each file is modified
          NoStamp     \* no modification time recorded

ASSUME WatcherAssumption == MaxStamp \in Nat /\ NoStamp \notin Nat

VARIABLES disk,                    \* each file: does it exist, its mtime
          m_SubscribedUris, m_SubscribedMtimes,
          mutex,                   \* who holds m_SubscriptionMutex
          m_ResourceWatcherStop,
          thread,                  \* m_ResourceWatcherThread
          wpc, toScan,             \* the watcher: where, and what is left
          rpc, muri,               \* the reader: where, and the URI at hand
          eof,                     \* the client closed its end
          notified                 \* the mtime last announced for each URI

watchVars == <<disk, m_SubscribedUris, m_SubscribedMtimes, mutex,
          m_ResourceWatcherStop, thread, wpc, toScan, rpc, muri, eof, notified>>

watcherVars == <<thread, wpc, toScan, notified>>

Stamp == 0..MaxStamp

WatchInit ==
    /\ disk = [u \in Uri |-> [exists |-> TRUE, stamp |-> 0]]
    /\ m_SubscribedUris = {} /\ m_SubscribedMtimes = [u \in Uri |-> NoStamp]
    /\ mutex = "free" /\ m_ResourceWatcherStop = FALSE
    /\ thread = "none" /\ wpc = "loop" /\ toScan = {}
    /\ rpc = "ready" /\ muri \in Uri
    /\ eof = FALSE /\ notified = [u \in Uri |-> NoStamp]

-----------------------------------------------------------------------------
(* resources/subscribe                                                     *)

\* The checks pass (a refused request changes nothing).
SubscribeCheck(u) ==
    /\ rpc = "ready" /\ ~eof
    /\ disk[u].exists
    /\ muri' = u
    /\ rpc' = "record"
    /\ UNCHANGED <<disk, m_SubscribedUris, m_SubscribedMtimes, mutex,
                   m_ResourceWatcherStop, watcherVars, eof>>

\* Under the lock; the file may have gone since the check.
SubscribeRecord ==
    /\ rpc = "record" /\ mutex = "free"
    /\ m_SubscribedUris' = m_SubscribedUris \cup {muri}
    /\ m_SubscribedMtimes' =
          IF disk[muri].exists
          THEN [m_SubscribedMtimes EXCEPT ![muri] = disk[muri].stamp]
          ELSE m_SubscribedMtimes
    /\ rpc' = "start"
    /\ UNCHANGED <<disk, mutex, m_ResourceWatcherStop, watcherVars, muri, eof>>

\* Fault: the stop flag of an earlier watcher is left set.
StartWithoutReset ==
    /\ rpc = "start"
    /\ IF thread = "none"
       THEN thread' = "alive" /\ wpc' = "loop"
       ELSE UNCHANGED <<thread, wpc>>
    /\ rpc' = "ready"
    /\ UNCHANGED <<disk, m_SubscribedUris, m_SubscribedMtimes, mutex,
                   m_ResourceWatcherStop, toScan, muri, eof, notified>>

StartResourceWatcher ==
    /\ rpc = "start"
    /\ IF thread = "none"
       THEN thread' = "alive" /\ wpc' = "loop" /\ m_ResourceWatcherStop' = FALSE
       ELSE UNCHANGED <<thread, wpc, m_ResourceWatcherStop>>
    /\ rpc' = "ready"
    /\ UNCHANGED <<disk, m_SubscribedUris, m_SubscribedMtimes, mutex, toScan,
                   muri, eof, notified>>

-----------------------------------------------------------------------------
(* resources/unsubscribe                                                   *)

\* The lock is taken and the URI erased; if it was the last one the reader
\* calls StopResourceWatcher and waits in join() with the lock in hand.
Unsubscribe(u) ==
    /\ rpc = "ready" /\ ~eof /\ mutex = "free"
    /\ m_SubscribedUris' = m_SubscribedUris \ {u}
    /\ m_SubscribedMtimes' = [m_SubscribedMtimes EXCEPT ![u] = NoStamp]
    /\ IF m_SubscribedUris' # {}
       THEN UNCHANGED <<rpc, mutex, m_ResourceWatcherStop>>
       ELSE /\ m_ResourceWatcherStop' = TRUE
            /\ IF thread = "none" THEN UNCHANGED <<rpc, mutex>>
               ELSE rpc' = "joinLocked" /\ mutex' = "reader"
    /\ UNCHANGED <<disk, watcherVars, muri, eof>>

UnsubscribeJoined ==
    /\ rpc = "joinLocked" /\ thread = "exited"
    /\ thread' = "none"
    /\ mutex' = "free"
    /\ rpc' = "ready"
    /\ UNCHANGED <<disk, m_SubscribedUris, m_SubscribedMtimes,
                   m_ResourceWatcherStop, wpc, toScan, muri, eof, notified>>

-----------------------------------------------------------------------------
(* The end of Run                                                          *)

\* Fault: Run joins the watcher with the lock in hand, as unsubscribe does.
EofLocked ==
    /\ rpc = "ready" /\ eof /\ mutex = "free"
    /\ m_ResourceWatcherStop' = TRUE
    /\ IF thread = "none" THEN rpc' = "returned" /\ UNCHANGED mutex
       ELSE rpc' = "join" /\ mutex' = "reader"
    /\ UNCHANGED <<disk, m_SubscribedUris, m_SubscribedMtimes, watcherVars,
                   muri, eof>>

\* StopResourceWatcher after the read loop, without the lock.
ReadEof ==
    /\ rpc = "ready" /\ eof
    /\ m_ResourceWatcherStop' = TRUE
    /\ rpc' = IF thread = "none" THEN "returned" ELSE "join"
    /\ UNCHANGED <<disk, m_SubscribedUris, m_SubscribedMtimes, mutex,
                   watcherVars, muri, eof>>

EofJoined ==
    /\ rpc = "join" /\ thread = "exited"
    /\ thread' = "none"
    /\ rpc' = "returned"
    /\ UNCHANGED <<disk, m_SubscribedUris, m_SubscribedMtimes, mutex,
                   m_ResourceWatcherStop, wpc, toScan, muri, eof, notified>>

-----------------------------------------------------------------------------
(* The watcher thread                                                      *)

\* The stop flag is tested before and after the sleep.
WatcherTest ==
    /\ thread = "alive" /\ wpc \in {"loop", "sleep"}
    /\ IF m_ResourceWatcherStop
       THEN thread' = "exited" /\ UNCHANGED wpc
       ELSE wpc' = (IF wpc = "loop" THEN "sleep" ELSE "lock") /\ UNCHANGED thread
    /\ UNCHANGED <<disk, m_SubscribedUris, m_SubscribedMtimes, mutex,
                   m_ResourceWatcherStop, toScan, rpc, muri, eof, notified>>

\* Fault: the watcher scans a copy of the set without holding the lock.
WatcherNoLock ==
    /\ thread = "alive" /\ wpc = "lock" /\ mutex = "free"
    /\ toScan' = m_SubscribedUris
    /\ wpc' = "scan"
    /\ UNCHANGED <<disk, m_SubscribedUris, m_SubscribedMtimes, mutex,
                   m_ResourceWatcherStop, thread, rpc, muri, eof, notified>>

WatcherLock ==
    /\ thread = "alive" /\ wpc = "lock" /\ mutex = "free"
    /\ mutex' = "watcher"
    /\ toScan' = m_SubscribedUris
    /\ wpc' = "scan"
    /\ UNCHANGED <<disk, m_SubscribedUris, m_SubscribedMtimes,
                   m_ResourceWatcherStop, thread, rpc, muri, eof, notified>>

\* Fault: a missing file ends the scan instead of being skipped.
ScanStopsAtMissing(u) ==
    /\ thread = "alive" /\ wpc = "scan" /\ u \in toScan
    /\ toScan' = IF disk[u].exists THEN toScan \ {u} ELSE {}
    /\ IF disk[u].exists /\ m_SubscribedMtimes[u] # disk[u].stamp
       THEN /\ m_SubscribedMtimes' = [m_SubscribedMtimes EXCEPT ![u] = disk[u].stamp]
            /\ notified' = [notified EXCEPT ![u] = disk[u].stamp]
       ELSE UNCHANGED <<m_SubscribedMtimes, notified>>
    /\ UNCHANGED <<disk, m_SubscribedUris, mutex, m_ResourceWatcherStop, thread,
                   wpc, rpc, muri, eof>>

\* One URI: skip a missing file or a known time, else record and announce it.
WatcherScan(u) ==
    /\ thread = "alive" /\ wpc = "scan" /\ u \in toScan
    /\ toScan' = toScan \ {u}
    /\ IF disk[u].exists /\ m_SubscribedMtimes[u] # disk[u].stamp
       THEN /\ m_SubscribedMtimes' = [m_SubscribedMtimes EXCEPT ![u] = disk[u].stamp]
            /\ notified' = [notified EXCEPT ![u] = disk[u].stamp]
       ELSE UNCHANGED <<m_SubscribedMtimes, notified>>
    /\ UNCHANGED <<disk, m_SubscribedUris, mutex, m_ResourceWatcherStop, thread,
                   wpc, rpc, muri, eof>>

WatcherUnlock ==
    /\ thread = "alive" /\ wpc = "scan" /\ toScan = {}
    /\ mutex' = "free"
    /\ wpc' = "loop"
    /\ UNCHANGED <<disk, m_SubscribedUris, m_SubscribedMtimes,
                   m_ResourceWatcherStop, thread, toScan, rpc, muri, eof, notified>>

-----------------------------------------------------------------------------
(* The client and the file system                                          *)

ClientCloses ==
    /\ ~eof
    /\ eof' = TRUE
    /\ UNCHANGED <<disk, m_SubscribedUris, m_SubscribedMtimes, mutex,
                   m_ResourceWatcherStop, watcherVars, rpc, muri>>

\* Somebody writes the file, creating it if need be, or removes it.
FileWritten(u) ==
    /\ disk[u].stamp < MaxStamp
    /\ disk' = [disk EXCEPT ![u] = [exists |-> TRUE, stamp |-> @.stamp + 1]]
    /\ UNCHANGED <<m_SubscribedUris, m_SubscribedMtimes, mutex,
                   m_ResourceWatcherStop, watcherVars, rpc, muri, eof>>

FileRemoved(u) ==
    /\ disk[u].exists
    /\ disk' = [disk EXCEPT ![u].exists = FALSE]
    /\ UNCHANGED <<m_SubscribedUris, m_SubscribedMtimes, mutex,
                   m_ResourceWatcherStop, watcherVars, rpc, muri, eof>>

-----------------------------------------------------------------------------
SubscriptionStep ==
    \/ SubscribeRecord \/ StartResourceWatcher \/ UnsubscribeJoined
    \/ ReadEof \/ EofJoined

WatcherStep ==
    \/ WatcherTest \/ WatcherLock \/ WatcherUnlock
    \/ \E u \in Uri : WatcherScan(u)

WatchNext ==
    \/ \E u \in Uri : \/ SubscribeCheck(u) \/ Unsubscribe(u)
                      \/ FileWritten(u) \/ FileRemoved(u)
    \/ ClientCloses
    \/ SubscriptionStep
    \/ WatcherStep

WatchSpec == WatchInit /\ [][WatchNext]_watchVars

\* Both threads are scheduled; no client request and no file change is owed.
\* The watcher sleeps for two seconds with the mutex free between two scans,
\* so a reader waiting for the mutex gets it: strong fairness.
WatchFairness ==
    /\ WF_watchVars(SubscriptionStep) /\ SF_watchVars(SubscribeRecord)
    /\ WF_watchVars(WatcherStep)

WatchFairSpec == WatchSpec /\ WatchFairness

-----------------------------------------------------------------------------
\* Types; and a modification time is remembered only for a subscribed URI, so
\* subscribing again starts from the file as it is then.
WatchTypeOK ==
    /\ disk \in [Uri -> [exists : BOOLEAN, stamp : Stamp]]
    /\ m_SubscribedUris \subseteq Uri
    /\ m_SubscribedMtimes \in [Uri -> Stamp \cup {NoStamp}]
    /\ mutex \in {"free", "reader", "watcher"}
    /\ m_ResourceWatcherStop \in BOOLEAN
    /\ thread \in {"none", "alive", "exited"}
    /\ wpc \in {"loop", "sleep", "lock", "scan"} /\ toScan \subseteq Uri
    /\ rpc \in {"ready", "record", "start", "joinLocked", "join", "returned"}
    /\ muri \in Uri /\ eof \in BOOLEAN
    /\ notified \in [Uri -> Stamp \cup {NoStamp}]
    /\ \A u \in Uri : m_SubscribedMtimes[u] # NoStamp => u \in m_SubscribedUris

\* Run returns with the watcher joined and the mutex free: destroying the
\* transport destroys no running thread and no held lock.
NoThreadOutlivesRun == rpc = "returned" => thread = "none" /\ mutex = "free"

\* Between requests a watcher that has not been told to stop exists exactly
\* while something is subscribed, over any number of stops and restarts.
WatchedWhileSubscribed ==
    rpc = "ready" =>
        IF m_SubscribedUris = {} THEN thread = "none"
        ELSE thread = "alive" /\ ~m_ResourceWatcherStop

\* What holds at every step: one watcher while there is something to watch,
\* none once Run has returned, and no modification time without subscription.
WatcherInv == WatchTypeOK /\ NoThreadOutlivesRun /\ WatchedWhileSubscribed

\* notifications/resources/updated is sent only for a URI that is subscribed
\* at that moment: none arrives after the answer to unsubscribe.
NotifiesOnlySubscribed ==
    [][\A u \in Uri : notified'[u] # notified[u] =>
          u \in m_SubscribedUris /\ m_SubscribedMtimes'[u] = notified'[u]]_watchVars

Unannounced(u) ==
    /\ u \in m_SubscribedUris /\ disk[u].exists
    /\ m_SubscribedMtimes[u] # disk[u].stamp

\* A change to a subscribed file that stays there is picked up, whatever
\* happens to the other subscribed files, until Run ends.
ChangesPickedUp ==
    \A u \in Uri : Unannounced(u) ~> ~Unannounced(u) \/ rpc \in {"join", "returned"}

\* The reader joins the watcher with the lock the watcher is waiting for.
JoinDeadlock == rpc = "joinLocked" /\ thread = "alive" /\ wpc = "lock"

\* Run comes back after EOF unless it ran into the one deadlock there is:
\* unsubscribing the last URI while the watcher waits for the lock.
ReturnsUnlessJoinDeadlock == eof ~> rpc = "returned" \/ JoinDeadlock

\* Run returns when the input stream reaches its end.
ReturnsAtEof == eof ~> rpc = "returned"
=============================================================================
