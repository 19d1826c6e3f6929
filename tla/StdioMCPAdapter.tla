--------------------------- MODULE StdioMCPAdapter ---------------------------
(***************************************************************************)
(* plugins/StdioMCPAdapter: one tool of a child MCP server the adapter     *)
(* spawns on demand and talks to over SubprocessPipe, a request line and a *)
(* reply line at a time, under m_PipeMutex.  Every call runs on a thread   *)
(* of its own.  A child may die, with or without a process left behind    *)
(* that holds its pipes, or stop reading at any moment; the adapter spawns *)
(* at most kMaxRespawnRetries of them.  The command registry retires the   *)
(* adapter with ReplaceCommand while calls are inside it.                  *)
(*                                                                         *)
(* A reply line is taken as the reply to the request last written: its id  *)
(* is never looked at.  The child is one that writes one line for each     *)
(* request, in order.  Cancel is left out: it looks its request up in      *)
(* m_InFlightRequests, which is filled from a top-level "_requestId" of    *)
(* the params, and ExecuteAsync builds the params without one, so Cancel   *)
(* finds nothing and changes nothing.                                      *)
(***************************************************************************)
EXTENDS Naturals, Sequences

CONSTANTS Calls,                \* the calls of the tool, each made once
          Large,                \* those whose request overfills a pipe
          Initialize,           \* the handshake's request
          NoOne,                \* no call: the mutex is free, no reply given
          kMaxRespawnRetries

ASSUME StdioMCPAssumption ==
    /\ Large \subseteq Calls
    /\ Initialize \notin Calls
    /\ NoOne \notin Calls \cup {Initialize}
    /\ kMaxRespawnRetries \in Nat \ {0}

Children == 1 .. kMaxRespawnRetries     \* numbered as they are spawned
NoPipe == 0
Requests == Calls \cup {Initialize}
\* A line is an "error" when it has an error member or does not parse.
Lines == [re : Requests, kind : {"result", "error"}]

VARIABLES m_Pipe,               \* the child the adapter holds, or NoPipe
          m_Initialized, m_RespawnCount, m_ShutdownRequested, m_PipeMutex,
          child,                \* what each child process is doing
          requests, lines,      \* unread in m_Pipe's stdin and stdout
          pc,                   \* where each call is
          replace,              \* where CommandRegistry::ReplaceCommand is
          answer, answeredBy,   \* whose reply each call got, from which child
          greeted               \* children whose handshake succeeded

adapter == <<m_Pipe, m_Initialized, m_RespawnCount, m_ShutdownRequested>>
streams == <<requests, lines>>
history == <<answer, answeredBy, greeted>>
vars == <<adapter, m_PipeMutex, child, streams, pc, replace, history>>

Init ==
    /\ m_Pipe = NoPipe /\ m_Initialized = FALSE /\ m_RespawnCount = 0
    /\ m_ShutdownRequested = FALSE /\ m_PipeMutex = NoOne
    /\ child = [k \in Children |-> "none"]
    /\ requests = <<>> /\ lines = <<>>
    /\ pc = [c \in Calls |-> "idle"]
    /\ replace = "registered"
    /\ answer = [c \in Calls |-> NoOne]
    /\ answeredBy = [c \in Calls |-> NoPipe]
    /\ greeted = {}

Running(k) == k # NoPipe /\ child[k] \in {"up", "hung"}

\* A call that holds a reference to the adapter.
InFlight(c) == pc[c] \notin {"idle", "done"}

-----------------------------------------------------------------------------
(* SubprocessPipe                                                          *)

\* Fault: the child outlives its pipe.
LeaveRunning(k) == child

\* ~SubprocessPipe: the state of the processes when child k's pipe is gone.
Terminated(k) == IF k = NoPipe THEN child ELSE [child EXCEPT ![k] = "dead"]

\* WriteLine(r) and its result.  fwrite fills a buffer, so it counts every
\* byte of a small line as written even when the reader is gone; a large one
\* waits for the reader, and fails without one.
WriteLine(r, ok) ==
    \/ /\ child[m_Pipe] = "up" \/ (child[m_Pipe] = "hung" /\ r \notin Large)
       /\ ok = TRUE
       /\ requests' = Append(requests, r)
    \/ /\ child[m_Pipe] \in {"dead", "left"}
       /\ ok = (r \notin Large)
       /\ UNCHANGED requests

\* ReadLine returns a line.
ReadLine(l) == lines # <<>> /\ l = Head(lines) /\ lines' = Tail(lines)

\* Fault: ReadLine has no deadline.
WaitForChild == child[m_Pipe] = "dead" /\ lines = <<>>

\* ReadLine returns false: the deadline passes, which it may do with a line
\* on its way, or the child is gone and has left nothing.
ReadLineFails == TRUE

\* The child has exited and a process it left behind keeps its pipes open.
\* ReadLine, when it sees the child gone before its deadline, drains stdout in
\* a read that has none; a large write waits for a reader as before.
Held(c) ==
    /\ \/ pc[c] \in {"handshake", "read"} /\ lines = <<>>
       \/ pc[c] = "send" /\ c \in Large
    /\ child[m_Pipe] = "left"

-----------------------------------------------------------------------------
(* ExecuteAsync and SendRequest                                            *)

\* The registry resolves the tool and ExecuteAsync starts a thread.
ExecuteAsync(c) ==
    /\ replace = "registered" /\ pc[c] = "idle"
    /\ pc' = [pc EXCEPT ![c] = "called"]
    /\ UNCHANGED <<adapter, m_PipeMutex, child, streams, replace, history>>

\* "is shutting down"
TestShutdown(c) ==
    /\ pc[c] = "called"
    /\ pc' = [pc EXCEPT ![c] = IF m_ShutdownRequested THEN "returned" ELSE "waiting"]
    /\ UNCHANGED <<adapter, m_PipeMutex, child, streams, replace, history>>

\* SendRequest locks m_PipeMutex and EnsureRunning finds a child to use.
Reuse(c) ==
    /\ pc[c] = "waiting" /\ m_PipeMutex = NoOne
    /\ Running(m_Pipe) /\ m_Initialized
    /\ m_PipeMutex' = c
    /\ pc' = [pc EXCEPT ![c] = "send"]
    /\ UNCHANGED <<adapter, child, streams, replace, history>>

NeedsChild(c) ==
    /\ pc[c] = "waiting" /\ m_PipeMutex = NoOne
    /\ ~ (Running(m_Pipe) /\ m_Initialized)

\* "max respawn retries reached", or Spawn throws: nothing has changed.
NotRunning(c) ==
    /\ NeedsChild(c)
    /\ pc' = [pc EXCEPT ![c] = "returned"]
    /\ UNCHANGED <<adapter, m_PipeMutex, child, streams, replace, history>>

\* Fault: one child more than the limit, as with "<=".
SpawnOffByOne(c) ==
    /\ NeedsChild(c) /\ m_RespawnCount <= kMaxRespawnRetries
    /\ m_RespawnCount' = m_RespawnCount + 1
    /\ m_Pipe' = m_RespawnCount'
    /\ child' = [Terminated(m_Pipe) EXCEPT ![m_RespawnCount'] = "up"]
    /\ requests' = <<>> /\ lines' = <<>>
    /\ m_PipeMutex' = c
    /\ pc' = [pc EXCEPT ![c] = "greet"]
    /\ UNCHANGED <<m_Initialized, m_ShutdownRequested, replace, history>>

\* The new child runs; the assignment to m_Pipe destroys the old pipe.
Spawn(c) ==
    /\ NeedsChild(c) /\ m_RespawnCount < kMaxRespawnRetries
    /\ m_RespawnCount' = m_RespawnCount + 1
    /\ m_Pipe' = m_RespawnCount'
    /\ child' = [Terminated(m_Pipe) EXCEPT ![m_RespawnCount'] = "up"]
    /\ requests' = <<>> /\ lines' = <<>>
    /\ m_PipeMutex' = c
    /\ pc' = [pc EXCEPT ![c] = "greet"]
    /\ UNCHANGED <<m_Initialized, m_ShutdownRequested, replace, history>>

\* SendRequest returns, with or without a reply, and unlocks.
Return(c) ==
    /\ m_PipeMutex' = NoOne
    /\ pc' = [pc EXCEPT ![c] = "returned"]

\* EnsureRunning writes the initialize request.
SendInitialize(c) ==
    /\ pc[c] = "greet"
    /\ WriteLine(Initialize, TRUE)
    /\ pc' = [pc EXCEPT ![c] = "handshake"]
    /\ UNCHANGED <<adapter, m_PipeMutex, child, lines, replace, history>>

\* The reply has no error: the initialized notification, which the child
\* does not answer, ends the handshake.
InitializeSucceeds(c) ==
    /\ pc[c] = "handshake"
    /\ \E l \in Lines : ReadLine(l) /\ l.kind = "result"
    /\ m_Initialized' = TRUE
    /\ greeted' = greeted \cup {m_Pipe}
    /\ pc' = [pc EXCEPT ![c] = "send"]
    /\ UNCHANGED <<m_Pipe, m_RespawnCount, m_ShutdownRequested, m_PipeMutex,
                   child, requests, replace, answer, answeredBy>>

\* The reply is an error or does not parse.  m_Initialized keeps its value.
InitializeRefused(c) ==
    /\ pc[c] = "handshake"
    /\ \E l \in Lines : ReadLine(l) /\ l.kind = "error"
    /\ Return(c)
    /\ UNCHANGED <<adapter, child, requests, replace, history>>

\* No reply in time.  m_Initialized keeps its value.
InitializeTimeout(c) ==
    /\ pc[c] = "handshake" /\ ReadLineFails
    /\ Return(c)
    /\ UNCHANGED <<adapter, child, streams, replace, history>>

Send(c) ==
    /\ pc[c] = "send"
    /\ WriteLine(c, TRUE)
    /\ pc' = [pc EXCEPT ![c] = "read"]
    /\ UNCHANGED <<adapter, m_PipeMutex, child, lines, replace, history>>

\* "Failed to send request": the next call spawns a new child.
SendFails(c) ==
    /\ pc[c] = "send"
    /\ WriteLine(c, FALSE)
    /\ m_Initialized' = FALSE
    /\ Return(c)
    /\ UNCHANGED <<m_Pipe, m_RespawnCount, m_ShutdownRequested, child, lines,
                   replace, history>>

\* The line read is the reply, whatever request it answers.  An error or a
\* line that does not parse is reported to the caller and changes no more.
Receive(c) ==
    /\ pc[c] = "read"
    /\ \E l \in Lines : ReadLine(l) /\ answer' = [answer EXCEPT ![c] = l.re]
    /\ answeredBy' = [answeredBy EXCEPT ![c] = m_Pipe]
    /\ Return(c)
    /\ UNCHANGED <<adapter, child, requests, replace, greeted>>

\* Fault: the child is kept after a timeout.
ReceiveTimeoutKeepsChild(c) ==
    /\ pc[c] = "read" /\ ReadLineFails
    /\ Return(c)
    /\ UNCHANGED <<adapter, child, streams, replace, history>>

\* "Timeout waiting for response": the child may still answer, so the next
\* call spawns a new one.
ReceiveTimeout(c) ==
    /\ pc[c] = "read" /\ ReadLineFails
    /\ m_Initialized' = FALSE
    /\ Return(c)
    /\ UNCHANGED <<m_Pipe, m_RespawnCount, m_ShutdownRequested, child,
                   streams, replace, history>>

-----------------------------------------------------------------------------
(* The adapter's end                                                       *)

\* The last reference goes and ~StdioMCPAdapter destroys the pipe.
DropReference(last) ==
    IF last
    THEN /\ child' = Terminated(m_Pipe) /\ m_Pipe' = NoPipe
         /\ requests' = <<>> /\ lines' = <<>>
    ELSE UNCHANGED <<child, m_Pipe, requests, lines>>

\* Fault: a reference that never goes away, as in a cycle of shared_ptrs.
KeepReference(c) ==
    /\ pc[c] = "returned"
    /\ pc' = [pc EXCEPT ![c] = "done"]
    /\ UNCHANGED <<adapter, m_PipeMutex, child, streams, replace, history>>

\* The caller takes the future's value and the lambda's self is released.
Finish(c) ==
    /\ pc[c] = "returned"
    /\ pc' = [pc EXCEPT ![c] = "done"]
    /\ DropReference(replace = "gone" /\ \A d \in Calls \ {c} : ~ InFlight(d))
    /\ UNCHANGED <<m_Initialized, m_RespawnCount, m_ShutdownRequested,
                   m_PipeMutex, replace, history>>

\* ReplaceCommand takes the adapter out of the registry.
ReplaceCommand ==
    /\ replace = "registered"
    /\ replace' = "replaced"
    /\ UNCHANGED <<adapter, m_PipeMutex, child, streams, pc, history>>

RequestShutdown ==
    /\ replace = "replaced"
    /\ m_ShutdownRequested' = TRUE
    /\ replace' = "shutdown"
    /\ UNCHANGED <<m_Pipe, m_Initialized, m_RespawnCount, m_PipeMutex, child,
                   streams, pc, history>>

\* Shutdown gets the mutex once the call inside SendRequest has left it.
Shutdown ==
    /\ replace = "shutdown" /\ m_PipeMutex = NoOne
    /\ m_Initialized' = FALSE
    /\ child' = Terminated(m_Pipe) /\ m_Pipe' = NoPipe
    /\ requests' = <<>> /\ lines' = <<>>
    /\ replace' = "returning"
    /\ UNCHANGED <<m_RespawnCount, m_ShutdownRequested, m_PipeMutex, pc, history>>

ReplaceReturns ==
    /\ replace = "returning"
    /\ replace' = "gone"
    /\ DropReference(\A c \in Calls : ~ InFlight(c))
    /\ UNCHANGED <<m_Initialized, m_RespawnCount, m_ShutdownRequested,
                   m_PipeMutex, pc, history>>

-----------------------------------------------------------------------------
(* The child process                                                       *)

ChildAnswers ==
    /\ m_Pipe # NoPipe /\ child[m_Pipe] = "up" /\ requests # <<>>
    /\ \E l \in Lines : l.re = Head(requests) /\ lines' = Append(lines, l)
    /\ requests' = Tail(requests)
    /\ UNCHANGED <<adapter, m_PipeMutex, child, pc, replace, history>>

\* The child runs on but reads and answers no more.
ChildHangs ==
    /\ m_Pipe # NoPipe /\ child[m_Pipe] = "up"
    /\ child' = [child EXCEPT ![m_Pipe] = "hung"]
    /\ UNCHANGED <<adapter, m_PipeMutex, streams, pc, replace, history>>

\* The child exits and another process keeps its pipes open.
ChildLeaves ==
    /\ Running(m_Pipe)
    /\ child' = [child EXCEPT ![m_Pipe] = "left"]
    /\ UNCHANGED <<adapter, m_PipeMutex, streams, pc, replace, history>>

\* The child ends, perhaps in the middle of a line, and its pipes close; or
\* the one who kept them open lets go.
ChildDies ==
    /\ m_Pipe # NoPipe /\ child[m_Pipe] \in {"up", "hung", "left"}
    /\ child' = [child EXCEPT ![m_Pipe] = "dead"]
    /\ requests' = <<>>
    /\ \/ UNCHANGED lines
       \/ requests # <<>> /\ lines' = Append(lines, [re |-> Head(requests), kind |-> "error"])
    /\ UNCHANGED <<adapter, m_PipeMutex, pc, replace, history>>

-----------------------------------------------------------------------------
Step(c) ==
    \/ TestShutdown(c)
    \/ Reuse(c) \/ NotRunning(c) \/ Spawn(c)
    \/ SendInitialize(c) \/ InitializeSucceeds(c) \/ InitializeRefused(c)
    \/ InitializeTimeout(c)
    \/ Send(c) \/ SendFails(c) \/ Receive(c) \/ ReceiveTimeout(c)
    \/ Finish(c)

Retire == RequestShutdown \/ Shutdown \/ ReplaceReturns

Next ==
    \/ \E c \in Calls : ExecuteAsync(c) \/ Step(c)
    \/ ReplaceCommand \/ Retire
    \/ ChildAnswers \/ ChildHangs \/ ChildLeaves \/ ChildDies

Spec == Init /\ [][Next]_vars

\* The server's threads run on, except inside a drain or a write that is held.
\* Nothing is asked of the children, of those they leave behind, of the
\* clients to call or of the loader to replace the tool.
FairSpec ==
    Spec /\ (\A c \in Calls : WF_vars(Step(c) /\ ~ Held(c))) /\ WF_vars(Retire)

-----------------------------------------------------------------------------
(* Properties                                                              *)

\* Types of the adapter's members, the streams and the threads' positions.
TypeOK ==
    /\ m_RespawnCount \in 0 .. kMaxRespawnRetries
    /\ m_Pipe \in 0 .. m_RespawnCount
    /\ m_Initialized \in BOOLEAN /\ m_ShutdownRequested \in BOOLEAN
    /\ m_PipeMutex \in Calls \cup {NoOne}
    /\ child \in [Children -> {"none", "up", "hung", "left", "dead"}]
    /\ requests \in Seq(Requests) /\ lines \in Seq(Lines)
    /\ pc \in [Calls -> {"idle", "called", "waiting", "greet", "handshake",
                         "send", "read", "returned", "done"}]
    /\ replace \in {"registered", "replaced", "shutdown", "returning", "gone"}
    /\ answer \in [Calls -> Requests \cup {NoOne}]
    /\ answeredBy \in [Calls -> 0 .. kMaxRespawnRetries]
    /\ greeted \subseteq Children

\* A call answered by a child whose handshake succeeded gets the reply to its
\* own request, although ids are not compared: a child that has a reply
\* outstanding after a timeout is never read again.  SendRequest's resets of
\* m_Initialized and the destruction of the old pipe by EnsureRunning.
GreetedChildAnswersOwn ==
    \A c \in Calls : answer[c] # NoOne /\ answeredBy[c] \in greeted => answer[c] = c

\* Every call that is answered gets the reply to its own request, as the
\* adapter's tests have it.  EnsureRunning does not clear m_Initialized, so
\* after a child has died and its successor's handshake has timed out, the
\* next call takes the successor as initialized and reads the late reply to
\* initialize as its own.
AnswerIsOwn == \A c \in Calls : answer[c] \in {NoOne, c}

\* No child process is left behind: outside SendRequest the only child that
\* runs is the one in m_Pipe, and once ReplaceCommand has returned a child
\* runs only as long as some call still holds the adapter (a call that passed
\* the test of m_ShutdownRequested may spawn one after Shutdown).
NoOrphanChild ==
    \A k \in Children : Running(k) =>
        /\ m_PipeMutex = NoOne => k = m_Pipe
        /\ replace = "gone" => \E c \in Calls : InFlight(c)

\* A call is inside WriteLine with more than the pipe holds and the child
\* does not read, or inside the drain or the write that a process left behind
\* holds up: neither has a deadline.
Stuck ==
    \/ \E c \in Large : pc[c] = "send" /\ child[m_Pipe] = "hung"
    \/ \E c \in Calls : Held(c)

\* Every call returns, whatever the child does, because ReadLine has a
\* deadline and m_PipeMutex is therefore freed: unless from some time on the
\* call inside it is stuck for good, in fwrite or in ReadLine's drain.
CallsReturn == \A c \in Calls : pc[c] = "called" ~> (pc[c] = "done" \/ []Stuck)

\* Once a reload has replaced the tool, its adapter's last child goes and no
\* other comes: Shutdown and the destructor between them stop the child that
\* a late call spawned.  Again unless a call is stuck for good.
ReplacedToolLeavesNoChild ==
    (replace = "replaced") ~> ([]Stuck \/ [](\A k \in Children : ~ Running(k)))
=============================================================================
