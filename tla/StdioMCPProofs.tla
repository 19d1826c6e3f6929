--------------------------- MODULE StdioMCPProofs ---------------------------
(***************************************************************************)
(* Theorems about StdioMCPAdapter, for any calls and any retry limit.      *)
(* That a call reads its own reply rests on what the streams of a greeted  *)
(* child may hold at each place of the call that owns the mutex: nothing   *)
(* before it writes, and at most one line, about its own request, after.   *)
(***************************************************************************)
EXTENDS StdioMCPAdapter, SequenceTheorems, TLAPS

\* The places at which a call holds m_PipeMutex.
Inside(c) == pc[c] \in {"greet", "handshake", "send", "read"}

Quiet == Len(requests) = 0 /\ Len(lines) = 0

\* At most one request or reply is on its way, and it is about r.
Exchange(r) ==
    /\ Len(requests) + Len(lines) <= 1
    /\ \A i \in 1 .. Len(requests) : requests[i] = r
    /\ \A i \in 1 .. Len(lines) : lines[i].re = r

MutexInv ==
    /\ \A c \in Calls : Inside(c) <=> m_PipeMutex = c
    /\ m_PipeMutex # NoOne => m_Pipe # NoPipe

\* A child that is being greeted is new.
GreetInv ==
    /\ greeted \subseteq 1 .. m_RespawnCount
    /\ \A c \in Calls : answeredBy[c] <= m_RespawnCount
    /\ \A c \in Calls : pc[c] \in {"greet", "handshake"} =>
           m_Pipe \notin greeted /\ \A d \in Calls : answeredBy[d] # m_Pipe

StreamInv ==
    /\ \A c \in Calls : pc[c] = "greet" => Quiet
    /\ \A c \in Calls : pc[c] = "handshake" => Exchange(Initialize)
    /\ m_Pipe \in greeted =>
         /\ m_PipeMutex = NoOne /\ m_Initialized => Quiet
         /\ \A c \in Calls : pc[c] = "send" => Quiet
         /\ \A c \in Calls : pc[c] = "read" => Exchange(c)

ChildInv ==
    /\ \A k \in Children : Running(k) => k = m_Pipe
    /\ replace = "gone" /\ (\A c \in Calls : ~ InFlight(c)) => m_Pipe = NoPipe

Inv == TypeOK /\ MutexInv /\ GreetInv /\ StreamInv /\ ChildInv /\ GreetedChildAnswersOwn

-----------------------------------------------------------------------------
(* The streams                                                             *)

\* Writing into quiet streams starts an exchange about what is written.
LEMMA WriteStarts ==
    ASSUME TypeOK, Quiet, NEW r \in Requests, NEW ok, WriteLine(r, ok), lines' = lines
    PROVE  Exchange(r)'
<1>1. requests' = Append(requests, r) \/ requests' = requests
  BY DEF WriteLine
<1>2. requests \in Seq(Requests) /\ Len(requests) = 0 /\ Len(lines') = 0
  BY DEF TypeOK, Quiet
<1>3. CASE requests' = Append(requests, r)
  <2>1. Len(requests') = 1 /\ requests'[1] = r
    BY <1>2, <1>3
  <2>2. QED
    BY <1>2, <2>1 DEF Exchange
<1>4. CASE requests' = requests
  BY <1>2, <1>4 DEF Exchange
<1>5. QED
  BY <1>1, <1>3, <1>4

\* A stream of an exchange with something in it holds one item.
LEMMA OneItem ==
    ASSUME NEW S, NEW T, NEW s \in Seq(S), NEW t \in Seq(T), s # <<>>,
           Len(s) + Len(t) <= 1
    PROVE  Len(s) = 1 /\ Len(t) = 0 /\ Head(s) = s[1] /\ Len(Tail(s)) = 0
<1>1. Len(s) \in Nat /\ Len(t) \in Nat
  BY LenProperties
<1>2. Len(s) # 0
  BY EmptySeq
<1>3. Len(Tail(s)) = Len(s) - 1
  BY HeadTailProperties
<1>4. Head(s) = s[1]
  OBVIOUS
<1>5. QED
  BY <1>1, <1>2, <1>3, <1>4

\* The line read belongs to the exchange and ends it.
LEMMA ReadEnds ==
    ASSUME TypeOK, NEW r, Exchange(r), NEW l, ReadLine(l), requests' = requests
    PROVE  l.re = r /\ Quiet'
<1>1. requests \in Seq(Requests) /\ lines \in Seq(Lines)
  BY DEF TypeOK
<1>2. Len(lines) + Len(requests) <= 1
  BY <1>1 DEF Exchange
<1>3. Len(lines) = 1 /\ Len(requests) = 0 /\ Head(lines) = lines[1] /\ Len(Tail(lines)) = 0
  BY <1>1, <1>2, OneItem DEF ReadLine
<1>4. QED
  BY <1>3 DEF ReadLine, Exchange, Quiet

\* Whatever the child does, an exchange stays one and quiet streams stay quiet.
LEMMA ChildKeepsExchange ==
    ASSUME TypeOK, NEW r, Exchange(r), ChildAnswers \/ ChildHangs \/ ChildLeaves \/ ChildDies
    PROVE  Exchange(r)'
<1>1. requests \in Seq(Requests) /\ lines \in Seq(Lines)
  BY DEF TypeOK
<1>2. ASSUME requests # <<>>
      PROVE  /\ Len(requests) = 1 /\ Len(lines) = 0 /\ Head(requests) = r
             /\ Len(Tail(requests)) = 0
  BY <1>1, <1>2, OneItem DEF Exchange
<1>3. ASSUME NEW l, requests # <<>>, l.re = Head(requests), lines' = Append(lines, l),
             Len(requests') = 0
      PROVE  Exchange(r)'
  <2>1. Len(lines') = 1 /\ lines'[1] = l
    BY <1>1, <1>2, <1>3
  <2>2. QED
    BY <1>2, <1>3, <2>1 DEF Exchange
<1>4. CASE ChildAnswers
  BY <1>2, <1>3, <1>4 DEF ChildAnswers
<1>5. CASE ChildHangs \/ ChildLeaves
  BY <1>5 DEF ChildHangs, ChildLeaves, streams, Exchange
<1>6. CASE ChildDies
  <2>1. CASE lines' = lines
    BY <1>1, <1>6, <2>1 DEF ChildDies, Exchange
  <2>2. CASE requests # <<>> /\ lines' = Append(lines, [re |-> Head(requests), kind |-> "error"])
    <3>1. [re |-> Head(requests), kind |-> "error"].re = Head(requests) /\ Len(requests') = 0
      BY <1>6 DEF ChildDies
    <3>2. QED
      BY <2>2, <3>1, <1>3
  <2>3. QED
    BY <1>6, <2>1, <2>2 DEF ChildDies
<1>7. QED
  BY <1>4, <1>5, <1>6

LEMMA ChildKeepsQuiet ==
    ASSUME TypeOK, Quiet, ChildAnswers \/ ChildHangs \/ ChildLeaves \/ ChildDies
    PROVE  Quiet'
<1>1. requests = <<>>
  BY EmptySeq DEF TypeOK, Quiet
<1>2. ~ ChildAnswers
  BY <1>1 DEF ChildAnswers
<1>3. QED
  BY <1>1, <1>2 DEF TypeOK, Quiet, ChildHangs, ChildLeaves, ChildDies, streams

-----------------------------------------------------------------------------
(* The invariant                                                           *)

LEMMA InvInit == Init => Inv
<1> SUFFICES ASSUME Init PROVE Inv
  OBVIOUS
<1> USE StdioMCPAssumption DEF Init
<1>1. TypeOK
  <2>1. m_RespawnCount \in 0 .. kMaxRespawnRetries /\ m_Pipe \in 0 .. m_RespawnCount
        /\ answeredBy \in [Calls -> 0 .. kMaxRespawnRetries]
    BY DEF NoPipe
  <2>2. requests \in Seq(Requests) /\ lines \in Seq(Lines)
    BY EmptySeq
  <2>3. QED
    BY <2>1, <2>2 DEF TypeOK
<1>2. MutexInv
  BY DEF MutexInv, Inside
<1>3. GreetInv
  BY DEF GreetInv, NoPipe
<1>4. StreamInv
  BY DEF StreamInv
<1>5. ChildInv
  BY DEF ChildInv, Running
<1>6. GreetedChildAnswersOwn
  BY DEF GreetedChildAnswersOwn
<1>7. QED
  BY <1>1, <1>2, <1>3, <1>4, <1>5, <1>6 DEF Inv

\* WriteLine and ReadLine keep the streams' types.
LEMMA StreamTypes ==
    ASSUME TypeOK
    PROVE  /\ \A r \in Requests, ok \in BOOLEAN : WriteLine(r, ok) => requests' \in Seq(Requests)
           /\ \A l \in Lines : ReadLine(l) => lines' \in Seq(Lines)
<1>1. requests \in Seq(Requests) /\ lines \in Seq(Lines)
  BY DEF TypeOK
<1>2. ASSUME NEW r \in Requests, NEW ok \in BOOLEAN, WriteLine(r, ok)
      PROVE  requests' \in Seq(Requests)
  <2>1. requests' = requests \/ requests' = Append(requests, r)
    BY <1>2 DEF WriteLine
  <2>2. QED
    BY <1>1, <2>1
<1>3. ASSUME NEW l \in Lines, ReadLine(l) PROVE lines' \in Seq(Lines)
  BY <1>1, <1>3, HeadTailProperties DEF ReadLine
<1>4. QED
  BY <1>2, <1>3

LEMMA TerminatedType ==
    ASSUME TypeOK
    PROVE  Terminated(m_Pipe) \in [Children -> {"none", "up", "hung", "left", "dead"}]
  BY DEF TypeOK, Terminated

LEMMA TypeStep == Inv /\ [Next]_vars => TypeOK'
<1> SUFFICES ASSUME Inv, [Next]_vars PROVE TypeOK'
  OBVIOUS
<1>0. TypeOK /\ MutexInv
  BY DEF Inv
<1> USE StdioMCPAssumption DEF NoPipe
<1>1. ASSUME NEW c \in Calls, ExecuteAsync(c) \/ TestShutdown(c) \/ Reuse(c) \/ NotRunning(c)
      PROVE  TypeOK'
  BY <1>0, <1>1, ZenonT(60) DEF TypeOK, ExecuteAsync, TestShutdown, Reuse, NotRunning, NeedsChild,
       adapter, streams, history
<1>2. ASSUME NEW c \in Calls, Spawn(c) PROVE TypeOK'
  <2>1. m_RespawnCount' \in Children
    BY <1>0, <1>2 DEF TypeOK, Spawn, Children
  <2>2. child' \in [Children -> {"none", "up", "hung", "left", "dead"}]
    BY <1>0, <1>2, <2>1, TerminatedType DEF Spawn
  <2>3. QED
    BY <1>0, <1>2, <2>1, <2>2 DEF TypeOK, Spawn, Children, history
<1>3. ASSUME NEW c \in Calls, SendInitialize(c) \/ Send(c) \/ SendFails(c)
      PROVE  TypeOK'
  <2>1. requests' \in Seq(Requests)
    BY <1>0, <1>3, StreamTypes DEF SendInitialize, Send, SendFails, Requests
  <2>2. QED
    BY <1>0, <1>3, <2>1 DEF TypeOK, SendInitialize, Send, SendFails, Return, adapter, history
<1>4. ASSUME NEW c \in Calls, InitializeSucceeds(c) PROVE TypeOK'
  <2>1. lines' \in Seq(Lines)
    BY <1>0, <1>4, StreamTypes DEF InitializeSucceeds
  <2>2. m_Pipe \in Children
    <3>1. m_PipeMutex = c
      BY <1>0, <1>4 DEF InitializeSucceeds, MutexInv, Inside
    <3>2. QED
      BY <1>0, <3>1 DEF MutexInv, TypeOK, Children
  <2>3. QED
    BY <1>0, <1>4, <2>1, <2>2 DEF TypeOK, InitializeSucceeds
<1>5. ASSUME NEW c \in Calls, InitializeRefused(c) \/ Receive(c) PROVE TypeOK'
  <2>1. lines' \in Seq(Lines)
    BY <1>0, <1>5, StreamTypes DEF InitializeRefused, Receive
  <2>2. answer' \in [Calls -> Requests \cup {NoOne}]
    <3>1. CASE Receive(c)
      <4>1. PICK l \in Lines : answer' = [answer EXCEPT ![c] = l.re]
        BY <3>1 DEF Receive
      <4>2. QED
        BY <1>0, <4>1 DEF TypeOK, Lines
    <3>2. QED
      BY <1>0, <1>5, <3>1 DEF TypeOK, InitializeRefused, history
  <2>3. answeredBy' \in [Calls -> 0 .. kMaxRespawnRetries]
    <3>1. m_Pipe \in 0 .. kMaxRespawnRetries
      BY <1>0 DEF TypeOK
    <3>2. QED
      BY <1>0, <1>5, <3>1 DEF TypeOK, InitializeRefused, Receive, history
  <2>4. greeted' = greeted
    BY <1>5 DEF InitializeRefused, Receive, history
  <2>5. /\ Return(c) /\ UNCHANGED <<child, requests, replace>>
        /\ UNCHANGED <<m_Pipe, m_Initialized, m_RespawnCount, m_ShutdownRequested>>
    BY <1>5 DEF InitializeRefused, Receive, adapter
  <2>6. QED
    BY <1>0, <2>1, <2>2, <2>3, <2>4, <2>5 DEF TypeOK, Return
<1>6. ASSUME NEW c \in Calls, InitializeTimeout(c) \/ ReceiveTimeout(c) PROVE TypeOK'
  BY <1>0, <1>6, ZenonT(60) DEF TypeOK, InitializeTimeout, ReceiveTimeout, Return, adapter, streams, history
<1>7. ASSUME NEW last, DropReference(last)
      PROVE  /\ child' \in [Children -> {"none", "up", "hung", "left", "dead"}]
             /\ requests' \in Seq(Requests) /\ lines' \in Seq(Lines)
             /\ m_Pipe' \in 0 .. m_RespawnCount
  <2>1. CASE last
    BY <1>0, <1>7, <2>1, TerminatedType DEF TypeOK, DropReference
  <2>2. CASE ~ last
    BY <1>0, <1>7, <2>2 DEF TypeOK, DropReference
  <2>3. QED
    BY <2>1, <2>2
<1>8. ASSUME NEW c \in Calls, Finish(c) PROVE TypeOK'
  BY <1>0, <1>7, <1>8 DEF TypeOK, Finish, history
<1>9. CASE ReplaceReturns
  BY <1>0, <1>7, <1>9 DEF TypeOK, ReplaceReturns, history
<1>10. CASE ReplaceCommand \/ RequestShutdown
  BY <1>0, <1>10 DEF TypeOK, ReplaceCommand, RequestShutdown, adapter, streams, history
<1>11. CASE Shutdown
  <2>1. requests' \in Seq(Requests) /\ lines' \in Seq(Lines)
    BY <1>11, EmptySeq DEF Shutdown
  <2>2. m_Pipe' \in 0 .. m_RespawnCount'
    BY <1>0, <1>11 DEF TypeOK, Shutdown
  <2>3. child' \in [Children -> {"none", "up", "hung", "left", "dead"}]
    BY <1>0, <1>11, TerminatedType DEF Shutdown
  <2>4. QED
    BY <1>0, <1>11, <2>1, <2>2, <2>3 DEF TypeOK, Shutdown, history
<1>12. CASE ChildAnswers
  <2>1. lines' \in Seq(Lines) /\ requests' \in Seq(Requests)
    BY <1>0, <1>12, HeadTailProperties DEF TypeOK, ChildAnswers
  <2>2. QED
    BY <1>0, <1>12, <2>1 DEF TypeOK, ChildAnswers, adapter, history
<1>13. CASE ChildHangs \/ ChildLeaves
  BY <1>0, <1>13 DEF TypeOK, ChildHangs, ChildLeaves, adapter, streams, history
<1>14. CASE ChildDies
  <2>1. requests # <<>> => [re |-> Head(requests), kind |-> "error"] \in Lines
    BY <1>0, HeadTailProperties DEF TypeOK, Lines
  <2>2. lines' = lines \/ \E l \in Lines : lines' = Append(lines, l)
    BY <1>14, <2>1 DEF ChildDies
  <2>3. lines \in Seq(Lines)
    BY <1>0 DEF TypeOK
  <2>4. lines' \in Seq(Lines)
    BY <2>2, <2>3
  <2>5. requests' \in Seq(Requests)
    BY <1>14, EmptySeq DEF ChildDies
  <2>6. child' \in [Children -> {"none", "up", "hung", "left", "dead"}]
    BY <1>0, <1>14 DEF TypeOK, ChildDies
  <2>7. QED
    BY <1>0, <1>14, <2>4, <2>5, <2>6 DEF TypeOK, ChildDies, adapter, history
<1>15. CASE UNCHANGED vars
  BY <1>0, <1>15 DEF TypeOK, vars, adapter, streams, history
<1>16. QED
  BY <1>1, <1>2, <1>3, <1>4, <1>5, <1>6, <1>8, <1>9, <1>10, <1>11, <1>12, <1>13,
     <1>14, <1>15 DEF Next, Step, Retire

LEMMA MutexStep == Inv /\ [Next]_vars => MutexInv'
<1> SUFFICES ASSUME Inv, [Next]_vars PROVE MutexInv'
  OBVIOUS
<1>0. TypeOK /\ MutexInv
  BY DEF Inv
<1> USE StdioMCPAssumption DEF NoPipe
\* A call that does not hold the mutex moves between places outside.
<1>a. ASSUME NEW c \in Calls, NEW l \in {"called", "waiting", "returned", "done"},
             ~ Inside(c), pc' = [pc EXCEPT ![c] = l], m_PipeMutex' = m_PipeMutex,
             m_PipeMutex # NoOne => m_Pipe' = m_Pipe
      PROVE  MutexInv'
  BY <1>0, <1>a DEF TypeOK, MutexInv, Inside
\* A call takes the free mutex and has a pipe.
<1>b. ASSUME NEW c \in Calls, NEW l \in {"greet", "send"}, m_PipeMutex = NoOne,
             pc' = [pc EXCEPT ![c] = l], m_PipeMutex' = c, m_Pipe' # NoPipe
      PROVE  MutexInv'
  BY <1>0, <1>b DEF TypeOK, MutexInv, Inside
\* The holder moves on inside.
<1>c. ASSUME NEW c \in Calls, NEW l \in {"handshake", "send", "read"}, Inside(c),
             pc' = [pc EXCEPT ![c] = l], m_PipeMutex' = m_PipeMutex, m_Pipe' = m_Pipe
      PROVE  MutexInv'
  BY <1>0, <1>c DEF TypeOK, MutexInv, Inside
\* The holder returns.
<1>d. ASSUME NEW c \in Calls, Inside(c), Return(c) PROVE MutexInv'
  BY <1>0, <1>d DEF TypeOK, MutexInv, Inside, Return
\* No call moves.
<1>e. ASSUME pc' = pc, m_PipeMutex' = m_PipeMutex, m_PipeMutex # NoOne => m_Pipe' = m_Pipe
      PROVE  MutexInv'
  BY <1>0, <1>e DEF MutexInv, Inside
<1>1. ASSUME NEW c \in Calls, ExecuteAsync(c) \/ TestShutdown(c) \/ NotRunning(c)
      PROVE  MutexInv'
  BY <1>1, <1>a DEF ExecuteAsync, TestShutdown, NotRunning, NeedsChild, adapter, Inside
<1>2. ASSUME NEW c \in Calls, Reuse(c) PROVE MutexInv'
  BY <1>2, <1>b DEF Reuse, Running, adapter
<1>3. ASSUME NEW c \in Calls, Spawn(c) PROVE MutexInv'
  <2>1. m_Pipe' # NoPipe
    BY <1>0, <1>3 DEF TypeOK, Spawn
  <2>2. QED
    BY <1>3, <1>b, <2>1 DEF Spawn, NeedsChild
<1>4. ASSUME NEW c \in Calls, SendInitialize(c) \/ InitializeSucceeds(c) \/ Send(c)
      PROVE  MutexInv'
  BY <1>4, <1>c DEF SendInitialize, InitializeSucceeds, Send, adapter, Inside
<1>5. ASSUME NEW c \in Calls,
             \/ InitializeRefused(c) \/ InitializeTimeout(c) \/ SendFails(c)
             \/ Receive(c) \/ ReceiveTimeout(c)
      PROVE  MutexInv'
  BY <1>5, <1>d DEF InitializeRefused, InitializeTimeout, SendFails, Receive,
       ReceiveTimeout, Inside
<1>6. ASSUME NEW c \in Calls, Finish(c) PROVE MutexInv'
  <2>1. m_PipeMutex # NoOne => m_Pipe' = m_Pipe
    <3> SUFFICES ASSUME m_PipeMutex # NoOne PROVE m_Pipe' = m_Pipe
      OBVIOUS
    <3>1. PICK d \in Calls : d = m_PipeMutex
      BY <1>0 DEF TypeOK
    <3>2. Inside(d)
      BY <1>0, <3>1 DEF MutexInv
    <3>3. d # c /\ InFlight(d)
      BY <1>6, <3>2 DEF Inside, InFlight, Finish
    <3>4. QED
      BY <1>6, <3>3 DEF Finish, DropReference
  <2>2. QED
    BY <1>6, <1>a, <2>1 DEF Finish, Inside
<1>7. CASE ReplaceReturns
  <2>1. m_PipeMutex # NoOne => m_Pipe' = m_Pipe
    <3> SUFFICES ASSUME m_PipeMutex # NoOne PROVE m_Pipe' = m_Pipe
      OBVIOUS
    <3>1. PICK d \in Calls : d = m_PipeMutex
      BY <1>0 DEF TypeOK
    <3>2. Inside(d)
      BY <1>0, <3>1 DEF MutexInv
    <3>3. InFlight(d)
      BY <3>2 DEF Inside, InFlight
    <3>4. QED
      BY <1>7, <3>3 DEF ReplaceReturns, DropReference
  <2>2. QED
    BY <1>7, <1>e, <2>1 DEF ReplaceReturns
<1>8. CASE \/ ReplaceCommand \/ RequestShutdown \/ Shutdown \/ ChildAnswers \/ ChildHangs
           \/ ChildLeaves \/ ChildDies \/ UNCHANGED vars
  BY <1>8, <1>e DEF ReplaceCommand, RequestShutdown, Shutdown, ChildAnswers, ChildHangs, ChildLeaves,
       ChildDies, vars, adapter
<1>9. QED
  BY <1>1, <1>2, <1>3, <1>4, <1>5, <1>6, <1>7, <1>8 DEF Next, Step, Retire

\* At most one call is inside, and none while the mutex is free.
LEMMA Sole ==
    ASSUME TypeOK, MutexInv, NEW c \in Calls, NEW d \in Calls, Inside(c)
    PROVE  (Inside(d) => c = d) /\ m_PipeMutex # NoOne
  BY StdioMCPAssumption DEF MutexInv

\* Once the last reference has gone, or Shutdown holds the mutex, no call is
\* inside.
LEMMA PipeGoesUnused ==
    ASSUME TypeOK, MutexInv, m_Pipe' # m_Pipe, Shutdown \/ ReplaceReturns \/ \E c \in Calls : Finish(c)
    PROVE  /\ \A d \in Calls : ~ Inside(d)'
           /\ m_Pipe' = NoPipe
           /\ Quiet'
<1>1. CASE Shutdown
  BY <1>1, Sole, EmptySeq DEF Shutdown, Inside, Quiet, TypeOK
<1>2. CASE ReplaceReturns
  <2>1. \A d \in Calls : ~ InFlight(d)
    BY <1>2 DEF ReplaceReturns, DropReference
  <2>2. QED
    BY <1>2, <2>1, EmptySeq DEF ReplaceReturns, DropReference, InFlight, Inside, Quiet, TypeOK
<1>3. CASE \E c \in Calls : Finish(c)
  <2>1. PICK c \in Calls : Finish(c)
    BY <1>3
  <2>2. \A d \in Calls \ {c} : ~ InFlight(d)
    BY <2>1 DEF Finish, DropReference
  <2>3. QED
    BY <2>1, <2>2, EmptySeq DEF Finish, DropReference, InFlight, Inside, Quiet, TypeOK
<1>4. QED
  BY <1>1, <1>2, <1>3

LEMMA GreetStep == Inv /\ [Next]_vars => GreetInv'
<1> SUFFICES ASSUME Inv, [Next]_vars PROVE GreetInv'
  OBVIOUS
<1>0. TypeOK /\ MutexInv /\ GreetInv
  BY DEF Inv
<1> USE DEF NoPipe
\* No call starts to greet and the pipe is the same, or nobody is left inside.
<1>a. ASSUME UNCHANGED <<greeted, answeredBy, m_RespawnCount>>,
             \A d \in Calls : pc'[d] \in {"greet", "handshake"} =>
                                pc[d] \in {"greet", "handshake"} /\ m_Pipe' = m_Pipe
      PROVE  GreetInv'
  BY <1>0, <1>a DEF GreetInv
<1>1. ASSUME NEW c \in Calls,
             \/ ExecuteAsync(c) \/ TestShutdown(c) \/ Reuse(c) \/ NotRunning(c)
             \/ SendInitialize(c) \/ InitializeRefused(c) \/ InitializeTimeout(c)
             \/ Send(c) \/ SendFails(c) \/ ReceiveTimeout(c)
      PROVE  GreetInv'
  BY <1>0, <1>1, <1>a DEF TypeOK, ExecuteAsync, TestShutdown, Reuse, NotRunning, NeedsChild,
       SendInitialize, InitializeRefused, InitializeTimeout, Send, SendFails,
       ReceiveTimeout, Return, adapter, history
<1>2. ASSUME NEW c \in Calls, Spawn(c) PROVE GreetInv'
  <2>1. m_Pipe' = m_RespawnCount + 1 /\ m_RespawnCount' = m_RespawnCount + 1
        /\ greeted' = greeted /\ answeredBy' = answeredBy /\ m_RespawnCount \in Nat
    BY <1>0, <1>2 DEF Spawn, history, TypeOK
  <2>2. \A d \in Calls : answeredBy[d] \in Nat
    BY <1>0 DEF TypeOK
  <2>3. QED
    BY <1>0, <2>1, <2>2 DEF GreetInv
<1>3. ASSUME NEW c \in Calls, InitializeSucceeds(c) PROVE GreetInv'
  <2>1. Inside(c)
    BY <1>3 DEF InitializeSucceeds, Inside
  <2>2. m_Pipe \in 1 .. m_RespawnCount
    BY <1>0, <2>1, Sole DEF MutexInv, TypeOK
  <2>3. \A d \in Calls : pc'[d] \notin {"greet", "handshake"}
    BY <1>0, <1>3, <2>1, Sole DEF InitializeSucceeds, TypeOK, Inside
  <2>4. QED
    BY <1>0, <1>3, <2>2, <2>3 DEF GreetInv, InitializeSucceeds
<1>4. ASSUME NEW c \in Calls, Receive(c) PROVE GreetInv'
  <2>1. Inside(c)
    BY <1>4 DEF Receive, Inside
  <2>2. \A d \in Calls : pc'[d] \notin {"greet", "handshake"}
    BY <1>0, <1>4, <2>1, Sole DEF Receive, Return, TypeOK, Inside
  <2>3. \A d \in Calls : answeredBy'[d] <= m_RespawnCount
    BY <1>0, <1>4 DEF TypeOK, GreetInv, Receive
  <2>4. QED
    BY <1>0, <1>4, <2>2, <2>3 DEF GreetInv, Receive, adapter
<1>5. CASE Shutdown \/ ReplaceReturns \/ \E c \in Calls : Finish(c)
  <2>1. UNCHANGED <<greeted, answeredBy, m_RespawnCount>>
    BY <1>5 DEF Shutdown, ReplaceReturns, Finish, history
  <2>2. \A d \in Calls : pc'[d] \in {"greet", "handshake"} => pc[d] \in {"greet", "handshake"}
    BY <1>0, <1>5 DEF Shutdown, ReplaceReturns, Finish, TypeOK
  <2>3. \A d \in Calls : pc'[d] \in {"greet", "handshake"} => m_Pipe' = m_Pipe
    BY <1>0, <1>5, PipeGoesUnused DEF Inside
  <2>4. QED
    BY <1>a, <2>1, <2>2, <2>3
<1>6. CASE \/ ReplaceCommand \/ RequestShutdown \/ ChildAnswers \/ ChildHangs \/ ChildLeaves \/ ChildDies
           \/ UNCHANGED vars
  BY <1>6, <1>a DEF ReplaceCommand, RequestShutdown, ChildAnswers, ChildHangs, ChildLeaves,
       ChildDies, vars, adapter, history
<1>7. QED
  BY <1>1, <1>2, <1>3, <1>4, <1>5, <1>6 DEF Next, Step, Retire

LEMMA StreamStep == Inv /\ [Next]_vars => StreamInv'
<1> SUFFICES ASSUME Inv, [Next]_vars PROVE StreamInv'
  OBVIOUS
<1>0. TypeOK /\ MutexInv /\ GreetInv /\ StreamInv
  BY DEF Inv
<1>00. MutexInv' /\ TypeOK'
  BY MutexStep, TypeStep
<1>u. ASSUME UNCHANGED streams
      PROVE  (Quiet' <=> Quiet) /\ \A r \in Requests : Exchange(r)' <=> Exchange(r)
  BY <1>u DEF streams, Quiet, Exchange
\* Steps that leave the streams and the pipe alone and move nobody inside.
<1>a. ASSUME UNCHANGED <<streams, m_Pipe, greeted>>, m_Initialized' => m_Initialized,
             m_PipeMutex' = NoOne => m_PipeMutex = NoOne \/ ~ m_Initialized',
             \A d \in Calls : Inside(d)' => pc'[d] = pc[d]
      PROVE  StreamInv'
  <2>1. (Quiet' <=> Quiet) /\ \A r \in Requests : Exchange(r)' <=> Exchange(r)
    BY <1>a, <1>u
  <2>2. QED
    BY <1>0, <1>a, <2>1 DEF StreamInv, Inside, Requests
<1>1. ASSUME NEW c \in Calls,
             \/ ExecuteAsync(c) \/ TestShutdown(c) \/ NotRunning(c) \/ ReceiveTimeout(c)
      PROVE  StreamInv'
  BY <1>0, <1>1, <1>a DEF TypeOK, ExecuteAsync, TestShutdown, NotRunning, NeedsChild,
       ReceiveTimeout, Return, Inside, adapter, streams, history
<1>2. ASSUME NEW c \in Calls, Reuse(c) PROVE StreamInv'
  <2>1. (Quiet' <=> Quiet) /\ m_Pipe' = m_Pipe /\ greeted' = greeted /\ m_PipeMutex' = c
    BY <1>2, <1>u DEF Reuse, adapter, history
  <2>2. \A d \in Calls : Inside(d)' => d = c /\ pc'[d] = "send"
    BY <1>0, <1>2, Sole DEF Reuse, TypeOK, Inside
  <2>3. m_Pipe \in greeted => Quiet
    BY <1>0, <1>2 DEF Reuse, StreamInv
  <2>4. m_PipeMutex' # NoOne
    BY <1>2, StdioMCPAssumption DEF Reuse
  <2>5. QED
    BY <2>1, <2>2, <2>3, <2>4 DEF StreamInv, Inside
<1>3. ASSUME NEW c \in Calls, Spawn(c) PROVE StreamInv'
  <2>1. Quiet'
    BY <1>3, EmptySeq DEF Spawn, Quiet
  <2>2. \A d \in Calls : Inside(d)' => d = c /\ pc'[d] = "greet"
    BY <1>0, <1>3, Sole DEF Spawn, NeedsChild, TypeOK, Inside
  <2>3. QED
    BY <2>1, <2>2 DEF StreamInv, Inside
<1>4. ASSUME NEW c \in Calls, SendInitialize(c) PROVE StreamInv'
  <2>1. Exchange(Initialize)'
    <3>1. Quiet
      BY <1>0, <1>4 DEF SendInitialize, StreamInv
    <3>2. WriteLine(Initialize, TRUE) /\ lines' = lines /\ Initialize \in Requests
      BY <1>4 DEF SendInitialize, Requests
    <3>3. QED
      BY <1>0, <3>1, <3>2, WriteStarts
  <2>2. \A d \in Calls : Inside(d)' => d = c /\ pc'[d] = "handshake"
    BY <1>0, <1>4, Sole DEF SendInitialize, TypeOK, Inside
  <2>3. m_Pipe' \notin greeted'
    BY <1>0, <1>4 DEF SendInitialize, GreetInv, adapter, history
  <2>4. QED
    BY <2>1, <2>2, <2>3 DEF StreamInv, Inside
<1>5. ASSUME NEW c \in Calls, InitializeSucceeds(c) PROVE StreamInv'
  <2>1. PICK l \in Lines : ReadLine(l)
    BY <1>5 DEF InitializeSucceeds
  <2>2. Exchange(Initialize) /\ requests' = requests
    BY <1>0, <1>5 DEF InitializeSucceeds, StreamInv
  <2>3. Quiet'
    BY <1>0, <2>1, <2>2, ReadEnds
  <2>4. \A d \in Calls : Inside(d)' => d = c /\ pc'[d] = "send"
    BY <1>0, <1>5, Sole DEF InitializeSucceeds, TypeOK, Inside
  <2>5. QED
    BY <2>3, <2>4 DEF StreamInv, Inside
<1>6. ASSUME NEW c \in Calls, InitializeRefused(c) \/ InitializeTimeout(c) PROVE StreamInv'
  <2>1. \A d \in Calls : ~ Inside(d)'
    BY <1>0, <1>6, Sole DEF InitializeRefused, InitializeTimeout, Return, TypeOK, Inside
  <2>2. m_Pipe' \notin greeted'
    BY <1>0, <1>6 DEF InitializeRefused, InitializeTimeout, GreetInv, adapter, history
  <2>3. QED
    BY <2>1, <2>2 DEF StreamInv, Inside
<1>7. ASSUME NEW c \in Calls, Send(c) PROVE StreamInv'
  <2>1. m_Pipe' \in greeted' => Exchange(c)'
    <3>1. m_Pipe \in greeted => Quiet
      BY <1>0, <1>7 DEF Send, StreamInv
    <3>2. WriteLine(c, TRUE) /\ lines' = lines /\ c \in Requests
      BY <1>7 DEF Send, Requests
    <3>3. QED
      BY <1>0, <1>7, <3>1, <3>2, WriteStarts DEF Send, adapter, history
  <2>2. \A d \in Calls : Inside(d)' => d = c /\ pc'[d] = "read"
    BY <1>0, <1>7, Sole DEF Send, TypeOK, Inside
  <2>3. m_PipeMutex' # NoOne
    BY <1>0, <1>7, Sole DEF Send, Inside
  <2>4. QED
    BY <2>1, <2>2, <2>3 DEF StreamInv, Inside
<1>8. ASSUME NEW c \in Calls, SendFails(c) PROVE StreamInv'
  <2>1. \A d \in Calls : ~ Inside(d)'
    BY <1>0, <1>8, Sole DEF SendFails, Return, TypeOK, Inside
  <2>2. QED
    BY <1>8, <2>1 DEF StreamInv, Inside, SendFails
<1>9. ASSUME NEW c \in Calls, Receive(c) PROVE StreamInv'
  <2>1. PICK l \in Lines : ReadLine(l)
    BY <1>9 DEF Receive
  <2>2. m_Pipe \in greeted => Exchange(c)
    BY <1>0, <1>9 DEF Receive, StreamInv
  <2>3. m_Pipe \in greeted => Quiet'
    BY <1>0, <1>9, <2>1, <2>2, ReadEnds DEF Receive
  <2>4. \A d \in Calls : ~ Inside(d)'
    BY <1>0, <1>9, Sole DEF Receive, Return, TypeOK, Inside
  <2>5. QED
    BY <1>9, <2>3, <2>4 DEF StreamInv, Inside, Receive, adapter
<1>10. CASE Shutdown \/ ReplaceReturns \/ \E c \in Calls : Finish(c)
  <2>1. CASE m_Pipe' # m_Pipe
    <3>1. (\A d \in Calls : ~ Inside(d)') /\ Quiet'
      BY <1>0, <1>10, <2>1, PipeGoesUnused
    <3>2. QED
      BY <3>1 DEF StreamInv, Inside
  <2>2. CASE m_Pipe' = m_Pipe /\ ~ Shutdown
    <3>1. CASE UNCHANGED streams
      <4>1. UNCHANGED <<m_Initialized, m_PipeMutex, greeted>>
        BY <1>10, <2>2 DEF ReplaceReturns, Finish, history
      <4>2. \A d \in Calls : Inside(d)' => pc'[d] = pc[d]
        BY <1>0, <1>10, <2>2 DEF ReplaceReturns, Finish, TypeOK, Inside
      <4>3. QED
        BY <2>2, <3>1, <4>1, <4>2, <1>a
    <3>2. CASE ~ UNCHANGED streams
      <4>1. requests' = <<>> /\ lines' = <<>>
        BY <1>10, <2>2, <3>2 DEF ReplaceReturns, Finish, DropReference, streams
      <4>2. m_Pipe' = NoPipe
        BY <1>10, <2>2, <3>2 DEF ReplaceReturns, Finish, DropReference, streams
      <4>3. \A d \in Calls : ~ Inside(d)'
        BY <1>00, <4>2, StdioMCPAssumption DEF MutexInv
      <4>4. Quiet'
        BY <4>1, EmptySeq DEF Quiet
      <4>5. QED
        BY <4>3, <4>4 DEF StreamInv, Inside
    <3>3. QED
      BY <3>1, <3>2
  <2>3. CASE Shutdown
    <3>1. Quiet'
      BY <2>3, EmptySeq DEF Shutdown, Quiet
    <3>2. \A d \in Calls : ~ Inside(d)'
      BY <1>0, <2>3, Sole DEF Shutdown, Inside
    <3>3. QED
      BY <3>1, <3>2 DEF StreamInv, Inside
  <2>4. QED
    BY <2>1, <2>2, <2>3
<1>11. CASE ReplaceCommand \/ RequestShutdown \/ UNCHANGED vars
  BY <1>11, <1>a DEF ReplaceCommand, RequestShutdown, vars, adapter, streams, history, Inside
<1>12. CASE ChildAnswers \/ ChildHangs \/ ChildLeaves \/ ChildDies
  <2>1. (Quiet => Quiet') /\ \A r \in Requests : Exchange(r) => Exchange(r)'
    BY <1>0, <1>12, ChildKeepsQuiet, ChildKeepsExchange
  <2>2. UNCHANGED <<m_Pipe, m_Initialized, m_PipeMutex, pc, greeted>>
    BY <1>12 DEF ChildAnswers, ChildHangs, ChildLeaves, ChildDies, adapter, history
  <2>3. QED
    BY <1>0, <2>1, <2>2 DEF StreamInv, Requests
<1>13. QED
  BY <1>1, <1>2, <1>3, <1>4, <1>5, <1>6, <1>7, <1>8, <1>9, <1>10, <1>11, <1>12
     DEF Next, Step, Retire

\* A pipe's destruction leaves no child of it running.
LEMMA TerminatedStops ==
    ASSUME TypeOK, ChildInv, child' = Terminated(m_Pipe), NEW k \in Children
    PROVE  child'[k] \notin {"up", "hung"}
  BY DEF TypeOK, ChildInv, Terminated, Running, NoPipe, Children

LEMMA ChildStep == Inv /\ [Next]_vars => ChildInv'
<1> SUFFICES ASSUME Inv, [Next]_vars PROVE ChildInv'
  OBVIOUS
<1>0. TypeOK /\ MutexInv /\ ChildInv
  BY DEF Inv
\* Nobody's reference goes and the child and the pipe stay.
<1>a. ASSUME UNCHANGED <<m_Pipe, child>>, replace' = "gone" => replace = "gone",
             \A d \in Calls : InFlight(d) => InFlight(d)'
      PROVE  ChildInv'
  BY <1>0, <1>a DEF ChildInv, Running
<1>1. ASSUME NEW c \in Calls,
             \/ ExecuteAsync(c) \/ TestShutdown(c) \/ Reuse(c) \/ NotRunning(c)
             \/ SendInitialize(c) \/ InitializeSucceeds(c) \/ InitializeRefused(c)
             \/ InitializeTimeout(c) \/ Send(c) \/ SendFails(c) \/ Receive(c)
             \/ ReceiveTimeout(c)
      PROVE  ChildInv'
  <2>1. UNCHANGED <<m_Pipe, child, replace>>
    BY <1>1 DEF ExecuteAsync, TestShutdown, Reuse, NotRunning, SendInitialize,
         InitializeSucceeds, InitializeRefused, InitializeTimeout, Send, SendFails,
         Receive, ReceiveTimeout, adapter
  <2>2. \E l \in {"called", "waiting", "handshake", "send", "read", "returned"} :
            pc' = [pc EXCEPT ![c] = l]
    BY <1>1 DEF ExecuteAsync, TestShutdown, Reuse, NotRunning, SendInitialize,
         InitializeSucceeds, InitializeRefused, InitializeTimeout, Send, SendFails,
         Receive, ReceiveTimeout, Return
  <2>3. QED
    BY <1>0, <1>a, <2>1, <2>2 DEF TypeOK, InFlight
<1>2. ASSUME NEW c \in Calls, Spawn(c) PROVE ChildInv'
  <2>1. PICK T : T = Terminated(m_Pipe)
    OBVIOUS
  <2>2. \A k \in Children : T[k] \notin {"up", "hung"}
    BY <1>0, <2>1 DEF TypeOK, ChildInv, Terminated, Running, NoPipe, Children
  <2>3. T \in [Children -> {"none", "up", "hung", "left", "dead"}]
    BY <1>0, <2>1, TerminatedType
  <2>4. \A k \in Children : Running(k)' => k = m_Pipe'
    BY <1>2, <2>1, <2>2, <2>3 DEF Spawn, Running
  <2>5. InFlight(c)'
    BY <1>0, <1>2 DEF Spawn, InFlight, TypeOK
  <2>6. QED
    BY <2>4, <2>5 DEF ChildInv
<1>3. ASSUME NEW last, DropReference(last)
      PROVE  /\ \A k \in Children : Running(k)' => k = m_Pipe'
             /\ last => m_Pipe' = NoPipe
  <2>1. CASE last
    BY <1>0, <1>3, <2>1, TerminatedStops DEF DropReference, Running
  <2>2. CASE ~ last
    BY <1>0, <1>3, <2>2 DEF DropReference, Running, ChildInv
  <2>3. QED
    BY <2>1, <2>2
<1>4. ASSUME NEW c \in Calls, Finish(c) PROVE ChildInv'
  <2>1. \A k \in Children : Running(k)' => k = m_Pipe'
    BY <1>3, <1>4 DEF Finish
  <2>2. ASSUME replace' = "gone", \A d \in Calls : ~ InFlight(d)' PROVE m_Pipe' = NoPipe
    <3>1. replace = "gone" /\ \A d \in Calls \ {c} : ~ InFlight(d)
      BY <1>0, <1>4, <2>2 DEF Finish, InFlight, TypeOK
    <3>2. QED
      BY <1>4, <3>1 DEF Finish, DropReference
  <2>3. QED
    BY <2>1, <2>2 DEF ChildInv
<1>5. CASE ReplaceReturns
  <2>1. \A k \in Children : Running(k)' => k = m_Pipe'
    BY <1>3, <1>5 DEF ReplaceReturns
  <2>2. (\A d \in Calls : ~ InFlight(d)') => m_Pipe' = NoPipe
    BY <1>5 DEF ReplaceReturns, DropReference, InFlight
  <2>3. QED
    BY <2>1, <2>2 DEF ChildInv
<1>6. CASE Shutdown
  <2>1. \A k \in Children : ~ Running(k)'
    BY <1>0, <1>6, TerminatedStops DEF Shutdown, Running
  <2>2. QED
    BY <1>6, <2>1 DEF ChildInv, Shutdown
<1>7. CASE ReplaceCommand \/ RequestShutdown \/ ChildAnswers \/ UNCHANGED vars
  BY <1>7, <1>a DEF ReplaceCommand, RequestShutdown, ChildAnswers, vars, adapter, InFlight
<1>8. CASE ChildHangs \/ ChildLeaves \/ ChildDies
  <2>1. UNCHANGED <<m_Pipe, replace, pc>>
    BY <1>8 DEF ChildHangs, ChildLeaves, ChildDies, adapter
  <2>2. \A k \in Children : Running(k)' => k = m_Pipe'
    BY <1>0, <1>8, <2>1 DEF ChildHangs, ChildLeaves, ChildDies, Running, ChildInv, TypeOK
  <2>3. QED
    BY <1>0, <2>1, <2>2 DEF ChildInv, InFlight
<1>9. QED
  BY <1>1, <1>2, <1>4, <1>5, <1>6, <1>7, <1>8 DEF Next, Step, Retire

LEMMA AnswerStep == Inv /\ [Next]_vars => GreetedChildAnswersOwn'
<1> SUFFICES ASSUME Inv, [Next]_vars PROVE GreetedChildAnswersOwn'
  OBVIOUS
<1>0. TypeOK /\ MutexInv /\ GreetInv /\ StreamInv /\ GreetedChildAnswersOwn
  BY DEF Inv
<1>a. ASSUME UNCHANGED history PROVE GreetedChildAnswersOwn'
  BY <1>0, <1>a DEF GreetedChildAnswersOwn, history
\* No call has an answer from the child that is now greeted.
<1>1. ASSUME NEW c \in Calls, InitializeSucceeds(c) PROVE GreetedChildAnswersOwn'
  <2>1. \A d \in Calls : answeredBy[d] # m_Pipe
    BY <1>0, <1>1 DEF InitializeSucceeds, GreetInv
  <2>2. QED
    BY <1>0, <1>1, <2>1 DEF InitializeSucceeds, GreetedChildAnswersOwn
<1>2. ASSUME NEW c \in Calls, Receive(c) PROVE GreetedChildAnswersOwn'
  <2>1. PICK l \in Lines : ReadLine(l) /\ answer' = [answer EXCEPT ![c] = l.re]
    BY <1>2 DEF Receive
  <2>2. m_Pipe \in greeted => l.re = c
    <3>1. m_Pipe \in greeted => Exchange(c)
      BY <1>0, <1>2 DEF Receive, StreamInv
    <3>2. QED
      BY <1>0, <1>2, <2>1, <3>1, ReadEnds DEF Receive
  <2>3. QED
    BY <1>0, <1>2, <2>1, <2>2 DEF Receive, GreetedChildAnswersOwn, TypeOK
<1>3. QED
  BY <1>1, <1>2, <1>a DEF Next, Step, Retire, ExecuteAsync, TestShutdown, Reuse, NotRunning,
     Spawn, SendInitialize, InitializeRefused, InitializeTimeout, Send, SendFails,
     ReceiveTimeout, Finish, ReplaceCommand, RequestShutdown, Shutdown, ReplaceReturns,
     ChildAnswers, ChildHangs, ChildLeaves, ChildDies, vars

\* The invariant holds in every state of every behaviour.
THEOREM Invariance == Spec => []Inv
<1>1. Inv /\ [Next]_vars => Inv'
  BY TypeStep, MutexStep, GreetStep, StreamStep, ChildStep, AnswerStep DEF Inv
<1>2. QED
  BY <1>1, InvInit, PTL DEF Spec

-----------------------------------------------------------------------------
\* The members, the streams and the threads' positions keep their types; with
\* them, no more than kMaxRespawnRetries children are ever spawned.
THEOREM TypeCorrect == Spec => []TypeOK
<1>1. Inv => TypeOK
  BY DEF Inv
<1>2. QED
  BY <1>1, Invariance, PTL

\* SendRequest never takes a stale line of a greeted child for the reply.
THEOREM GreetedChildIsInStep == Spec => []GreetedChildAnswersOwn
<1>1. Inv => GreetedChildAnswersOwn
  BY DEF Inv
<1>2. QED
  BY <1>1, Invariance, PTL

\* Respawns, Shutdown and the destructor leave no child process behind.
THEOREM NoChildLeftBehind == Spec => []NoOrphanChild
<1>1. Inv => NoOrphanChild
  BY DEF Inv, ChildInv, NoOrphanChild, Running
<1>2. QED
  BY <1>1, Invariance, PTL
=============================================================================
