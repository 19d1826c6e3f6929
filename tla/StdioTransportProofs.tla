------------------------ MODULE StdioTransportProofs ------------------------
(***************************************************************************)
(* The stdio transport's promises.  First its calls, for any lines, tools,   *)
(* ids and number of pool threads: every call has one answer at most, the    *)
(* in-flight map is exact, a cancellation reaches the tool it names, and Run *)
(* returns with nothing left running.                                        *)
(*                                                                         *)
(* None of them is inductive alone.  They rest on where a call can be: in    *)
(* the pool's queue, on one worker, done, or on the reader, and nowhere      *)
(* twice (Placed, Calls); on a message having no answer until it leaves the  *)
(* last of these places (Answers); and on what m_Initialized and the map     *)
(* say about the messages in each (Initialized, Executing, Cancelled).       *)
(***************************************************************************)
EXTENDS StdioTransport, ResourceWatcher, TLAPS

\* The calls no worker has taken yet.
Queued == {queue[i] : i \in 1 .. Len(queue)}

\* An accepted call is in one place: queued once, on one worker, or done.
Placed ==
    /\ \A i, j \in 1 .. Len(queue) : queue[i] = queue[j] => i = j
    /\ \A v, w \in Worker : running[v] = running[w] /\ running[v] # NoMsg => v = w
    /\ \A w \in Worker : running[w] \notin Queued \cup done
    /\ Queued \cap done = {}

\* What Run has read and not yet read; what it is in the middle of; and that
\* it holds a future of every call the pool has.
Calls ==
    /\ unread \cap received = {}
    /\ Queued \cup done \subseteq inFlightCalls
    /\ \A w \in Worker : running[w] # NoMsg => running[w] \in inFlightCalls
    /\ \A m \in inFlightCalls : m \in received /\ m.method = "tools/call" /\ m.hasId
    /\ \A w \in Worker : stage[w] = "idle" <=> running[w] = NoMsg
    /\ stage[Main] # "idle" => mpc = "call"
    /\ mpc = "call" => mmsg \in received /\ mmsg.method = "tools/call" /\ ~mmsg.hasId
    /\ mpc = "batch" => mmsg \in received /\ mmsg.method = "tools/call_batch"
    /\ mpc = "cancel" => mmsg.tool \in Tool /\ mmsg.target \in Key
    /\ mpc = "returned" => inFlightCalls \subseteq done

\* A message is answered as it leaves the transport, and not before.
Answers ==
    /\ \A m \in Msg : replies[m] = <<>> \/ \E kind \in ReplyKind : replies[m] = <<kind>>
    /\ \A m \in Msg : replies[m] # <<>> =>
          m \in received /\ (m.hasId \/ m.method \in {"garbage", "invalid"})
    /\ \A m \in Queued : replies[m] = <<>>
    /\ \A w \in Worker : running[w] # NoMsg => replies[running[w]] = <<>>
    /\ mpc = "batch" => replies[mmsg] = <<>>
    /\ \A m \in done : replies[m] # <<>> \/ m \in swallowed

\* m_Initialized covers every call read after initialize.
Initialized ==
    /\ \A m \in received : m.method = "initialize" => m_Initialized
    /\ \A m \in received : m.method = "tools/call" /\ m \notin early => m_Initialized
    /\ \A th \in Thread : stage[th] = "reply" /\ reply[th] = "notInitialized" =>
          MsgOf(th) \in early
    /\ InitializeCoversLaterCalls

\* A thread at chain depth 0 executes the tool its message names.
Executing ==
    /\ \A th \in Thread : stage[th] = "run" =>
          hop[th].tool \in Tool /\ (hop[th].depth = 0 => hop[th].tool = MsgOf(th).tool)
    /\ InFlightExact

\* A cancellation is delivered, or the reader is about to deliver it.
Cancelled ==
    \A o \in owed : o.depth = 0 /\ KeyUnique(o.key) =>
        \/ <<o.tool, o.key>> \in told
        \/ mpc = "cancel" /\ o.tool = mmsg.tool /\ o.key = mmsg.target

TransportIInv ==
    TypeOK /\ Placed /\ Calls /\ Answers /\ Initialized /\ Executing /\ Cancelled

-----------------------------------------------------------------------------
(* The pool's queue, as the set of calls in it                             *)

LEMMA QueueAppend ==
    ASSUME NEW q \in Seq(Msg), NEW m \in Msg
    PROVE  /\ Append(q, m) \in Seq(Msg)
           /\ Len(Append(q, m)) = Len(q) + 1
           /\ \A i \in 1 .. Len(q) : Append(q, m)[i] = q[i]
           /\ Append(q, m)[Len(q) + 1] = m
  OBVIOUS

LEMMA QueueTail ==
    ASSUME NEW q \in Seq(Msg), q # <<>>
    PROVE  /\ Tail(q) \in Seq(Msg) /\ Head(q) \in Msg
           /\ Len(q) \in Nat \ {0} /\ Len(Tail(q)) = Len(q) - 1
           /\ Head(q) = q[1]
           /\ \A i \in 1 .. Len(q) - 1 : Tail(q)[i] = q[i + 1]
  OBVIOUS

\* Enqueue in the pool adds a call that is nowhere yet.
LEMMA Submitted ==
    ASSUME TypeOK, Placed, NEW m \in Msg, m \notin Queued, m \notin done,
           \A w \in Worker : running[w] # m,
           queue' = Append(queue, m), UNCHANGED <<running, done>>
    PROVE  Placed' /\ Queued' = Queued \cup {m} /\ queue' \in Seq(Msg)
<1>1. queue \in Seq(Msg) /\ Len(queue) \in Nat
  BY DEF TypeOK
<1>2. /\ queue' \in Seq(Msg) /\ Len(queue') = Len(queue) + 1
      /\ \A i \in 1 .. Len(queue) : queue'[i] = queue[i]
      /\ queue'[Len(queue) + 1] = m
  BY <1>1, QueueAppend
<1>3. Queued' = Queued \cup {m}
  <2>1. \A i \in 1 .. Len(queue') : i \in 1 .. Len(queue) \/ i = Len(queue) + 1
    BY <1>1, <1>2
  <2>2. Queued' \subseteq Queued \cup {m}
    BY <1>1, <1>2, <2>1 DEF Queued
  <2>3. \A i \in 1 .. Len(queue) : i \in 1 .. Len(queue')
    BY <1>1, <1>2
  <2>4. Len(queue) + 1 \in 1 .. Len(queue')
    BY <1>1, <1>2
  <2> QED
    BY <1>2, <2>2, <2>3, <2>4 DEF Queued
<1>4. \A i, j \in 1 .. Len(queue') : queue'[i] = queue'[j] => i = j
  <2> SUFFICES ASSUME NEW i \in 1 .. Len(queue'), NEW j \in 1 .. Len(queue'),
                      queue'[i] = queue'[j]
               PROVE  i = j
    OBVIOUS
  <2>1. \A k \in 1 .. Len(queue) : queue[k] # m
    BY DEF Queued
  <2>2. /\ i \in 1 .. Len(queue) \/ i = Len(queue) + 1
        /\ j \in 1 .. Len(queue) \/ j = Len(queue) + 1
    BY <1>1, <1>2
  <2> QED
    BY <1>2, <2>1, <2>2 DEF Placed
<1> QED
  BY <1>2, <1>3, <1>4 DEF Placed

\* A worker takes the oldest call, which leaves the queue for good.
LEMMA Taken ==
    ASSUME TypeOK, Placed, queue # <<>>, queue' = Tail(queue)
    PROVE  /\ queue' \in Seq(Msg) /\ Head(queue) \in Msg
           /\ Queued = Queued' \cup {Head(queue)} /\ Head(queue) \notin Queued'
           /\ \A i, j \in 1 .. Len(queue') : queue'[i] = queue'[j] => i = j
<1>1. queue \in Seq(Msg)
  BY DEF TypeOK
<1>2. /\ queue' \in Seq(Msg) /\ Head(queue) \in Msg
      /\ Len(queue) \in Nat \ {0} /\ Len(queue') = Len(queue) - 1
      /\ Head(queue) = queue[1]
      /\ \A i \in 1 .. Len(queue) - 1 : queue'[i] = queue[i + 1]
  BY <1>1, QueueTail
<1>3. \A i \in 1 .. Len(queue') : i + 1 \in 1 .. Len(queue) /\ i + 1 # 1
  BY <1>2
<1>4. \A i \in 1 .. Len(queue) : i = 1 \/ (i - 1 \in 1 .. Len(queue') /\ queue'[i - 1] = queue[i])
  BY <1>2
<1>5. Queued' \subseteq Queued /\ Head(queue) \in Queued
  BY <1>2, <1>3 DEF Queued
<1>6. ASSUME NEW m \in Queued PROVE m \in Queued' \cup {Head(queue)}
  <2>1. PICK i \in 1 .. Len(queue) : m = queue[i]
    BY DEF Queued
  <2>2. CASE i = 1
    BY <1>2, <2>1, <2>2
  <2>3. CASE i # 1
    BY <1>4, <2>1, <2>3 DEF Queued
  <2> QED
    BY <2>2, <2>3
<1>7. Head(queue) \notin Queued'
  BY <1>2, <1>3 DEF Queued, Placed
<1>8. \A i, j \in 1 .. Len(queue') : queue'[i] = queue'[j] => i = j
  BY <1>2, <1>3 DEF Placed
<1> QED
  BY <1>2, <1>5, <1>6, <1>7, <1>8

-----------------------------------------------------------------------------
(* Threads and their messages                                              *)

\* A thread that is in HandleToolsCall works on a call that Run has read: the
\* reader on one without an id, a worker on one with.
LEMMA MessageOf ==
    ASSUME TypeOK, Calls, NEW th \in Thread, stage[th] # "idle"
    PROVE  /\ MsgOf(th) \in Msg /\ MsgOf(th) \in received
           /\ MsgOf(th).method = "tools/call"
           /\ MsgOf(th).key \in Key /\ MsgOf(th).tool \in Tool \cup {NoTool}
           /\ th = Main => MsgOf(th) = mmsg /\ ~MsgOf(th).hasId
           /\ th # Main => /\ th \in Worker /\ MsgOf(th) = running[th]
                           /\ running[th] # NoMsg /\ MsgOf(th).hasId
<1>1. /\ MsgOf(th) \in Msg /\ MsgOf(th) \in received /\ MsgOf(th).method = "tools/call"
      /\ th = Main => MsgOf(th) = mmsg /\ ~MsgOf(th).hasId
      /\ th # Main => /\ th \in Worker /\ MsgOf(th) = running[th]
                      /\ running[th] # NoMsg /\ MsgOf(th).hasId
  BY DEF MsgOf, Thread, Calls, TypeOK
<1>2. MsgOf(th) \in MessageType
  BY <1>1, TransportAssumption
<1> QED
  BY <1>1, <1>2 DEF MessageType

\* No message is on two threads.
LEMMA OneThread ==
    ASSUME TypeOK, Placed, Calls, NEW th \in Thread, NEW u \in Thread,
           stage[th] # "idle", stage[u] # "idle", MsgOf(th) = MsgOf(u)
    PROVE  th = u
  BY MessageOf DEF Placed

\* What Run has read only grows, so an id once shared stays shared.
LEMMA KeyUniqueBefore ==
    ASSUME NEW k, received \subseteq received', KeyUnique(k)'
    PROVE  KeyUnique(k)
  BY DEF KeyUnique

LEMMA MsgTypes ==
    ASSUME NEW m \in Msg
    PROVE  /\ m \in MessageType /\ m # NoMsg /\ m.key \in Key
           /\ m.tool \in Tool \cup {NoTool} /\ m.target \in Key \cup {NoKey}
  BY TransportAssumption DEF MessageType

\* Executing is kept when the same threads execute the same tools.
LEMMA ExecutingKept ==
    ASSUME Executing, received \subseteq received', UNCHANGED m_InFlightRequests,
           \A th \in Thread : stage'[th] = "run" <=> stage[th] = "run",
           \A th \in Thread : stage[th] = "run" =>
               MsgOf(th)' = MsgOf(th) /\ hop'[th] = hop[th]
    PROVE  Executing'
<1>1. ASSUME NEW th \in Thread, stage'[th] = "run"
      PROVE  /\ hop'[th].tool \in Tool
             /\ hop'[th].depth = 0 => hop'[th].tool = MsgOf(th)'.tool
  BY <1>1 DEF Executing
<1>2. ASSUME NEW th \in Thread, stage'[th] = "run", KeyUnique(MsgOf(th).key)'
      PROVE  m_InFlightRequests'[MsgOf(th)'.key] = MsgOf(th)'.tool
  <2>1. stage[th] = "run" /\ MsgOf(th)' = MsgOf(th)
    BY <1>2
  <2>2. KeyUnique(MsgOf(th).key)
    BY <1>2, <2>1, KeyUniqueBefore
  <2> QED
    BY <2>1, <2>2 DEF Executing, InFlightExact
<1>3. ASSUME NEW k \in Key, m_InFlightRequests'[k] # NoTool
      PROVE  \E th \in Thread : stage'[th] = "run" /\ MsgOf(th)'.key = k
  BY <1>3 DEF Executing, InFlightExact
<1> QED
  BY <1>1, <1>2, <1>3 DEF Executing, InFlightExact

\* Cancelled is kept when the reader neither starts nor forgets a delivery.
LEMMA CancelledKept ==
    ASSUME Cancelled, received \subseteq received', UNCHANGED owed, told \subseteq told',
           mpc = "cancel" => UNCHANGED <<mpc, mmsg>>
    PROVE  Cancelled'
  BY KeyUniqueBefore DEF Cancelled

\* What SendMessage does with a response that can be encoded.
LEMMA Written ==
    ASSUME NEW m, NEW kind \in ReplyKind, SendMessage(m, kind)
    PROVE  replies' = [replies EXCEPT ![m] = Append(@, kind)]
  BY DEF SendMessage, ReplyKind

\* Reading a line, whatever is done with it, leaves what the threads execute,
\* what they answer and what m_Initialized covers in order.
LEMMA Reading ==
    ASSUME TransportIInv, NEW m \in Msg, Getline(m),
           UNCHANGED <<running, done, hop, reply, m_InFlightRequests, swallowed>>,
           \A w \in Worker : stage'[w] = stage[w],
           stage'[Main] \in {"idle", "gate"},
           m_Initialized' = (m_Initialized \/ m.method = "initialize"),
           Queued' \subseteq Queued \cup {m},
           mpc' = "batch" => mmsg' = m,
           \/ UNCHANGED replies
           \/ /\ m.hasId \/ m.method \in {"garbage", "invalid"}
              /\ m.method # "tools/call" /\ m \notin Queued' /\ mpc' # "batch"
              /\ \E kind \in ReplyKind : SendMessage(m, kind)
    PROVE  Executing' /\ Initialized' /\ Answers'
<1> USE DEF TransportIInv
<1>1. /\ mpc = "read" /\ m \in unread /\ m \notin received
      /\ received' = received \cup {m}
      /\ early' = IF m.method = "tools/call" /\ \A i \in received : i.method # "initialize"
                  THEN early \cup {m} ELSE early
  BY DEF Getline, Calls
<1>2. m \notin Queued /\ m \notin done /\ \A w \in Worker : running[w] # m
  BY <1>1, MsgTypes DEF Calls
<1>3. stage[Main] = "idle"
  BY <1>1 DEF Calls
<1>4. \A th \in Thread : stage'[th] \in {"run", "reply"} =>
         stage'[th] = stage[th] /\ MsgOf(th)' = MsgOf(th)
  BY <1>3 DEF Thread, MsgOf
<1>5. \A th \in Thread : stage[th] = "run" => stage'[th] = "run"
  BY <1>3 DEF Thread
<1>6. Executing'
  BY <1>1, <1>4, <1>5, ExecutingKept
<1>7. replies[m] = <<>>
  BY <1>1 DEF Answers
<1>8. /\ \A o \in Msg : o # m => replies'[o] = replies[o]
      /\ \/ replies'[m] = <<>>
         \/ /\ m.hasId \/ m.method \in {"garbage", "invalid"}
            /\ m.method # "tools/call" /\ m \notin Queued' /\ mpc' # "batch"
            /\ \E kind \in ReplyKind : replies'[m] = <<kind>>
  BY <1>7, Written DEF TypeOK
<1>9. Initialized'
  <2>1. \A o \in received' : o.method = "initialize" => m_Initialized'
    BY <1>1 DEF Initialized
  <2>2. \A o \in received' : o.method = "tools/call" /\ o \notin early' => m_Initialized'
    BY <1>1 DEF Initialized
  <2>3. \A th \in Thread : stage'[th] = "reply" /\ reply'[th] = "notInitialized" =>
           MsgOf(th)' \in early'
    BY <1>1, <1>4 DEF Initialized
  <2>4. InitializeCoversLaterCalls'
    BY <1>1, <1>8 DEF Initialized, InitializeCoversLaterCalls
  <2> QED
    BY <2>1, <2>2, <2>3, <2>4 DEF Initialized
<1>10. Answers'
  <2>1. \A o \in Msg : replies'[o] = <<>> \/ \E kind \in ReplyKind : replies'[o] = <<kind>>
    BY <1>8 DEF Answers
  <2>2. \A o \in Msg : replies'[o] # <<>> =>
           o \in received' /\ (o.hasId \/ o.method \in {"garbage", "invalid"})
    BY <1>1, <1>8 DEF Answers
  <2>3. \A o \in Queued' : replies'[o] = <<>>
    BY <1>8 DEF Answers, Calls, TypeOK
  <2>4. \A w \in Worker : running'[w] # NoMsg => replies'[running'[w]] = <<>>
    BY <1>2, <1>8 DEF Answers, TypeOK
  <2>5. mpc' = "batch" => replies'[mmsg'] = <<>>
    BY <1>8
  <2>6. \A o \in done' : replies'[o] # <<>> \/ o \in swallowed'
    BY <1>2, <1>8 DEF Answers, TypeOK
  <2> QED
    BY <2>1, <2>2, <2>3, <2>4, <2>5, <2>6 DEF Answers
<1> QED
  BY <1>6, <1>9, <1>10

-----------------------------------------------------------------------------
(* Run: lines                                                              *)

\* The types of what every line changes.
LEMMA ReadTypes ==
    ASSUME TypeOK, NEW m \in Msg, Getline(m)
    PROVE  /\ unread' \subseteq Msg /\ received' \subseteq Msg /\ early' \subseteq Msg
           /\ m_Running' \in BOOLEAN
           /\ received' = received \cup {m} /\ unread' = unread \ {m} /\ mpc = "read"
  BY DEF TypeOK, Getline

LEMMA SendTypes ==
    ASSUME replies \in [Msg -> Seq(ReplyKind)], NEW m \in Msg, NEW kind \in ReplyKind,
           SendMessage(m, kind)
    PROVE  replies' \in [Msg -> Seq(ReplyKind)]
<1>1. Append(replies[m], kind) \in Seq(ReplyKind)
  OBVIOUS
<1> QED
  BY <1>1, Written

\* A line that the reader answers, or drops, on the spot.
LEMMA AnsweredLineKeeps ==
    ASSUME TransportIInv, NEW m \in Msg, Getline(m),
           UNCHANGED <<poolVars, callVars, mmsg, inFlightCalls, told, owed, swallowed>>,
           m_Initialized' = (m_Initialized \/ m.method = "initialize"),
           mpc' \in {"top", "threw"},
           \/ UNCHANGED replies
           \/ /\ m.hasId \/ m.method \in {"garbage", "invalid"}
              /\ m.method # "tools/call"
              /\ \E kind \in ReplyKind : SendMessage(m, kind)
    PROVE  TransportIInv'
<1> USE DEF TransportIInv, poolVars, callVars
<1>1. /\ unread' \subseteq Msg /\ received' \subseteq Msg /\ early' \subseteq Msg
      /\ m_Running' \in BOOLEAN
      /\ received' = received \cup {m} /\ unread' = unread \ {m} /\ mpc = "read"
  BY ReadTypes
<1>2. m \notin received
  BY DEF Getline, Calls
<1>3. TypeOK'
  <2>1. replies' \in [Msg -> Seq(ReplyKind)]
    BY SendTypes DEF TypeOK
  <2> QED
    BY <1>1, <2>1 DEF TypeOK
<1>4. Queued' = Queued
  BY DEF Queued
<1>5. Placed'
  BY <1>4 DEF Placed
<1>6. Calls'
  BY <1>1, <1>4 DEF Calls
<1>7. stage[Main] = "idle"
  BY <1>1 DEF Calls
<1>8. m \notin Queued
  BY <1>2 DEF Calls
<1>9. Executing' /\ Initialized' /\ Answers'
  BY <1>4, <1>7, <1>8, Reading
<1>10. Cancelled'
  BY <1>1, CancelledKept
<1> QED
  BY <1>3, <1>5, <1>6, <1>9, <1>10

\* What the reader answers by itself is a response.
LEMMA ResponseKinds ==
    ASSUME NEW m \in Msg PROVE Dispatch(m) \in ReplyKind
  BY DEF Dispatch, ReplyKind, HandleInitialize, HandleToolsList, HandlePromptsList,
         HandleResourcesList, HandlePromptsGet, HandleResourcesRead

LEMMA AnsweredLines ==
    ASSUME TransportIInv, NEW m \in Msg,
           RejectLine(m) \/ ThrowOnReader(m) \/ DispatchOnReader(m)
    PROVE  TransportIInv'
<1>1. CASE RejectLine(m)
  <2>1. \E kind \in ReplyKind : SendMessage(m, kind)
    BY <1>1 DEF RejectLine, ReplyKind
  <2> QED
    BY <1>1, <2>1, AnsweredLineKeeps DEF RejectLine, TransportIInv, TypeOK
<1>2. CASE ThrowOnReader(m)
  BY <1>2, AnsweredLineKeeps DEF ThrowOnReader, TransportIInv, TypeOK
<1>3. CASE DispatchOnReader(m)
  <2>1. UNCHANGED replies \/ (m.hasId /\ \E kind \in ReplyKind : SendMessage(m, kind))
    BY <1>3, ResponseKinds DEF DispatchOnReader
  <2>2. m.method # "tools/call"
    BY <1>3 DEF DispatchOnReader
  <2> QED
    BY <1>3, <2>1, <2>2, AnsweredLineKeeps DEF DispatchOnReader
<1> QED
  BY <1>1, <1>2, <1>3

LEMMA BatchLine ==
    ASSUME TransportIInv, NEW m \in Msg, HandleToolsCallBatch(m)
    PROVE  TransportIInv'
<1> USE DEF poolVars, callVars
<1>1. /\ Getline(m) /\ m.method = "tools/call_batch"
      /\ UNCHANGED <<poolVars, callVars, m_Initialized, inFlightCalls, told, owed, swallowed>>
  BY DEF HandleToolsCallBatch
<1>2. m_Initialized' = (m_Initialized \/ m.method = "initialize")
  BY <1>1 DEF TransportIInv, TypeOK
<1>3. CASE mpc' = "top"
  <2>1. UNCHANGED mmsg
    BY <1>3 DEF HandleToolsCallBatch
  <2>2. UNCHANGED replies \/ (m.hasId /\ \E kind \in ReplyKind : SendMessage(m, kind))
    BY <1>3 DEF HandleToolsCallBatch, ReplyKind
  <2> QED
    BY <1>1, <1>2, <1>3, <2>1, <2>2, AnsweredLineKeeps
<1>4. CASE mpc' = "batch" /\ mmsg' = m /\ UNCHANGED replies
  <2> USE DEF TransportIInv
  <2>1. /\ unread' \subseteq Msg /\ received' \subseteq Msg /\ early' \subseteq Msg
        /\ m_Running' \in BOOLEAN
        /\ received' = received \cup {m} /\ unread' = unread \ {m} /\ mpc = "read"
    BY <1>1, ReadTypes
  <2>2. TypeOK'
    BY <1>1, <1>4, <2>1, MsgTypes DEF TypeOK
  <2>3. Queued' = Queued
    BY <1>1 DEF Queued
  <2>4. Placed' /\ Calls'
    BY <1>1, <1>4, <2>1, <2>3 DEF Placed, Calls
  <2>5. Executing' /\ Initialized' /\ Answers'
    BY <1>1, <1>2, <1>4, <2>1, <2>3, Reading DEF Calls
  <2>6. Cancelled'
    BY <1>1, <2>1, CancelledKept
  <2> QED
    BY <2>2, <2>4, <2>5, <2>6
<1> QED
  BY <1>3, <1>4 DEF HandleToolsCallBatch

\* The call is queued, and its future held.
LEMMA SubmitLine ==
    ASSUME TransportIInv, NEW m \in Msg, SubmitCall(m)
    PROVE  TransportIInv'
<1> USE DEF TransportIInv, callVars
<1>1. /\ Getline(m) /\ m.method = "tools/call" /\ m.hasId /\ mpc' = "top"
      /\ queue' = Append(queue, m) /\ inFlightCalls' = inFlightCalls \cup {m}
      /\ UNCHANGED <<running, done, callVars, m_Initialized, mmsg, replies, told, owed, swallowed>>
  BY DEF SubmitCall, Pool!Submit
<1>2. /\ unread' \subseteq Msg /\ received' \subseteq Msg /\ early' \subseteq Msg
      /\ m_Running' \in BOOLEAN
      /\ received' = received \cup {m} /\ unread' = unread \ {m} /\ mpc = "read"
  BY <1>1, ReadTypes
<1>3. m \notin received
  BY <1>1 DEF Getline, Calls
<1>4. m \notin Queued /\ m \notin done /\ \A w \in Worker : running[w] # m
  BY <1>3, MsgTypes DEF Calls
<1>5. Placed' /\ Queued' = Queued \cup {m} /\ queue' \in Seq(Msg)
  BY <1>1, <1>4, Submitted
<1>6. TypeOK'
  BY <1>1, <1>2, <1>5 DEF TypeOK
<1>7. Calls'
  BY <1>1, <1>2, <1>5 DEF Calls
<1>8. m_Initialized' = (m_Initialized \/ m.method = "initialize")
  BY <1>1 DEF TypeOK
<1>9. stage[Main] = "idle"
  BY <1>2 DEF Calls
<1>10. Executing' /\ Initialized' /\ Answers'
  BY <1>1, <1>5, <1>8, <1>9, Reading
<1>11. Cancelled'
  BY <1>1, <1>2, CancelledKept
<1> QED
  BY <1>5, <1>6, <1>7, <1>10, <1>11

\* A call without an id goes to the reader itself.
LEMMA ReaderCallLine ==
    ASSUME TransportIInv, NEW m \in Msg, CallOnReader(m)
    PROVE  TransportIInv'
<1> USE DEF TransportIInv, poolVars
<1>1. /\ Getline(m) /\ m.method = "tools/call" /\ ~m.hasId /\ mpc' = "call" /\ mmsg' = m
      /\ stage' = [stage EXCEPT ![Main] = "gate"]
      /\ UNCHANGED <<poolVars, hop, reply, m_InFlightRequests, m_Initialized,
                     inFlightCalls, replies, told, owed, swallowed>>
  BY DEF CallOnReader
<1>2. /\ unread' \subseteq Msg /\ received' \subseteq Msg /\ early' \subseteq Msg
      /\ m_Running' \in BOOLEAN
      /\ received' = received \cup {m} /\ unread' = unread \ {m} /\ mpc = "read"
  BY <1>1, ReadTypes
<1>3. stage'[Main] = "gate" /\ \A w \in Worker : stage'[w] = stage[w]
  BY <1>1, TransportAssumption DEF TypeOK, Thread
<1>4. TypeOK'
  BY <1>1, <1>2, MsgTypes DEF TypeOK
<1>5. Queued' = Queued
  BY <1>1 DEF Queued
<1>6. Placed' /\ Calls'
  BY <1>1, <1>2, <1>3, <1>5 DEF Placed, Calls
<1>7. m_Initialized' = (m_Initialized \/ m.method = "initialize")
  BY <1>1 DEF TypeOK
<1>8. Executing' /\ Initialized' /\ Answers'
  BY <1>1, <1>3, <1>5, <1>7, Reading
<1>9. Cancelled'
  BY <1>1, <1>2, CancelledKept
<1> QED
  BY <1>4, <1>6, <1>8, <1>9

\* notifications/cancelled: under m_InFlightMutex the reader finds the tool
\* that every call with this id, unless the id is shared, was sent for.
LEMMA CancelLine ==
    ASSUME TransportIInv, NEW m \in Msg, CancelLookup(m)
    PROVE  TransportIInv'
<1> USE DEF TransportIInv, poolVars, callVars
<1> DEFINE found == m.target # NoKey /\ m_InFlightRequests[m.target] # NoTool
<1>1. /\ Getline(m) /\ m.method = "notifications/cancelled"
      /\ IF found
         THEN mpc' = "cancel" /\ mmsg' = [m EXCEPT !.tool = m_InFlightRequests[m.target]]
         ELSE mpc' = "top" /\ UNCHANGED mmsg
      /\ owed' = IF m.target = NoKey THEN owed ELSE owed \cup ExecutingUnder(m.target)
      /\ UNCHANGED <<poolVars, callVars, m_Initialized, inFlightCalls, replies, told,
                     swallowed>>
  BY DEF CancelLookup
<1>2. /\ unread' \subseteq Msg /\ received' \subseteq Msg /\ early' \subseteq Msg
      /\ m_Running' \in BOOLEAN
      /\ received' = received \cup {m} /\ unread' = unread \ {m} /\ mpc = "read"
  BY <1>1, ReadTypes
<1>3. m.target # NoKey => m.target \in Key
  BY MsgTypes
<1>4. found => /\ m_InFlightRequests[m.target] \in Tool
               /\ mmsg' \in MessageType /\ mmsg'.target = m.target
               /\ mmsg'.tool = m_InFlightRequests[m.target]
  <2> SUFFICES ASSUME found PROVE /\ m_InFlightRequests[m.target] \in Tool
                                  /\ mmsg' \in MessageType /\ mmsg'.target = m.target
                                  /\ mmsg'.tool = m_InFlightRequests[m.target]
    OBVIOUS
  <2>1. m_InFlightRequests[m.target] \in Tool
    BY <1>3 DEF TypeOK
  <2>2. m \in MessageType
    BY MsgTypes
  <2>3. mmsg' = [m EXCEPT !.tool = m_InFlightRequests[m.target]]
    BY <1>1
  <2> HIDE DEF found
  <2> QED
    BY <2>1, <2>2, <2>3 DEF MessageType
<1>5. ASSUME NEW o \in ExecutingUnder(m.target), m.target # NoKey
      PROVE  /\ o \in [key : Key, tool : Tool, depth : 0..MaxChainDepth]
             /\ o.key = m.target
             /\ o.depth = 0 /\ KeyUnique(o.key) => found /\ o.tool = m_InFlightRequests[m.target]
  <2>1. PICK th \in Thread : /\ stage[th] = "run" /\ MsgOf(th).key = m.target
                             /\ o = [key |-> m.target, tool |-> hop[th].tool,
                                     depth |-> hop[th].depth]
    BY DEF ExecutingUnder
  <2>2. hop[th].tool \in Tool /\ hop[th].depth \in 0..MaxChainDepth
    BY <2>1 DEF TypeOK, Executing
  <2>3. o.depth = 0 => hop[th].tool = MsgOf(th).tool
    BY <2>1 DEF Executing
  <2>4. KeyUnique(m.target) => m_InFlightRequests[m.target] = MsgOf(th).tool
    BY <2>1 DEF Executing, InFlightExact
  <2> QED
    BY <1>3, <1>5, <2>1, <2>2, <2>3, <2>4, TransportAssumption
<1> HIDE DEF found
<1>6. TypeOK'
  <2>1. mpc' \in {"cancel", "top"} /\ mmsg' \in MessageType \cup {NoMsg}
    BY <1>1, <1>4 DEF TypeOK
  <2>2. owed' \subseteq [key : Key, tool : Tool, depth : 0..MaxChainDepth]
    BY <1>1, <1>5 DEF TypeOK
  <2> QED
    BY <1>1, <1>2, <2>1, <2>2 DEF TypeOK
<1>7. Queued' = Queued
  BY <1>1 DEF Queued
<1>8. Placed'
  BY <1>1, <1>7 DEF Placed
<1>9. Calls'
  <2>1. mpc' \in {"cancel", "top"} /\ (mpc' = "cancel" => mmsg'.tool \in Tool /\ mmsg'.target \in Key)
    BY <1>1, <1>3, <1>4 DEF found
  <2> QED
    BY <1>1, <1>2, <1>7, <2>1 DEF Calls
<1>10. Executing' /\ Initialized' /\ Answers'
  <2>1. m_Initialized' = (m_Initialized \/ m.method = "initialize")
    BY <1>1 DEF TypeOK
  <2>2. stage[Main] = "idle" /\ mpc' # "batch"
    BY <1>1, <1>2 DEF Calls
  <2> QED
    BY <1>1, <1>7, <2>1, <2>2, Reading
<1>11. Cancelled'
  <2> SUFFICES ASSUME NEW o \in owed', o.depth = 0, KeyUnique(o.key)'
               PROVE  \/ <<o.tool, o.key>> \in told'
                      \/ mpc' = "cancel" /\ o.tool = mmsg'.tool /\ o.key = mmsg'.target
    BY DEF Cancelled
  <2>1. KeyUnique(o.key)
    BY <1>2, KeyUniqueBefore
  <2>2. CASE o \in owed
    BY <1>1, <1>2, <2>1, <2>2 DEF Cancelled
  <2>3. CASE o \notin owed
    <3>1. m.target # NoKey /\ o \in ExecutingUnder(m.target)
      BY <1>1, <2>3
    <3>2. found /\ o.key = m.target /\ o.tool = m_InFlightRequests[m.target]
      BY <1>5, <2>1, <3>1
    <3> QED
      BY <1>1, <1>4, <3>2
  <2> QED
    BY <2>2, <2>3
<1> QED
  BY <1>6, <1>8, <1>9, <1>10, <1>11

\* Every line.
LEMMA LinesKeep ==
    ASSUME TransportIInv, NEW m \in Msg, ReadLine(m)
    PROVE  TransportIInv'
  BY AnsweredLines, BatchLine, SubmitLine, ReaderCallLine, CancelLine DEF ReadLine

-----------------------------------------------------------------------------
(* Run: the other steps of the reader, and Stop                            *)

\* Steps that only move the reader on.
LEMMA ReaderMoves ==
    ASSUME TransportIInv,
           RunStart \/ LoopTop \/ GetlineEof \/ Stop \/ RunReturn \/ BatchThrows
    PROVE  TransportIInv'
<1> USE DEF TransportIInv, poolVars, callVars, inputVars
<1>1. /\ UNCHANGED <<poolVars, callVars, inputVars, m_Initialized, mmsg,
                     inFlightCalls, replies, told, owed, swallowed>>
      /\ m_Running' \in BOOLEAN
  BY DEF RunStart, LoopTop, GetlineEof, Stop, RunReturn, BatchThrows, TypeOK
<1>2. \/ UNCHANGED mpc
      \/ /\ mpc \in {"start", "top", "read", "drain"}
         /\ mpc' \in {"top", "read", "drain", "returned"}
      \/ mpc = "batch" /\ mpc' = "threw"
  BY DEF RunStart, LoopTop, GetlineEof, Stop, RunReturn, BatchThrows
<1>3. mpc' = "returned" => mpc = "returned" \/ inFlightCalls \subseteq done
  BY <1>2 DEF RunStart, LoopTop, GetlineEof, Stop, RunReturn, BatchThrows
<1>4. TypeOK'
  BY <1>1, <1>2 DEF TypeOK
<1>5. Queued' = Queued
  BY <1>1 DEF Queued
<1>6. Placed' /\ Calls'
  BY <1>1, <1>2, <1>3, <1>5 DEF Placed, Calls
<1>7. \A th \in Thread : MsgOf(th)' = MsgOf(th)
  BY <1>1 DEF MsgOf
<1>8. Executing'
  BY <1>1, <1>7, ExecutingKept
<1>9. Initialized' /\ Answers'
  BY <1>1, <1>2, <1>5, <1>7 DEF Initialized, InitializeCoversLaterCalls, Answers
<1>10. Cancelled'
  BY <1>1, <1>2, CancelledKept
<1> QED
  BY <1>4, <1>6, <1>8, <1>9, <1>10

\* The two steps that end a line the reader was busy with.
LEMMA ReaderEnds ==
    ASSUME TransportIInv, BatchEnd \/ CancelDeliver
    PROVE  TransportIInv'
<1> USE DEF TransportIInv, poolVars, callVars, inputVars
<1>1. /\ UNCHANGED <<poolVars, callVars, inputVars, m_Running, m_Initialized,
                     inFlightCalls, owed, swallowed>>
      /\ mpc \in {"batch", "cancel"} /\ mpc' = "top" /\ mmsg' = NoMsg
  BY DEF BatchEnd, CancelDeliver
<1>2. Queued' = Queued
  BY <1>1 DEF Queued
<1>3. Placed' /\ Calls'
  BY <1>1, <1>2 DEF Placed, Calls
<1>4. stage[Main] = "idle"
  BY <1>1 DEF Calls
<1>5. \A th \in Thread : stage[th] # "idle" => MsgOf(th)' = MsgOf(th)
  BY <1>1, <1>4 DEF MsgOf
<1>6. Executing'
  BY <1>1, <1>5, ExecutingKept
<1>7. CASE CancelDeliver
  <2>1. UNCHANGED replies /\ told' = told \cup {<<mmsg.tool, mmsg.target>>} /\ mpc = "cancel"
    BY <1>7 DEF CancelDeliver
  <2>2. <<mmsg.tool, mmsg.target>> \in Tool \X Key
    BY <2>1 DEF Calls
  <2>3. TypeOK'
    BY <1>1, <2>1, <2>2 DEF TypeOK
  <2>4. Initialized' /\ Answers'
    BY <1>1, <1>2, <1>5, <2>1 DEF Initialized, InitializeCoversLaterCalls, Answers
  <2>5. Cancelled'
    BY <1>1, <2>1, KeyUniqueBefore DEF Cancelled
  <2> QED
    BY <1>3, <1>6, <2>3, <2>4, <2>5
<1>8. CASE BatchEnd
  <2>1. UNCHANGED told /\ mpc = "batch" /\ mmsg \in Msg /\ mmsg.method = "tools/call_batch"
    BY <1>8 DEF BatchEnd, Calls, TypeOK
  <2>2. replies[mmsg] = <<>> /\ mmsg \in received
    BY <2>1 DEF Answers, Calls
  <2>3. \/ UNCHANGED replies
        \/ mmsg.hasId /\ SendMessage(mmsg, "result")
    BY <1>8 DEF BatchEnd
  <2>4. replies' \in [Msg -> Seq(ReplyKind)]
    BY <2>1, <2>3, SendTypes DEF TypeOK, ReplyKind
  <2>5. /\ \A o \in Msg : o # mmsg => replies'[o] = replies[o]
        /\ replies'[mmsg] = <<>> \/ (mmsg.hasId /\ replies'[mmsg] = <<"result">>)
    BY <2>1, <2>2, <2>3 DEF SendMessage, TypeOK
  <2>6. TypeOK'
    BY <1>1, <2>1, <2>4 DEF TypeOK
  <2>7. mmsg \notin inFlightCalls
    BY <2>1 DEF Calls
  <2>8. Initialized'
    BY <1>1, <1>5, <2>1, <2>5 DEF Initialized, InitializeCoversLaterCalls
  <2>9. Answers'
    <3>1. \A o \in Msg : replies'[o] = <<>> \/ \E kind \in ReplyKind : replies'[o] = <<kind>>
      BY <2>5 DEF Answers, ReplyKind
    <3>2. \A o \in Msg : replies'[o] # <<>> =>
             o \in received' /\ (o.hasId \/ o.method \in {"garbage", "invalid"})
      BY <1>1, <2>2, <2>5 DEF Answers
    <3>3. \A o \in inFlightCalls : replies'[o] = replies[o]
      BY <2>5, <2>7 DEF TypeOK
    <3> QED
      BY <1>1, <1>2, <3>1, <3>2, <3>3 DEF Answers, Calls
  <2>10. Cancelled'
    BY <1>1, <2>1, CancelledKept
  <2> QED
    BY <1>3, <1>6, <2>6, <2>8, <2>9, <2>10
<1> QED
  BY <1>7, <1>8

-----------------------------------------------------------------------------
(* HandleToolsCall                                                         *)

LEMMA TakeKeeps ==
    ASSUME TransportIInv, NEW w \in Worker, TakeCall(w)
    PROVE  TransportIInv'
<1> USE DEF TransportIInv, inputVars
<1>1. /\ running[w] = NoMsg /\ queue # <<>> /\ queue' = Tail(queue)
      /\ running' = [running EXCEPT ![w] = Head(queue)]
      /\ stage' = [stage EXCEPT ![w] = "gate"]
      /\ UNCHANGED <<done, hop, reply, m_InFlightRequests, inputVars, m_Running,
                     m_Initialized, mpc, mmsg, inFlightCalls, replies, told, owed, swallowed>>
  BY DEF TakeCall, Pool!Start
<1>2. /\ queue' \in Seq(Msg) /\ Head(queue) \in Msg
      /\ Queued = Queued' \cup {Head(queue)} /\ Head(queue) \notin Queued'
      /\ \A i, j \in 1 .. Len(queue') : queue'[i] = queue'[j] => i = j
  BY <1>1, Taken
<1>3. w \in Thread /\ w # Main
  BY TransportAssumption DEF Thread
<1>4. /\ running'[w] = Head(queue) /\ \A v \in Worker : v # w => running'[v] = running[v]
      /\ stage'[w] = "gate" /\ \A th \in Thread : th # w => stage'[th] = stage[th]
  BY <1>1, <1>3 DEF TypeOK
<1>5. Head(queue) # NoMsg
  BY <1>2, MsgTypes
<1>6. TypeOK'
  BY <1>1, <1>2 DEF TypeOK
<1>7. Placed'
  <2>1. \A v \in Worker : running[v] # Head(queue)
    BY <1>2 DEF Placed
  <2>2. Head(queue) \notin done
    BY <1>2 DEF Placed
  <2>3. \A u, v \in Worker : running'[u] = running'[v] /\ running'[u] # NoMsg => u = v
    BY <1>4, <2>1 DEF Placed
  <2>4. \A v \in Worker : running'[v] \notin Queued' \cup done'
    BY <1>1, <1>2, <1>4, <2>2 DEF Placed
  <2>5. Queued' \cap done' = {}
    BY <1>1, <1>2 DEF Placed
  <2> QED
    BY <1>2, <2>3, <2>4, <2>5 DEF Placed
<1>8. Calls'
  <2>1. \A v \in Worker : running'[v] # NoMsg => running'[v] \in inFlightCalls
    BY <1>2, <1>4 DEF Calls
  <2>2. \A v \in Worker : stage'[v] = "idle" <=> running'[v] = NoMsg
    BY <1>4, <1>5, TransportAssumption DEF Calls, Thread
  <2>3. stage'[Main] = stage[Main]
    BY <1>3, <1>4 DEF Thread
  <2> QED
    BY <1>1, <1>2, <2>1, <2>2, <2>3 DEF Calls
<1>9. stage[w] = "idle"
  BY <1>1 DEF Calls
<1>10. \A th \in Thread : th # w => MsgOf(th)' = MsgOf(th)
  BY <1>1, <1>4 DEF MsgOf, Thread
<1>11. Executing'
  BY <1>1, <1>4, <1>9, <1>10, ExecutingKept
<1>12. Initialized'
  BY <1>1, <1>4, <1>10 DEF Initialized, InitializeCoversLaterCalls
<1>13. Answers'
  <2>1. \A v \in Worker : running'[v] # NoMsg => replies'[running'[v]] = <<>>
    BY <1>1, <1>2, <1>4 DEF Answers
  <2> QED
    BY <1>1, <1>2, <2>1 DEF Answers
<1>14. Cancelled'
  BY <1>1, CancelledKept
<1> QED
  BY <1>6, <1>7, <1>8, <1>11, <1>12, <1>13, <1>14

\* A step inside HandleToolsCall moves no message.
LEMMA InsideCall ==
    ASSUME TransportIInv, NEW th \in Thread, stage[th] # "idle",
           NEW s \in {"gate", "run", "reply"}, stage' = [stage EXCEPT ![th] = s],
           UNCHANGED <<poolVars, inputVars, m_Running, m_Initialized, mpc, mmsg,
                       inFlightCalls, replies, told, owed, swallowed>>
    PROVE  /\ Placed' /\ Calls' /\ Answers' /\ Cancelled'
           /\ stage' \in [Thread -> {"idle", "gate", "run", "reply"}]
           /\ stage'[th] = s /\ \A u \in Thread : u # th => stage'[u] = stage[u]
           /\ \A u \in Thread : MsgOf(u)' = MsgOf(u)
<1> USE DEF TransportIInv, poolVars, inputVars
<1>1. /\ stage' \in [Thread -> {"idle", "gate", "run", "reply"}]
      /\ stage'[th] = s /\ \A u \in Thread : u # th => stage'[u] = stage[u]
  BY DEF TypeOK
<1>2. Queued' = Queued
  BY DEF Queued
<1>3. Placed' /\ Answers'
  BY <1>2 DEF Placed, Answers
<1>4. Calls'
  <2>1. \A w \in Worker : stage'[w] = "idle" <=> stage[w] = "idle"
    BY <1>1 DEF Thread
  <2>2. stage'[Main] # "idle" => stage[Main] # "idle"
    BY <1>1 DEF Thread
  <2> QED
    BY <1>2, <2>1, <2>2 DEF Calls
<1>5. \A u \in Thread : MsgOf(u)' = MsgOf(u)
  BY DEF MsgOf
<1>6. Cancelled'
  BY CancelledKept
<1> QED
  BY <1>1, <1>3, <1>4, <1>5, <1>6

\* "notInitialized" is composed only for a call read before initialize.
LEMMA RefuseKeeps ==
    ASSUME TransportIInv, NEW th \in Thread, RefuseCall(th)
    PROVE  TransportIInv'
<1> USE DEF TransportIInv, poolVars, inputVars
<1> DEFINE kind == IF m_Initialized THEN "invalidParams" ELSE "notInitialized"
<1>1. /\ stage[th] = "gate" /\ stage' = [stage EXCEPT ![th] = "reply"]
      /\ reply' = [reply EXCEPT ![th] = kind]
      /\ UNCHANGED <<poolVars, hop, m_InFlightRequests, inputVars, m_Running,
                     m_Initialized, mpc, mmsg, inFlightCalls, replies, told, owed, swallowed>>
  BY DEF RefuseCall
<1>2. /\ Placed' /\ Calls' /\ Answers' /\ Cancelled'
      /\ stage' \in [Thread -> {"idle", "gate", "run", "reply"}]
      /\ stage'[th] = "reply" /\ \A u \in Thread : u # th => stage'[u] = stage[u]
      /\ \A u \in Thread : MsgOf(u)' = MsgOf(u)
  BY <1>1, InsideCall
<1>3. reply'[th] = kind /\ \A u \in Thread : u # th => reply'[u] = reply[u]
  BY <1>1 DEF TypeOK
<1>4. TypeOK'
  BY <1>1, <1>2 DEF TypeOK, ReplyKind
<1>5. Executing'
  BY <1>1, <1>2, ExecutingKept
<1>6. kind = "notInitialized" => MsgOf(th) \in early
  BY <1>1, MessageOf DEF Initialized
<1>7. Initialized'
  BY <1>1, <1>2, <1>3, <1>6 DEF Initialized, InitializeCoversLaterCalls
<1> QED
  BY <1>2, <1>4, <1>5, <1>7

\* The call is entered in the map.  An entry it replaces belongs to a call
\* with the same id, so that the id is shared.
LEMMA RegisterKeeps ==
    ASSUME TransportIInv, NEW th \in Thread, RegisterCall(th)
    PROVE  TransportIInv'
<1> USE DEF TransportIInv, poolVars, inputVars
<1> DEFINE m == MsgOf(th)
<1>1. /\ stage[th] = "gate" /\ stage' = [stage EXCEPT ![th] = "run"]
      /\ m.tool \in Registered
      /\ m_InFlightRequests' = [m_InFlightRequests EXCEPT ![m.key] = m.tool]
      /\ hop' = [hop EXCEPT ![th] = [tool |-> m.tool, depth |-> 0]]
      /\ UNCHANGED <<poolVars, reply, inputVars, m_Running, m_Initialized, mpc,
                     mmsg, inFlightCalls, replies, told, owed, swallowed>>
  BY DEF RegisterCall, Admitted
<1>2. /\ Placed' /\ Calls' /\ Answers' /\ Cancelled'
      /\ stage' \in [Thread -> {"idle", "gate", "run", "reply"}]
      /\ stage'[th] = "run" /\ \A u \in Thread : u # th => stage'[u] = stage[u]
      /\ \A u \in Thread : MsgOf(u)' = MsgOf(u)
  BY <1>1, InsideCall
<1>3. /\ m \in received /\ m.method = "tools/call" /\ m.key \in Key
      /\ m.tool \in Tool /\ m.tool # NoTool
  BY <1>1, MessageOf, TransportAssumption
<1> HIDE DEF m
<1>4. /\ m_InFlightRequests'[m.key] = m.tool
      /\ \A k \in Key : k # m.key => m_InFlightRequests'[k] = m_InFlightRequests[k]
  BY <1>1, <1>3 DEF TypeOK
<1>5. /\ hop'[th].tool = m.tool /\ \A u \in Thread : u # th => hop'[u] = hop[u]
  BY <1>1 DEF TypeOK
<1>6. TypeOK'
  <2>1. 0 \in 0..MaxChainDepth
    BY TransportAssumption
  <2>2. hop' \in [Thread -> [tool : Tool \cup {NoTool}, depth : 0..MaxChainDepth]]
    BY <1>1, <1>3, <2>1 DEF TypeOK
  <2>3. m_InFlightRequests' \in [Key -> Tool \cup {NoTool}]
    BY <1>1, <1>3 DEF TypeOK
  <2> QED
    BY <1>1, <1>2, <2>2, <2>3 DEF TypeOK
<1>7. Initialized'
  BY <1>1, <1>2 DEF Initialized, InitializeCoversLaterCalls
<1>8. Executing'
  <2>1. \A u \in Thread : stage'[u] = "run" =>
           /\ hop'[u].tool \in Tool
           /\ hop'[u].depth = 0 => hop'[u].tool = MsgOf(u)'.tool
    BY <1>2, <1>3, <1>5 DEF Executing, m
  <2>2. ASSUME NEW u \in Thread, stage'[u] = "run", KeyUnique(MsgOf(u).key)'
        PROVE  m_InFlightRequests'[MsgOf(u)'.key] = MsgOf(u)'.tool
    <3>1. CASE u = th
      BY <1>2, <1>4, <3>1 DEF m
    <3>2. CASE u # th
      <4>1. stage[u] = "run" /\ MsgOf(u)' = MsgOf(u)
        BY <1>2, <2>2, <3>2
      <4>2. KeyUnique(MsgOf(u).key)
        BY <1>1, <2>2, <4>1, KeyUniqueBefore
      <4>3. MsgOf(u) \in received /\ MsgOf(u).method = "tools/call" /\ MsgOf(u).key \in Key
        BY <4>1, MessageOf
      <4>4. MsgOf(u).key # m.key
        <5>1. MsgOf(u).key = m.key => MsgOf(u) = m
          BY <1>3, <4>2, <4>3 DEF KeyUnique
        <5> QED
          BY <1>1, <3>2, <4>1, <5>1, OneThread DEF m
      <4> QED
        BY <1>4, <4>1, <4>2, <4>3, <4>4 DEF Executing, InFlightExact
    <3> QED
      BY <3>1, <3>2
  <2>3. ASSUME NEW k \in Key, m_InFlightRequests'[k] # NoTool
        PROVE  \E u \in Thread : stage'[u] = "run" /\ MsgOf(u)'.key = k
    <3>1. CASE k = m.key
      BY <1>2, <3>1 DEF m
    <3>2. CASE k # m.key
      <4>1. PICK u \in Thread : stage[u] = "run" /\ MsgOf(u).key = k
        BY <1>4, <2>3, <3>2 DEF Executing, InFlightExact
      <4> QED
        BY <1>1, <1>2, <4>1
    <3> QED
      BY <3>1, <3>2
  <2> QED
    BY <2>1, <2>2, <2>3 DEF Executing, InFlightExact
<1> QED
  BY <1>2, <1>6, <1>7, <1>8

\* A chained tool runs at a greater depth; the map keeps the first name.
LEMMA ChainKeeps ==
    ASSUME TransportIInv, NEW th \in Thread, ChainCall(th)
    PROVE  TransportIInv'
<1> USE DEF TransportIInv, poolVars, inputVars
<1>1. /\ stage[th] = "run" /\ hop[th].depth < MaxChainDepth
      /\ UNCHANGED <<poolVars, stage, reply, m_InFlightRequests, inputVars,
                     m_Running, m_Initialized, mpc, mmsg, inFlightCalls,
                     replies, told, owed, swallowed>>
  BY DEF ChainCall
<1>2. PICK t \in Registered :
         hop' = [hop EXCEPT ![th] = [tool |-> t, depth |-> hop[th].depth + 1]]
  BY DEF ChainCall
<1>3. t \in Tool /\ hop[th].depth \in Nat /\ hop[th].depth + 1 \in 0..MaxChainDepth
  BY <1>1, TransportAssumption DEF TypeOK
<1>4. /\ hop'[th].tool = t /\ hop'[th].depth = hop[th].depth + 1
      /\ \A u \in Thread : u # th => hop'[u] = hop[u]
  BY <1>2 DEF TypeOK
<1>5. TypeOK'
  <2>1. hop' \in [Thread -> [tool : Tool \cup {NoTool}, depth : 0..MaxChainDepth]]
    BY <1>2, <1>3 DEF TypeOK
  <2> QED
    BY <1>1, <2>1 DEF TypeOK
<1>6. \A u \in Thread : MsgOf(u)' = MsgOf(u)
  BY <1>1 DEF MsgOf
<1>7. Queued' = Queued
  BY <1>1 DEF Queued
<1>8. Placed' /\ Calls' /\ Answers'
  BY <1>1, <1>7 DEF Placed, Calls, Answers
<1>9. Initialized'
  BY <1>1, <1>6 DEF Initialized, InitializeCoversLaterCalls
<1>10. Cancelled'
  BY <1>1, CancelledKept
<1>11. Executing'
  <2>1. \A u \in Thread : stage'[u] = "run" =>
           /\ hop'[u].tool \in Tool
           /\ hop'[u].depth = 0 => hop'[u].tool = MsgOf(u)'.tool
    BY <1>1, <1>3, <1>4, <1>6 DEF Executing
  <2>2. \A k : KeyUnique(k)' => KeyUnique(k)
    BY <1>1, KeyUniqueBefore
  <2>3. InFlightExact'
    BY <1>1, <1>6, <2>2 DEF Executing, InFlightExact
  <2> QED
    BY <2>1, <2>3 DEF Executing
<1> QED
  BY <1>5, <1>8, <1>9, <1>10, <1>11

\* The entry is erased: it was this call's, or that of a call sharing the id.
LEMMA EndKeeps ==
    ASSUME TransportIInv, NEW th \in Thread, EndCall(th)
    PROVE  TransportIInv'
<1> USE DEF TransportIInv, poolVars, inputVars
<1> DEFINE m == MsgOf(th)
<1>1. /\ stage[th] = "run" /\ stage' = [stage EXCEPT ![th] = "reply"]
      /\ m_InFlightRequests' = [m_InFlightRequests EXCEPT ![m.key] = NoTool]
      /\ hop' = [hop EXCEPT ![th] = NoHop]
      /\ UNCHANGED <<poolVars, inputVars, m_Running, m_Initialized, mpc,
                     mmsg, inFlightCalls, replies, told, owed, swallowed>>
  BY DEF EndCall
<1>2. PICK kind \in {"result", "internalError", "unencodable"} : reply' = [reply EXCEPT ![th] = kind]
  BY DEF EndCall
<1>3. /\ Placed' /\ Calls' /\ Answers' /\ Cancelled'
      /\ stage' \in [Thread -> {"idle", "gate", "run", "reply"}]
      /\ stage'[th] = "reply" /\ \A u \in Thread : u # th => stage'[u] = stage[u]
      /\ \A u \in Thread : MsgOf(u)' = MsgOf(u)
  BY <1>1, InsideCall
<1>4. m \in received /\ m.method = "tools/call" /\ m.key \in Key
  BY <1>1, MessageOf
<1> HIDE DEF m
<1>5. /\ m_InFlightRequests'[m.key] = NoTool
      /\ \A k \in Key : k # m.key => m_InFlightRequests'[k] = m_InFlightRequests[k]
      /\ \A u \in Thread : u # th => hop'[u] = hop[u]
  BY <1>1, <1>4 DEF TypeOK
<1>6. reply'[th] = kind /\ \A u \in Thread : u # th => reply'[u] = reply[u]
  BY <1>2 DEF TypeOK
<1>7. TypeOK'
  <2>1. NoHop \in [tool : Tool \cup {NoTool}, depth : 0..MaxChainDepth]
    BY TransportAssumption DEF NoHop
  <2>2. hop' \in [Thread -> [tool : Tool \cup {NoTool}, depth : 0..MaxChainDepth]]
    BY <1>1, <2>1 DEF TypeOK
  <2>3. m_InFlightRequests' \in [Key -> Tool \cup {NoTool}]
    BY <1>1 DEF TypeOK
  <2>4. reply' \in [Thread -> ReplyKind \cup {"unencodable"}]
    BY <1>2 DEF TypeOK, ReplyKind
  <2> QED
    BY <1>1, <1>3, <2>2, <2>3, <2>4 DEF TypeOK
<1>8. Initialized'
  BY <1>1, <1>3, <1>6 DEF Initialized, InitializeCoversLaterCalls
<1>9. Executing'
  <2>1. \A u \in Thread : stage'[u] = "run" => u # th /\ stage[u] = "run"
    BY <1>3
  <2>2. \A u \in Thread : stage'[u] = "run" =>
           /\ hop'[u].tool \in Tool
           /\ hop'[u].depth = 0 => hop'[u].tool = MsgOf(u)'.tool
    BY <1>3, <1>5, <2>1 DEF Executing
  <2>3. ASSUME NEW u \in Thread, stage'[u] = "run", KeyUnique(MsgOf(u).key)'
        PROVE  m_InFlightRequests'[MsgOf(u)'.key] = MsgOf(u)'.tool
    <3>1. u # th /\ stage[u] = "run" /\ MsgOf(u)' = MsgOf(u)
      BY <1>3, <2>1, <2>3
    <3>2. KeyUnique(MsgOf(u).key)
      BY <1>1, <2>3, <3>1, KeyUniqueBefore
    <3>3. MsgOf(u) \in received /\ MsgOf(u).method = "tools/call" /\ MsgOf(u).key \in Key
      BY <3>1, MessageOf
    <3>4. MsgOf(u).key # m.key
      <4>1. MsgOf(u).key = m.key => MsgOf(u) = m
        BY <1>4, <3>2, <3>3 DEF KeyUnique
      <4> QED
        BY <1>1, <3>1, <4>1, OneThread DEF m
    <3> QED
      BY <1>5, <3>1, <3>2, <3>3, <3>4 DEF Executing, InFlightExact
  <2>4. ASSUME NEW k \in Key, m_InFlightRequests'[k] # NoTool
        PROVE  \E u \in Thread : stage'[u] = "run" /\ MsgOf(u)'.key = k
    <3>1. k # m.key
      BY <1>5, <2>4
    <3>2. PICK u \in Thread : stage[u] = "run" /\ MsgOf(u).key = k
      BY <1>5, <2>4, <3>1 DEF Executing, InFlightExact
    <3> QED
      BY <1>3, <3>1, <3>2 DEF m
  <2> QED
    BY <2>2, <2>3, <2>4 DEF Executing, InFlightExact
<1> QED
  BY <1>3, <1>7, <1>8, <1>9

\* A worker leaves HandleToolsCall: its call is done, and has its answer or its
\* exception was swallowed.
LEMMA WorkerLeaves ==
    ASSUME TransportIInv, NEW w \in Worker, stage[w] \in {"gate", "reply"},
           done' = done \cup {running[w]}, running' = [running EXCEPT ![w] = NoMsg],
           stage' = [stage EXCEPT ![w] = "idle"],
           reply' \in [Thread -> ReplyKind \cup {"unencodable"}],
           \A u \in Thread : u # w => reply'[u] = reply[u],
           UNCHANGED <<queue, hop, m_InFlightRequests, inputVars, m_Running, m_Initialized,
                       mpc, mmsg, inFlightCalls, told, owed>>,
           \/ UNCHANGED replies /\ swallowed' = swallowed \cup {running[w]}
           \/ /\ stage[w] = "reply" /\ reply[w] # "unencodable"
              /\ SendMessage(running[w], reply[w]) /\ UNCHANGED swallowed
    PROVE  TransportIInv'
<1> USE DEF TransportIInv, inputVars
<1> DEFINE m == running[w]
<1>1. w \in Thread /\ w # Main
  BY TransportAssumption DEF Thread
<1>2. MsgOf(w) = m
  BY <1>1 DEF MsgOf
<1>3. m \in Msg /\ m \in received /\ m.method = "tools/call" /\ m.hasId /\ m # NoMsg
  BY <1>1, <1>2, MessageOf
<1>4. m \in inFlightCalls /\ m \notin Queued /\ m \notin done /\ replies[m] = <<>>
  BY <1>3 DEF Calls, Placed, Answers
<1>5. \A v \in Worker : v # w => running[v] # m
  BY <1>3 DEF Placed
<1> HIDE DEF m
<1>6. /\ running'[w] = NoMsg /\ \A v \in Worker : v # w => running'[v] = running[v]
      /\ stage'[w] = "idle" /\ \A th \in Thread : th # w => stage'[th] = stage[th]
  BY <1>1 DEF TypeOK
<1>7. reply[w] # "unencodable" => reply[w] \in ReplyKind
  BY <1>1 DEF TypeOK
<1>8. /\ \A o \in Msg : o # m => replies'[o] = replies[o]
      /\ \/ replies'[m] = <<>> /\ swallowed' = swallowed \cup {m}
         \/ /\ stage[w] = "reply" /\ reply[w] \in ReplyKind
            /\ replies'[m] = <<reply[w]>> /\ UNCHANGED swallowed
  BY <1>3, <1>4, <1>7 DEF SendMessage, TypeOK, m
<1>9. TypeOK'
  <2>1. replies' \in [Msg -> Seq(ReplyKind)]
    BY <1>3, <1>7, SendTypes DEF TypeOK, m
  <2>2. done' \subseteq Msg /\ swallowed' \subseteq Msg
    BY <1>3 DEF TypeOK, m
  <2> QED
    BY <2>1, <2>2 DEF TypeOK
<1>10. Queued' = Queued
  BY DEF Queued
<1>11. Placed'
  <2>1. NoMsg \notin Queued' \cup done'
    <3>1. Queued \subseteq Msg
      BY DEF Calls, TypeOK
    <3>2. done' \subseteq Msg
      BY <1>9 DEF TypeOK
    <3> QED
      BY <1>10, <3>1, <3>2, MsgTypes
  <2>2. \A v \in Worker : running'[v] \notin Queued' \cup done'
    BY <1>5, <1>6, <1>10, <2>1 DEF Placed, m
  <2>3. Queued' \cap done' = {}
    BY <1>4, <1>10 DEF Placed, m
  <2>4. \A u, v \in Worker : running'[u] = running'[v] /\ running'[u] # NoMsg => u = v
    BY <1>6 DEF Placed
  <2> QED
    BY <2>2, <2>3, <2>4 DEF Placed
<1>12. Calls'
  <2>1. Queued' \cup done' \subseteq inFlightCalls
    BY <1>4, <1>10 DEF Calls, m
  <2>2. \A v \in Worker : running'[v] # NoMsg => running'[v] \in inFlightCalls
    BY <1>6 DEF Calls
  <2>3. \A v \in Worker : stage'[v] = "idle" <=> running'[v] = NoMsg
    BY <1>6 DEF Calls, Thread
  <2>4. stage'[Main] = stage[Main]
    BY <1>1, <1>6 DEF Thread
  <2> QED
    BY <2>1, <2>2, <2>3, <2>4 DEF Calls
<1>13. \A th \in Thread : th # w => MsgOf(th)' = MsgOf(th)
  BY <1>6 DEF MsgOf, Thread
<1>14. Executing'
  BY <1>6, <1>13, ExecutingKept
<1>15. Initialized'
  <2>1. stage[w] = "reply" /\ reply[w] = "notInitialized" => m \in early
    BY <1>1, <1>2 DEF Initialized
  <2>2. InitializeCoversLaterCalls'
    BY <1>8, <2>1 DEF Initialized, InitializeCoversLaterCalls
  <2> QED
    BY <1>6, <1>13, <2>2 DEF Initialized
<1>16. Answers'
  <2>1. \A o \in Msg : replies'[o] = <<>> \/ \E kind \in ReplyKind : replies'[o] = <<kind>>
    BY <1>8 DEF Answers
  <2>2. \A o \in Msg : replies'[o] # <<>> =>
           o \in received' /\ (o.hasId \/ o.method \in {"garbage", "invalid"})
    BY <1>3, <1>8 DEF Answers
  <2>3. \A o \in Queued' : replies'[o] = <<>>
    BY <1>4, <1>8, <1>10 DEF Answers, Calls, TypeOK
  <2>4. \A v \in Worker : running'[v] # NoMsg => replies'[running'[v]] = <<>>
    BY <1>5, <1>6, <1>8 DEF Answers, TypeOK
  <2>5. mpc' = "batch" => replies'[mmsg'] = <<>>
    BY <1>3, <1>8 DEF Answers, Calls, TypeOK
  <2>6. \A o \in done' : replies'[o] # <<>> \/ o \in swallowed'
    <3>1. (replies'[m] # <<>> \/ m \in swallowed') /\ swallowed \subseteq swallowed'
      <4>1. <<reply[w]>> # <<>>
        OBVIOUS
      <4> QED
        BY <1>8, <4>1
    <3>2. \A o \in done : replies'[o] = replies[o]
      BY <1>4, <1>8 DEF TypeOK
    <3>3. done' = done \cup {m}
      BY DEF m
    <3> QED
      BY <3>1, <3>2, <3>3 DEF Answers
  <2> QED
    BY <2>1, <2>2, <2>3, <2>4, <2>5, <2>6 DEF Answers
<1>17. Cancelled'
  BY CancelledKept
<1> QED
  BY <1>9, <1>11, <1>12, <1>14, <1>15, <1>16, <1>17

\* The reader leaves HandleToolsCall: the answer, if any, is dropped; an
\* exception leaves Run with it.
LEMMA ReaderLeaves ==
    ASSUME TransportIInv, stage[Main] \in {"gate", "reply"},
           stage' = [stage EXCEPT ![Main] = "idle"],
           mpc' \in {"top", "threw"}, mmsg' \in {mmsg, NoMsg},
           reply' \in [Thread -> ReplyKind \cup {"unencodable"}],
           \A u \in Thread : u # Main => reply'[u] = reply[u],
           UNCHANGED <<poolVars, hop, m_InFlightRequests, inputVars, m_Running,
                       m_Initialized, inFlightCalls, replies, told, owed, swallowed>>
    PROVE  TransportIInv'
<1> USE DEF TransportIInv, poolVars, inputVars
<1>1. Main \in Thread /\ Main \notin Worker
  BY TransportAssumption DEF Thread
<1>2. mpc = "call" /\ mmsg \in Msg
  BY DEF Calls, TypeOK
<1>3. stage'[Main] = "idle" /\ \A th \in Thread : th # Main => stage'[th] = stage[th]
  BY <1>1 DEF TypeOK
<1>4. TypeOK'
  BY <1>2 DEF TypeOK
<1>5. Queued' = Queued
  BY DEF Queued
<1>6. Placed' /\ Answers'
  BY <1>5 DEF Placed, Answers
<1>7. Calls'
  BY <1>1, <1>3, <1>5 DEF Calls, Thread
<1>8. \A th \in Thread : th # Main => MsgOf(th)' = MsgOf(th)
  BY DEF MsgOf
<1>9. Executing'
  BY <1>3, <1>8, ExecutingKept
<1>10. Initialized'
  BY <1>3, <1>8 DEF Initialized, InitializeCoversLaterCalls
<1>11. Cancelled'
  BY <1>2, CancelledKept
<1> QED
  BY <1>4, <1>6, <1>7, <1>9, <1>10, <1>11

LEMMA LeavingKeeps ==
    ASSUME TransportIInv, NEW th \in Thread, CallThrowsEarly(th) \/ FinishCall(th)
    PROVE  TransportIInv'
<1> USE DEF poolVars
<1>1. /\ stage[th] \in {"gate", "reply"} /\ stage' = [stage EXCEPT ![th] = "idle"]
      /\ UNCHANGED <<hop, m_InFlightRequests, inputVars, m_Running,
                     m_Initialized, inFlightCalls, told, owed>>
  BY DEF CallThrowsEarly, FinishCall, Admitted
<1>2. /\ reply' \in [Thread -> ReplyKind \cup {"unencodable"}]
      /\ \A u \in Thread : u # th => reply'[u] = reply[u]
  BY DEF CallThrowsEarly, FinishCall, TransportIInv, TypeOK, ReplyKind
<1>3. CASE th = Main
  <2>1. UNCHANGED <<poolVars, replies, swallowed>> /\ mpc' \in {"top", "threw"} /\ mmsg' \in {mmsg, NoMsg}
    BY <1>3 DEF CallThrowsEarly, FinishCall
  <2> QED
    BY <1>1, <1>2, <1>3, <2>1, ReaderLeaves
<1>4. CASE th # Main
  <2>1. th \in Worker /\ MsgOf(th) = running[th]
    BY <1>4 DEF Thread, MsgOf
  <2>2. /\ done' = done \cup {running[th]} /\ running' = [running EXCEPT ![th] = NoMsg]
        /\ UNCHANGED <<queue, mpc, mmsg>>
    BY <1>4 DEF CallThrowsEarly, FinishCall, Pool!Finish
  <2>3. \/ UNCHANGED replies /\ swallowed' = swallowed \cup {running[th]}
        \/ /\ stage[th] = "reply" /\ reply[th] # "unencodable"
           /\ SendMessage(running[th], reply[th]) /\ UNCHANGED swallowed
    BY <1>4 DEF CallThrowsEarly, FinishCall, Swallow, SendMessage
  <2> QED
    BY <1>1, <1>2, <2>1, <2>2, <2>3, WorkerLeaves
<1> QED
  BY <1>3, <1>4

-----------------------------------------------------------------------------
LEMMA TransportInit == Init => TransportIInv
<1> SUFFICES ASSUME Init PROVE TransportIInv
  OBVIOUS
<1>1. queue = <<>> /\ running = [w \in Worker |-> NoMsg] /\ done = {}
  BY DEF Init, Pool!Init
<1>2. Queued = {}
  BY <1>1 DEF Queued
<1>3. TypeOK
  <2>1. <<>> \in Seq(Msg) /\ <<>> \in Seq(ReplyKind)
    OBVIOUS
  <2>2. NoHop \in [tool : Tool \cup {NoTool}, depth : 0..MaxChainDepth]
    BY TransportAssumption DEF NoHop
  <2>3. unread \subseteq Msg
    BY TransportAssumption DEF Init
  <2>4. hop \in [Thread -> [tool : Tool \cup {NoTool}, depth : 0..MaxChainDepth]]
    BY <2>2 DEF Init
  <2>5. replies \in [Msg -> Seq(ReplyKind)] /\ queue \in Seq(Msg)
    BY <1>1, <2>1 DEF Init
  <2> QED
    BY <1>1, <2>3, <2>4, <2>5 DEF Init, TypeOK, ReplyKind
<1>4. Placed
  BY <1>1, <1>2 DEF Placed
<1>5. Calls
  BY <1>1, <1>2 DEF Init, Calls, Thread
<1>6. Answers
  BY <1>1, <1>2 DEF Init, Answers
<1>7. Initialized
  <2>1. \A m \in Msg : replies[m] = <<>>
    BY DEF Init
  <2>2. <<>> # <<"notInitialized">>
    OBVIOUS
  <2> QED
    BY <2>1, <2>2 DEF Init, Initialized, InitializeCoversLaterCalls
<1>8. Executing /\ Cancelled
  BY DEF Init, Executing, InFlightExact, Cancelled
<1> QED
  BY <1>3, <1>4, <1>5, <1>6, <1>7, <1>8 DEF TransportIInv

\* TransportIInv is inductive.
LEMMA TransportInductive == TransportIInv /\ [Next]_vars => TransportIInv'
<1> SUFFICES ASSUME TransportIInv, [Next]_vars PROVE TransportIInv'
  OBVIOUS
<1>1. CASE Next
  BY <1>1, LinesKeep, ReaderMoves, ReaderEnds, TakeKeeps, RefuseKeeps, RegisterKeeps,
     ChainKeeps, EndKeeps, LeavingKeeps
  DEF Next, ReaderStep, CallStep
<1>2. CASE UNCHANGED vars
  <2>1. Queued' = Queued /\ \A th \in Thread : MsgOf(th)' = MsgOf(th)
    BY <1>2 DEF vars, Queued, MsgOf
  <2>2. Executing'
    BY <1>2, <2>1, ExecutingKept DEF vars, TransportIInv
  <2>3. Cancelled'
    BY <1>2, CancelledKept DEF vars, TransportIInv
  <2>4. Initialized'
    BY <1>2, <2>1 DEF vars, TransportIInv, Initialized, InitializeCoversLaterCalls
  <2>5. TypeOK' /\ Placed' /\ Calls' /\ Answers'
    BY <1>2, <2>1 DEF vars, TransportIInv, TypeOK, Placed, Calls, Answers
  <2> QED
    BY <2>2, <2>3, <2>4, <2>5 DEF TransportIInv
<1> QED
  BY <1>1, <1>2

LEMMA TransportInvariant == Spec => []TransportIInv
  BY TransportInit, TransportInductive, PTL DEF Spec

-----------------------------------------------------------------------------
\* TransportInv always: notifications/cancelled finds every executing call
\* that does not share its id and nothing else, and no call read after
\* initialize is refused as uninitialized, although workers read
\* m_Initialized without a lock.
THEOREM MapAndGateExact == Spec => []TransportInv
<1>1. TransportIInv => TransportInv
  BY DEF TransportIInv, TransportInv, Initialized, Executing
<1> QED
  BY <1>1, TransportInvariant, PTL

\* AnsweredOnce always: reader and workers between them never write two
\* responses to one message, nor any to a well-formed notification.
THEOREM OneAnswer == Spec => []AnsweredOnce
<1>1. TransportIInv => AnsweredOnce
  <2>1. ASSUME TransportIInv, NEW m \in Msg PROVE Len(replies[m]) <= 1
    <3>1. CASE replies[m] = <<>>
      BY <3>1
    <3>2. ASSUME NEW kind \in ReplyKind, replies[m] = <<kind>> PROVE Len(replies[m]) <= 1
      BY <3>2
    <3> QED
      BY <2>1, <3>1, <3>2 DEF TransportIInv, Answers
  <2> QED
    BY <2>1 DEF TransportIInv, Answers, AnsweredOnce
<1> QED
  BY <1>1, TransportInvariant, PTL

\* ReturnedMeansDrained always: when Run returns the pool holds none of its
\* calls, the in-flight map is empty, and every call has its answer or threw in
\* the pool, where the future it waited for holds the exception.
THEOREM ReturnsDrained == Spec => []ReturnedMeansDrained
<1>1. ASSUME TransportIInv, mpc = "returned" PROVE ReturnedMeansDrained
  <2> USE DEF TransportIInv
  <2>1. inFlightCalls \subseteq done
    BY <1>1 DEF Calls
  <2>2. Queued = {}
    BY <1>1, <2>1 DEF Calls, Placed
  <2>3. queue = <<>>
    <3>1. queue \in Seq(Msg) /\ Len(queue) \in Nat
      BY <1>1 DEF TypeOK
    <3>2. Len(queue) = 0
      BY <2>2, <3>1 DEF Queued
    <3> QED
      BY <3>1, <3>2
  <2>4. \A w \in Worker : running[w] = NoMsg
    BY <1>1, <2>1 DEF Calls, Placed
  <2>5. \A th \in Thread : stage[th] = "idle"
    BY <1>1, <2>4 DEF Calls, Thread
  <2>6. \A k \in Key : m_InFlightRequests[k] = NoTool
    BY <1>1, <2>5 DEF Executing, InFlightExact
  <2>7. \A m \in inFlightCalls : replies[m] # <<>> \/ m \in swallowed
    BY <1>1, <2>1 DEF Answers
  <2> QED
    BY <2>3, <2>5, <2>6, <2>7 DEF ReturnedMeansDrained
<1>2. TransportIInv => ReturnedMeansDrained
  BY <1>1 DEF ReturnedMeansDrained
<1> QED
  BY <1>2, TransportInvariant, PTL

\* CancelReachesNamedTool always: a cancellation read while its target runs the
\* tool it was sent for is delivered to that command, although Cancel is called
\* after m_InFlightMutex is released.
THEOREM CancellationsArrive == Spec => []CancelReachesNamedTool
<1>1. TransportIInv => CancelReachesNamedTool
  BY DEF TransportIInv, Cancelled, CancelReachesNamedTool
<1> QED
  BY <1>1, TransportInvariant, PTL

-----------------------------------------------------------------------------
(* No request is lost                                                      *)

\* Somebody has the request: the pool, a worker, the reader with its batch, or
\* the future that swallowed its exception.
InHand(m) ==
    \/ m \in Queued
    \/ \E w \in Worker : running[w] = m
    \/ mpc = "batch" /\ mmsg = m
    \/ m \in swallowed

Accounted == Alive => \A m \in received : NeedsAnswer(m) => replies[m] # <<>> \/ InHand(m)

\* An answer, once written, stays.
LEMMA Sent ==
    ASSUME replies \in [Msg -> Seq(ReplyKind)], NEW m \in Msg, NEW kind \in ReplyKind,
           SendMessage(m, kind)
    PROVE  /\ replies'[m] # <<>>
           /\ \A o \in Msg : replies[o] # <<>> => replies'[o] # <<>>
<1>1. replies'[m] = Append(replies[m], kind) /\ \A o \in Msg : o # m => replies'[o] = replies[o]
  BY Written
<1>2. replies[m] \in Seq(ReplyKind)
  OBVIOUS
<1>3. Len(Append(replies[m], kind)) = Len(replies[m]) + 1 /\ Len(replies[m]) \in Nat
  BY <1>2
<1>4. replies'[m] # <<>>
  BY <1>1, <1>3
<1> QED
  BY <1>1, <1>4

\* Who has a request keeps it, or hands it on with the queue.
LEMMA StillAccounted ==
    ASSUME TransportIInv, Accounted, Alive,
           \A o \in Msg : replies[o] # <<>> => replies'[o] # <<>>,
           UNCHANGED received,
           \A m \in received : NeedsAnswer(m) /\ InHand(m) => InHand(m)' \/ replies'[m] # <<>>
    PROVE  Accounted'
  BY DEF Accounted, TransportIInv, TypeOK

\* What the reader answers to a line can be encoded, or it throws; and it answers
\* every request that it neither queues nor keeps as its batch.
LEMMA LineAnswer ==
    ASSUME NEW m \in Msg, ReadLine(m)
    PROVE  /\ UNCHANGED replies \/ \E kind \in ReplyKind : SendMessage(m, kind)
           /\ RejectLine(m) => \E kind \in ReplyKind : SendMessage(m, kind)
           /\ DispatchOnReader(m) /\ NeedsAnswer(m) =>
                 \E kind \in ReplyKind : SendMessage(m, kind)
           /\ HandleToolsCallBatch(m) /\ NeedsAnswer(m) =>
                 \/ mpc' = "batch" /\ mmsg' = m
                 \/ \E kind \in ReplyKind : SendMessage(m, kind)
<1>1. RejectLine(m) => \E kind \in ReplyKind : SendMessage(m, kind)
  BY DEF RejectLine, ReplyKind
<1>2. DispatchOnReader(m) =>
        \/ \E kind \in ReplyKind : SendMessage(m, kind)
        \/ ~NeedsAnswer(m) /\ UNCHANGED replies
  BY ResponseKinds DEF DispatchOnReader, NeedsAnswer
<1>3. HandleToolsCallBatch(m) =>
        \/ \E kind \in ReplyKind : SendMessage(m, kind)
        \/ UNCHANGED replies /\ (NeedsAnswer(m) => mpc' = "batch" /\ mmsg' = m)
  <2> DEFINE kind == CASE ~m_Initialized       -> "notInitialized"
                       [] m.params = "missing" -> "invalidParams"
                       [] OTHER                -> "result"
  <2>1. kind \in ReplyKind
    BY DEF ReplyKind
  <2> QED
    BY <2>1 DEF HandleToolsCallBatch, NeedsAnswer
<1>4. ThrowOnReader(m) \/ SubmitCall(m) \/ CallOnReader(m) \/ CancelLookup(m)
        => UNCHANGED replies
  BY DEF ThrowOnReader, SubmitCall, CallOnReader, CancelLookup
<1> QED
  BY <1>1, <1>2, <1>3, <1>4 DEF ReadLine

\* A line is answered at once, is nobody's to answer, or is handed on.
LEMMA LinesAccounted ==
    ASSUME TransportIInv, Accounted, NEW m \in Msg, ReadLine(m)
    PROVE  Accounted'
<1>1. /\ mpc = "read" /\ received' = received \cup {m} /\ Alive
      /\ replies \in [Msg -> Seq(ReplyKind)] /\ received \subseteq Msg
  BY DEF ReadLine, RejectLine, ThrowOnReader, DispatchOnReader, SubmitCall, CallOnReader,
         HandleToolsCallBatch, CancelLookup, Getline, Alive, TransportIInv, TypeOK
<1>2. \A o \in Msg : replies[o] # <<>> => replies'[o] # <<>>
  <2>1. CASE UNCHANGED replies
    BY <2>1
  <2>2. CASE \E kind \in ReplyKind : SendMessage(m, kind)
    BY <1>1, <2>2, Sent
  <2> QED
    BY <2>1, <2>2, LineAnswer
<1>3. Queued \subseteq Queued' /\ (m.method = "tools/call" /\ m.hasId => m \in Queued')
  <2>1. CASE SubmitCall(m)
    <3>1. queue \in Seq(Msg) /\ queue' = Append(queue, m)
      BY <2>1 DEF SubmitCall, Pool!Submit, TransportIInv, TypeOK
    <3>2. /\ Len(queue) \in Nat /\ Len(queue') = Len(queue) + 1
          /\ \A i \in 1 .. Len(queue) : queue'[i] = queue[i]
          /\ queue'[Len(queue) + 1] = m
      BY <3>1, QueueAppend
    <3>3. \A i \in 1 .. Len(queue) : i \in 1 .. Len(queue')
      BY <3>2
    <3>4. Len(queue) + 1 \in 1 .. Len(queue')
      BY <3>2
    <3> QED
      BY <3>2, <3>3, <3>4 DEF Queued
  <2>2. CASE ~SubmitCall(m)
    <3>1. UNCHANGED queue /\ ~(m.method = "tools/call" /\ m.hasId)
      BY <2>2 DEF ReadLine, RejectLine, ThrowOnReader, Unchecked, DispatchOnReader,
                  CallOnReader, HandleToolsCallBatch, CancelLookup, poolVars
    <3> QED
      BY <3>1 DEF Queued
  <2> QED
    BY <2>1, <2>2
<1>4. UNCHANGED <<running, swallowed>>
  BY DEF ReadLine, RejectLine, ThrowOnReader, DispatchOnReader, SubmitCall, CallOnReader,
         HandleToolsCallBatch, CancelLookup, poolVars, Pool!Submit
<1>5. \A o \in received : InHand(o) => InHand(o)'
  BY <1>1, <1>3, <1>4 DEF InHand
<1>6. ASSUME NeedsAnswer(m), Alive' PROVE replies'[m] # <<>> \/ InHand(m)'
  <2>1. m.hasId /\ m.method \notin {"notifications/initialized", "notifications/cancelled"}
    BY <1>6 DEF NeedsAnswer
  <2>2. CASE \E kind \in ReplyKind : SendMessage(m, kind)
    BY <1>1, <2>2, Sent
  <2>3. CASE m \in Queued'
    BY <2>3 DEF InHand
  <2>4. CASE mpc' = "batch" /\ mmsg' = m
    BY <2>4 DEF InHand
  <2> QED
    BY <1>3, <1>6, <2>1, <2>2, <2>3, <2>4, LineAnswer
    DEF ReadLine, RejectLine, ThrowOnReader, DispatchOnReader, SubmitCall, CallOnReader,
        HandleToolsCallBatch, CancelLookup, Alive
<1> QED
  <2> SUFFICES ASSUME Alive', NEW o \in received', NeedsAnswer(o)
               PROVE  replies'[o] # <<>> \/ InHand(o)'
    BY DEF Accounted, NeedsAnswer
  <2>1. CASE o = m
    BY <1>6, <2>1
  <2>2. CASE o # m
    BY <1>1, <1>2, <1>5, <2>2 DEF Accounted
  <2> QED
    BY <2>1, <2>2

\* The reader lets go of its batch as it answers it.
LEMMA ReaderAccounted ==
    ASSUME TransportIInv, Accounted, ReaderStep \/ GetlineEof \/ Stop
    PROVE  Accounted'
<1>1. replies \in [Msg -> Seq(ReplyKind)] /\ received \subseteq Msg
  BY DEF TransportIInv, TypeOK
<1>2. CASE BatchEnd
  <2>1. mpc = "batch" /\ Alive /\ mmsg \in received
    BY <1>2 DEF BatchEnd, Alive, TransportIInv, Calls
  <2>2. UNCHANGED <<queue, running, received, swallowed>>
    BY <1>2 DEF BatchEnd, poolVars, inputVars
  <2>3. CASE mmsg.hasId
    <3>1. SendMessage(mmsg, "result")
      BY <1>2, <2>3 DEF BatchEnd
    <3>2. /\ replies'[mmsg] # <<>>
          /\ \A o \in Msg : replies[o] # <<>> => replies'[o] # <<>>
      BY <1>1, <2>1, <3>1, Sent DEF ReplyKind
    <3> QED
      BY <2>1, <2>2, <3>2, StillAccounted DEF InHand, Queued
  <2>4. CASE ~mmsg.hasId
    <3>1. UNCHANGED replies
      BY <1>2, <2>4 DEF BatchEnd
    <3>2. \A m \in received : NeedsAnswer(m) => m # mmsg
      BY <2>4 DEF NeedsAnswer
    <3> QED
      BY <2>1, <2>2, <3>1, <3>2, StillAccounted DEF InHand, Queued
  <2> QED
    BY <2>3, <2>4
<1>3. CASE BatchThrows
  BY <1>3 DEF BatchThrows, Accounted, Alive
<1>4. CASE ~BatchEnd /\ ~BatchThrows
  <2>1. /\ Alive /\ UNCHANGED <<queue, running, received, replies, swallowed>>
        /\ mpc = "batch" => UNCHANGED <<mpc, mmsg>>
    BY <1>4 DEF ReaderStep, GetlineEof, Stop, RunStart, LoopTop, CancelDeliver, RunReturn,
                poolVars, inputVars, Alive
  <2> QED
    BY <2>1, StillAccounted DEF InHand, Queued
<1> QED
  BY <1>2, <1>3, <1>4

\* A worker that takes a call has it, and lets go of it as it answers it.
LEMMA WorkersAccounted ==
    ASSUME TransportIInv, Accounted,
           \/ \E w \in Worker : TakeCall(w)
           \/ \E th \in Thread : CallStep(th)
    PROVE  Accounted'
<1>1. /\ replies \in [Msg -> Seq(ReplyKind)] /\ received \subseteq Msg /\ Alive
      /\ running \in [Worker -> Msg \cup {NoMsg}] /\ Main \notin Worker
      /\ UNCHANGED received
  BY TransportAssumption DEF TransportIInv, TypeOK, TakeCall, CallStep, RefuseCall,
     CallThrowsEarly, RegisterCall, ChainCall, EndCall, FinishCall, inputVars
<1>2. ASSUME NEW w \in Worker, TakeCall(w) PROVE Accounted'
  <2>1. /\ running[w] = NoMsg /\ queue # <<>> /\ queue' = Tail(queue)
        /\ running' = [running EXCEPT ![w] = Head(queue)]
        /\ UNCHANGED <<replies, mpc, mmsg, swallowed>>
    BY <1>2 DEF TakeCall, Pool!Start
  <2>2. Queued = Queued' \cup {Head(queue)}
    BY <2>1, Taken DEF TransportIInv
  <2>3. \A m \in received : m # NoMsg
    BY <1>1, TransportAssumption
  <2>4. \A m \in received : InHand(m) => InHand(m)'
    BY <1>1, <2>1, <2>2, <2>3 DEF InHand
  <2> QED
    BY <1>1, <2>1, <2>4, StillAccounted
<1>3. ASSUME NEW th \in Thread, FinishCall(th) PROVE Accounted'
  <2>1. stage[th] = "reply" /\ UNCHANGED queue
    BY <1>3 DEF FinishCall, poolVars, Pool!Finish
  <2>2. CASE th = Main
    <3>1. /\ UNCHANGED <<running, replies, swallowed>> /\ mpc = "call"
      BY <1>3, <2>1, <2>2 DEF FinishCall, poolVars, TransportIInv, Calls
    <3> QED
      BY <1>1, <2>1, <3>1, StillAccounted DEF InHand, Queued
  <2>3. CASE th # Main
    <3>1. /\ th \in Worker /\ running[th] \in Msg
          /\ SendMessage(running[th], reply[th]) /\ Swallow(th)
          /\ running' = [running EXCEPT ![th] = NoMsg] /\ UNCHANGED <<mpc, mmsg>>
          /\ reply[th] # "unencodable" => reply[th] \in ReplyKind
      BY <1>1, <1>3, <2>3 DEF FinishCall, Pool!Finish, Thread, TransportIInv, TypeOK
    <3>2. /\ replies'[running[th]] # <<>> \/ running[th] \in swallowed'
          /\ \A o \in Msg : replies[o] # <<>> => replies'[o] # <<>>
          /\ swallowed \subseteq swallowed'
      <4>1. CASE reply[th] = "unencodable"
        BY <3>1, <4>1 DEF SendMessage, Swallow
      <4>2. CASE reply[th] # "unencodable"
        BY <1>1, <3>1, <4>2, Sent DEF Swallow
      <4> QED
        BY <4>1, <4>2
    <3>3. \A w \in Worker : running'[w] = running[w] \/ w = th
      BY <1>1, <3>1
    <3>4. \A m \in received : InHand(m) => InHand(m)' \/ replies'[m] # <<>>
      BY <2>1, <3>1, <3>2, <3>3 DEF InHand, Queued
    <3> QED
      BY <1>1, <3>2, <3>4, StillAccounted
  <2> QED
    BY <2>2, <2>3
<1>4. ASSUME NEW th \in Thread, CallThrowsEarly(th) PROVE Accounted'
  <2>1. UNCHANGED <<queue, replies, mmsg>> /\ stage[th] = "gate"
    BY <1>4 DEF CallThrowsEarly, Admitted, poolVars, Pool!Finish
  <2>2. CASE th = Main
    BY <1>4, <2>2 DEF CallThrowsEarly, Accounted, Alive
  <2>3. CASE th # Main
    <3>1. /\ th \in Worker /\ swallowed' = swallowed \cup {running[th]} /\ UNCHANGED mpc
          /\ running' = [running EXCEPT ![th] = NoMsg]
      BY <1>1, <1>4, <2>1, <2>3 DEF CallThrowsEarly, Pool!Finish, Thread, MsgOf
    <3>2. \A w \in Worker : running'[w] = running[w] \/ w = th
      BY <1>1, <3>1
    <3>3. \A m \in received : InHand(m) => InHand(m)'
      BY <2>1, <3>1, <3>2 DEF InHand, Queued
    <3> QED
      BY <1>1, <2>1, <3>3, StillAccounted
  <2> QED
    BY <2>2, <2>3
<1>5. ASSUME NEW th \in Thread,
             RefuseCall(th) \/ RegisterCall(th) \/ ChainCall(th) \/ EndCall(th)
      PROVE  Accounted'
  <2>1. UNCHANGED <<queue, running, replies, mpc, mmsg, swallowed>>
    BY <1>5 DEF RefuseCall, RegisterCall, ChainCall, EndCall, poolVars
  <2> QED
    BY <1>1, <2>1, StillAccounted DEF InHand, Queued
<1> QED
  BY <1>2, <1>3, <1>4, <1>5 DEF CallStep

\* NoRequestLost always: as long as the process lives, a request read has its
\* answer, is in somebody's hands, through the queue and the workers, or threw
\* in the pool; what RequestsAnswered rests on.
THEOREM NothingForgotten == Spec => []NoRequestLost
<1>1. Init => Accounted
  BY DEF Init, Accounted
<1>2. TransportIInv /\ Accounted /\ [Next]_vars => Accounted'
  <2>1. ASSUME TransportIInv, Accounted, Next PROVE Accounted'
    BY <2>1, LinesAccounted, ReaderAccounted, WorkersAccounted DEF Next
  <2>2. ASSUME Accounted, UNCHANGED vars PROVE Accounted'
    BY <2>2 DEF vars, Accounted, InHand, Queued, Alive
  <2> QED
    BY <2>1, <2>2
<1>3. TransportIInv /\ Accounted => NoRequestLost
  <2> SUFFICES ASSUME TransportIInv, Accounted, Alive, NEW m \in received,
                      NeedsAnswer(m), replies[m] = <<>>
               PROVE  \/ \E i \in DOMAIN queue : queue[i] = m
                      \/ \E w \in Worker : running[w] = m
                      \/ mpc = "batch" /\ mmsg = m
                      \/ m \in swallowed
    BY DEF NoRequestLost
  <2>1. InHand(m)
    BY DEF Accounted
  <2>2. queue \in Seq(Msg) /\ DOMAIN queue = 1 .. Len(queue)
    BY DEF TransportIInv, TypeOK
  <2> QED
    BY <2>1, <2>2 DEF InHand, Queued
<1> QED
  BY <1>1, <1>2, <1>3, TransportInvariant, PTL DEF Spec

-----------------------------------------------------------------------------
(* Which requests are lost                                                 *)

\* The request got past everything that refuses a call with a response.
ReachedTool(m) == m_Initialized /\ m.params # "missing" /\ m.tool \in Registered

\* A worker executes, or fails to encode the result of, only such a call.
Lost ==
    /\ \A m \in swallowed : m \in done /\ replies[m] = <<>> /\ ReachedTool(m)
    /\ \A w \in Worker :
          stage[w] = "run" \/ (stage[w] = "reply" /\ reply[w] = "unencodable")
              => ReachedTool(running[w])

\* Nothing happens to a request the pool is done with: the reader answers only
\* the line it reads and its batch, and a worker only its own call.
LEMMA DoneStays ==
    ASSUME TransportIInv, Next
    PROVE  /\ \A m \in done : m \in done' /\ replies'[m] = replies[m]
           /\ m_Initialized => m_Initialized'
<1> USE DEF TransportIInv
<1>1. /\ replies \in [Msg -> Seq(ReplyKind)] /\ done \subseteq Msg
      /\ \A m \in done : m \in received /\ m.method = "tools/call"
  BY DEF TypeOK, Calls
<1>2. \A o, kind : o \notin done /\ SendMessage(o, kind) =>
         \A m \in done : replies'[m] = replies[m]
  BY <1>1 DEF SendMessage
<1>3. ASSUME NEW m \in Msg, ReadLine(m)
      PROVE  /\ done' = done /\ (m_Initialized => m_Initialized')
             /\ \A o \in done : replies'[o] = replies[o]
  <2>1. done' = done /\ m \in unread
    BY <1>3 DEF ReadLine, RejectLine, ThrowOnReader, DispatchOnReader, SubmitCall,
       CallOnReader, HandleToolsCallBatch, CancelLookup, Getline, poolVars, Pool!Submit
  <2>2. m_Initialized => m_Initialized'
    BY <1>3, Zenon DEF ReadLine, RejectLine, ThrowOnReader, DispatchOnReader, SubmitCall,
       CallOnReader, HandleToolsCallBatch, CancelLookup
  <2>3. m \notin done
    BY <1>1, <2>1 DEF Calls
  <2> QED
    BY <1>2, <1>3, <2>1, <2>2, <2>3, LineAnswer
<1>4. ASSUME ReaderStep \/ GetlineEof \/ Stop
      PROVE  /\ UNCHANGED <<done, m_Initialized>>
             /\ \A o \in done : replies'[o] = replies[o]
  <2>1. UNCHANGED <<done, m_Initialized>>
    BY <1>4 DEF ReaderStep, GetlineEof, Stop, RunStart, LoopTop, BatchEnd, BatchThrows,
       CancelDeliver, RunReturn, poolVars
  <2>2. CASE BatchEnd
    <3>1. mmsg \notin done
      BY <1>1, <2>2 DEF BatchEnd, Calls
    <3> QED
      BY <1>2, <2>1, <2>2, <3>1 DEF BatchEnd
  <2>3. CASE ~BatchEnd
    BY <1>4, <2>1, <2>3 DEF ReaderStep, GetlineEof, Stop, RunStart, LoopTop, BatchThrows,
       CancelDeliver, RunReturn
  <2> QED
    BY <2>2, <2>3
<1>5. ASSUME NEW w \in Worker, TakeCall(w)
      PROVE  UNCHANGED <<done, m_Initialized, replies>>
  BY <1>5 DEF TakeCall, Pool!Start
<1>6. ASSUME NEW th \in Thread, CallStep(th)
      PROVE  /\ done \subseteq done' /\ UNCHANGED m_Initialized
             /\ \A o \in done : replies'[o] = replies[o]
  <2>1. done \subseteq done' /\ UNCHANGED m_Initialized
    BY <1>6 DEF CallStep, RefuseCall, CallThrowsEarly, RegisterCall, ChainCall, EndCall,
       FinishCall, poolVars, Pool!Finish
  <2>2. CASE UNCHANGED replies
    BY <2>1, <2>2
  <2>3. CASE th \in Worker /\ SendMessage(running[th], reply[th])
    BY <1>2, <2>1, <2>3 DEF Placed
  <2> QED
    BY <1>6, <2>2, <2>3 DEF CallStep, RefuseCall, CallThrowsEarly, RegisterCall, ChainCall,
       EndCall, FinishCall, Thread
<1> QED
  BY <1>3, <1>4, <1>5, <1>6 DEF Next

\* Which calls a step gives up, and where they were.
LEMMA GivenUp ==
    ASSUME TransportIInv, Lost, Next
    PROVE  \A m \in swallowed' : \/ m \in swallowed
                                 \/ m \in done' /\ replies'[m] = <<>> /\ ReachedTool(m)
<1> USE DEF TransportIInv
<1>1. CASE UNCHANGED swallowed
  BY <1>1
<1>2. ASSUME NEW th \in Thread, CallThrowsEarly(th) \/ FinishCall(th), ~UNCHANGED swallowed
      PROVE  /\ swallowed' = swallowed \cup {running[th]}
             /\ running[th] \in done' /\ replies'[running[th]] = <<>>
             /\ ReachedTool(running[th])
  <2>1. th # Main /\ th \in Worker
    BY <1>2 DEF CallThrowsEarly, FinishCall, Thread
  <2>2. running[th] \in done' /\ MsgOf(th) = running[th] /\ stage[th] # "idle"
    BY <1>2, <2>1 DEF CallThrowsEarly, FinishCall, Pool!Finish, MsgOf, Admitted
  <2>3. running[th] # NoMsg
    BY <2>1, <2>2 DEF Calls
  <2>4. replies[running[th]] = <<>>
    BY <2>1, <2>3 DEF Answers
  <2>5. CASE CallThrowsEarly(th)
    BY <2>1, <2>2, <2>4, <2>5 DEF CallThrowsEarly, Admitted, ReachedTool
  <2>6. CASE FinishCall(th)
    <3>1. reply[th] = "unencodable" /\ stage[th] = "reply"
      BY <1>2, <2>1, <2>6 DEF FinishCall, Swallow
    <3>2. UNCHANGED replies /\ swallowed' = swallowed \cup {running[th]}
      BY <2>1, <2>6, <3>1 DEF FinishCall, Swallow, SendMessage
    <3> QED
      BY <2>1, <2>2, <2>4, <3>1, <3>2 DEF Lost
  <2> QED
    BY <1>2, <2>5, <2>6
<1>3. \/ UNCHANGED swallowed
      \/ \E th \in Thread : CallThrowsEarly(th) \/ FinishCall(th)
  BY DEF Next, ReadLine, RejectLine, ThrowOnReader, DispatchOnReader, SubmitCall,
     CallOnReader, HandleToolsCallBatch, CancelLookup, ReaderStep, GetlineEof, Stop,
     RunStart, LoopTop, BatchEnd, BatchThrows, CancelDeliver, RunReturn, TakeCall,
     CallStep, RefuseCall, RegisterCall, ChainCall, EndCall
<1> QED
  BY <1>1, <1>2, <1>3

\* The calls the workers execute were admitted, and chaining keeps the message.
LEMMA WorkersReach ==
    ASSUME TransportIInv, Lost, Next, NEW w \in Worker,
           stage'[w] = "run" \/ (stage'[w] = "reply" /\ reply'[w] = "unencodable")
    PROVE  ReachedTool(running[w]) /\ running'[w] = running[w]
<1> USE DEF TransportIInv
<1>1. /\ stage \in [Thread -> {"idle", "gate", "run", "reply"}]
      /\ reply \in [Thread -> ReplyKind \cup {"unencodable"}]
      /\ running \in [Worker -> Msg \cup {NoMsg}]
      /\ w \in Thread /\ w # Main /\ Main \in Thread
  BY TransportAssumption DEF TypeOK, Thread
<1>2. ASSUME stage'[w] = stage[w], reply'[w] = reply[w], running'[w] = running[w]
      PROVE  ReachedTool(running[w]) /\ running'[w] = running[w]
  BY <1>2 DEF Lost
<1>3. ASSUME NEW m \in Msg, ReadLine(m)
      PROVE  stage'[w] = stage[w] /\ reply'[w] = reply[w] /\ running'[w] = running[w]
  BY <1>1, <1>3 DEF ReadLine, RejectLine, ThrowOnReader, DispatchOnReader, SubmitCall,
     CallOnReader, HandleToolsCallBatch, CancelLookup, poolVars, callVars, Pool!Submit
<1>4. ASSUME ReaderStep \/ GetlineEof \/ Stop
      PROVE  stage'[w] = stage[w] /\ reply'[w] = reply[w] /\ running'[w] = running[w]
  BY <1>4 DEF ReaderStep, GetlineEof, Stop, RunStart, LoopTop, BatchEnd, BatchThrows,
     CancelDeliver, RunReturn, poolVars, callVars
<1>5. ASSUME NEW v \in Worker, TakeCall(v)
      PROVE  /\ v # w
             /\ stage'[w] = stage[w] /\ reply'[w] = reply[w] /\ running'[w] = running[w]
  BY <1>1, <1>5 DEF TakeCall, Pool!Start, Thread
<1>6. ASSUME NEW th \in Thread, CallStep(th), th # w
      PROVE  stage'[w] = stage[w] /\ reply'[w] = reply[w] /\ running'[w] = running[w]
  BY <1>1, <1>6 DEF CallStep, RefuseCall, CallThrowsEarly, RegisterCall, ChainCall, EndCall,
     FinishCall, poolVars, Pool!Finish
<1>7. ASSUME CallStep(w)
      PROVE  ReachedTool(running[w]) /\ running'[w] = running[w]
  <2>1. MsgOf(w) = running[w]
    BY <1>1 DEF MsgOf
  <2>2. CASE RefuseCall(w)
    BY <1>1, <2>2 DEF RefuseCall
  <2>3. CASE CallThrowsEarly(w) \/ FinishCall(w)
    BY <1>1, <2>3 DEF CallThrowsEarly, FinishCall
  <2>4. CASE RegisterCall(w)
    BY <2>1, <2>4 DEF RegisterCall, Admitted, ReachedTool, poolVars
  <2>5. CASE ChainCall(w) \/ EndCall(w)
    BY <2>5 DEF ChainCall, EndCall, Lost, poolVars
  <2> QED
    BY <1>7, <2>2, <2>3, <2>4, <2>5 DEF CallStep
<1> QED
  BY <1>2, <1>3, <1>4, <1>5, <1>6, <1>7 DEF Next

\* LostOnlyInPool always: a call that ends without an answer had been admitted,
\* so that its tool, or the storing of its arguments, is what threw; whatever
\* else is wrong with a request is answered.
THEOREM OnlyAdmittedLost == Spec => []LostOnlyInPool
<1>1. Init => Lost
  BY TransportAssumption DEF Init, Lost, Thread
<1>2. TransportIInv /\ Lost /\ [Next]_vars => Lost'
  <2>1. ASSUME TransportIInv, Lost, Next PROVE Lost'
    <3>1. /\ \A m \in done : m \in done' /\ replies'[m] = replies[m]
          /\ \A m : ReachedTool(m) => ReachedTool(m)'
      BY <2>1, DoneStays DEF ReachedTool
    <3>2. \A m \in swallowed' : m \in done' /\ replies'[m] = <<>> /\ ReachedTool(m)'
      BY <2>1, <3>1, GivenUp DEF Lost
    <3>3. ASSUME NEW w \in Worker,
                 stage'[w] = "run" \/ (stage'[w] = "reply" /\ reply'[w] = "unencodable")
          PROVE  ReachedTool(running[w])'
      BY <2>1, <3>1, <3>3, WorkersReach DEF ReachedTool
    <3> QED
      BY <3>2, <3>3 DEF Lost
  <2>2. ASSUME Lost, UNCHANGED vars PROVE Lost'
    BY <2>2 DEF vars, Lost, ReachedTool
  <2> QED
    BY <2>1, <2>2
<1>3. Lost => LostOnlyInPool
  BY DEF Lost, LostOnlyInPool, ReachedTool
<1> QED
  BY <1>1, <1>2, <1>3, TransportInvariant, PTL DEF Spec

\* AnswersInv always: reader and workers between them answer no message twice,
\* forget none that needs an answer, and lose none but calls that were admitted
\* and threw in the pool.
THEOREM AnswersAreExact == Spec => []AnswersInv
  BY OneAnswer, NothingForgotten, OnlyAdmittedLost, PTL DEF AnswersInv

-----------------------------------------------------------------------------
(* The pool                                                                *)

\* Each step of the transport is a step of its pool or leaves the pool alone.
LEMMA PoolStep == [Next]_vars => [Pool!Next]_(Pool!poolVars)
<1> SUFFICES ASSUME [Next]_vars PROVE [Pool!Next]_(Pool!poolVars)
  OBVIOUS
<1> DEFINE Idle == UNCHANGED <<queue, running, done>>
<1>1. Idle => [Pool!Next]_(Pool!poolVars)
  BY DEF Pool!poolVars
<1>2. ASSUME NEW m \in Msg, ReadLine(m)
      PROVE  Idle \/ Pool!Submit(m)
  BY <1>2 DEF ReadLine, RejectLine, ThrowOnReader, DispatchOnReader, SubmitCall,
     CallOnReader, HandleToolsCallBatch, CancelLookup, poolVars
<1>3. GetlineEof \/ Stop \/ ReaderStep => Idle
  BY DEF GetlineEof, Stop, ReaderStep, RunStart, LoopTop, BatchEnd, BatchThrows,
     CancelDeliver, RunReturn, poolVars
<1>4. ASSUME NEW th \in Thread, CallStep(th)
      PROVE  Idle \/ (th \in Worker /\ Pool!Finish(th))
  BY <1>4 DEF CallStep, RefuseCall, CallThrowsEarly, RegisterCall, ChainCall,
     EndCall, FinishCall, poolVars, Thread
<1>5. ASSUME NEW w \in Worker, TakeCall(w)
      PROVE  Pool!Start(w)
  BY <1>5 DEF TakeCall
<1>6. UNCHANGED vars => Idle
  BY DEF vars
<1> HIDE DEF Idle
<1> QED
  BY <1>1, <1>2, <1>3, <1>4, <1>5, <1>6 DEF Next, Pool!Next

\* The transport uses the pool only as TaskPool lets it, which is what
\* ThreadPool implements.
THEOREM TransportUsesPool == Spec => Pool!Spec
<1>1. Init => Pool!Init
  BY DEF Init
<1> QED
  BY <1>1, PoolStep, PTL DEF Spec, Pool!Spec

\* Run never hands the pool a call it already has: the guard of Submit, which
\* packaged tasks need, takes nothing away from what the reader does.
THEOREM CallsAreNew == Spec => [](\A m \in unread : ~Pool!IsAccepted(m))
<1>1. TransportIInv => \A m \in unread : ~Pool!IsAccepted(m)
  <2> SUFFICES ASSUME TransportIInv, NEW m \in unread, Pool!IsAccepted(m) PROVE FALSE
    OBVIOUS
  <2>1. m \in Msg /\ m \notin received /\ m # NoMsg /\ queue \in Seq(Msg)
    BY TransportAssumption DEF TransportIInv, TypeOK, Calls
  <2>2. m \notin inFlightCalls
    BY <2>1 DEF TransportIInv, Calls
  <2>3. m \notin Queued /\ m \notin done /\ \A w \in Worker : running[w] # m
    BY <2>1, <2>2 DEF TransportIInv, Calls
  <2>4. \A i \in DOMAIN queue : queue[i] # m
    BY <2>1, <2>3 DEF Queued
  <2> QED
    BY <2>3, <2>4 DEF Pool!IsAccepted
<1> QED
  BY <1>1, TransportInvariant, PTL

-----------------------------------------------------------------------------
(***************************************************************************)
(* The subscriptions: one watcher while there is something to watch, none    *)
(* once Run has returned, and no notification without a subscription, for    *)
(* any set of resources and any number of changes, subscriptions and         *)
(* restarts.                                                                 *)
(*                                                                         *)
(* WatcherInv speaks of the reader between two requests and after Run.  It   *)
(* is carried across a request by what is known inside one: who holds        *)
(* m_SubscriptionMutex, and what the flag and the handle are at each step.   *)
(***************************************************************************)

\* The two critical sections that last: the scan, and the join in unsubscribe.
LockInv ==
    /\ mutex = "watcher" <=> thread = "alive" /\ wpc = "scan"
    /\ mutex = "reader" <=> rpc = "joinLocked"

\* A scan covers URIs of the set as it is: nobody erases one meanwhile.
ScanInv == wpc = "scan" /\ thread = "alive" => toScan \subseteq m_SubscribedUris

\* A watcher that has not been told to stop, exactly while there is something
\* to watch.
Watched ==
    IF m_SubscribedUris = {} THEN thread = "none"
    ELSE thread = "alive" /\ ~m_ResourceWatcherStop

\* The reader's place says what the flag, the handle and the set are.
RequestInv ==
    /\ rpc \in {"ready", "record"} => Watched
    /\ rpc = "start" =>
          /\ m_SubscribedUris # {}
          /\ thread = "none" \/ (thread = "alive" /\ ~m_ResourceWatcherStop)
    /\ rpc = "joinLocked" => m_SubscribedUris = {} /\ thread # "none"
    /\ rpc = "join" => thread # "none"
    /\ rpc \in {"joinLocked", "join", "returned"} => m_ResourceWatcherStop
    /\ rpc = "returned" => thread = "none"
    /\ thread = "exited" => wpc # "scan"

WatcherIInv == WatchTypeOK /\ LockInv /\ ScanInv /\ RequestInv

-----------------------------------------------------------------------------
LEMMA WatcherInit == WatchInit => WatcherIInv
<1> SUFFICES ASSUME WatchInit PROVE WatcherIInv
  OBVIOUS
<1>1. WatchTypeOK
  <2>1. 0 \in Stamp
    BY WatcherAssumption DEF Stamp
  <2> QED
    BY <2>1 DEF WatchInit, WatchTypeOK
<1> QED
  BY <1>1 DEF WatchInit, WatcherIInv, LockInv, ScanInv, RequestInv, Watched

\* The reader's two requests, up to where each gives up the processor.
LEMMA RequestsKeep ==
    ASSUME WatcherIInv, NEW u \in Uri,
           SubscribeCheck(u) \/ SubscribeRecord \/ StartResourceWatcher
           \/ Unsubscribe(u) \/ UnsubscribeJoined
    PROVE  WatcherIInv'
<1> USE DEF WatcherIInv, watcherVars
<1>1. CASE SubscribeCheck(u)
  <2>1. WatchTypeOK'
    BY <1>1 DEF SubscribeCheck, WatchTypeOK
  <2> QED
    BY <1>1, <2>1 DEF SubscribeCheck, LockInv, ScanInv, RequestInv, Watched
<1>2. CASE SubscribeRecord
  <2>1. WatchTypeOK'
    BY <1>2 DEF SubscribeRecord, WatchTypeOK
  <2>2. LockInv' /\ ScanInv'
    BY <1>2 DEF SubscribeRecord, LockInv, ScanInv
  <2>3. RequestInv'
    BY <1>2 DEF SubscribeRecord, RequestInv, Watched, WatchTypeOK
  <2> QED
    BY <2>1, <2>2, <2>3
<1>3. CASE StartResourceWatcher
  <2>1. WatchTypeOK'
    BY <1>3 DEF StartResourceWatcher, WatchTypeOK
  <2>2. LockInv' /\ ScanInv'
    BY <1>3 DEF StartResourceWatcher, LockInv, ScanInv
  <2>3. RequestInv'
    BY <1>3 DEF StartResourceWatcher, RequestInv, Watched, WatchTypeOK
  <2> QED
    BY <2>1, <2>2, <2>3
<1>4. CASE Unsubscribe(u)
  <2>1. WatchTypeOK'
    BY <1>4 DEF Unsubscribe, WatchTypeOK
  <2>2. LockInv' /\ ScanInv'
    BY <1>4 DEF Unsubscribe, LockInv, ScanInv, WatchTypeOK
  <2>3. RequestInv'
    BY <1>4 DEF Unsubscribe, RequestInv, Watched, WatchTypeOK
  <2> QED
    BY <2>1, <2>2, <2>3
<1>5. CASE UnsubscribeJoined
  <2>1. WatchTypeOK'
    BY <1>5 DEF UnsubscribeJoined, WatchTypeOK
  <2> QED
    BY <1>5, <2>1 DEF UnsubscribeJoined, LockInv, ScanInv, RequestInv, Watched
<1> QED
  BY <1>1, <1>2, <1>3, <1>4, <1>5

\* The end of Run.
LEMMA WatchEndKeeps ==
    ASSUME WatcherIInv, ReadEof \/ EofJoined
    PROVE  WatcherIInv'
<1> USE DEF WatcherIInv, watcherVars
<1>1. WatchTypeOK'
  BY DEF ReadEof, EofJoined, WatchTypeOK
<1>2. LockInv' /\ ScanInv'
  BY DEF ReadEof, EofJoined, LockInv, ScanInv, WatchTypeOK
<1>3. RequestInv'
  BY DEF ReadEof, EofJoined, RequestInv, Watched, WatchTypeOK
<1> QED
  BY <1>1, <1>2, <1>3

\* The watcher thread.
LEMMA WatcherKeeps ==
    ASSUME WatcherIInv, WatcherStep
    PROVE  WatcherIInv'
<1> USE DEF WatcherIInv
<1>1. CASE WatcherTest
  <2>1. WatchTypeOK'
    BY <1>1 DEF WatcherTest, WatchTypeOK
  <2>2. LockInv' /\ ScanInv'
    BY <1>1 DEF WatcherTest, LockInv, ScanInv
  <2>3. RequestInv'
    BY <1>1 DEF WatcherTest, RequestInv, Watched, WatchTypeOK
  <2> QED
    BY <2>1, <2>2, <2>3
<1>2. CASE WatcherLock \/ WatcherUnlock
  <2>1. WatchTypeOK'
    BY <1>2 DEF WatcherLock, WatcherUnlock, WatchTypeOK
  <2>2. LockInv' /\ ScanInv'
    BY <1>2 DEF WatcherLock, WatcherUnlock, LockInv, ScanInv
  <2>3. RequestInv'
    BY <1>2 DEF WatcherLock, WatcherUnlock, RequestInv, Watched
  <2> QED
    BY <2>1, <2>2, <2>3
<1>3. ASSUME NEW u \in Uri, WatcherScan(u) PROVE WatcherIInv'
  <2>1. WatchTypeOK'
    BY <1>3 DEF WatcherScan, WatchTypeOK, ScanInv
  <2>2. LockInv' /\ ScanInv' /\ RequestInv'
    BY <1>3 DEF WatcherScan, LockInv, ScanInv, RequestInv, Watched
  <2> QED
    BY <2>1, <2>2
<1> QED
  BY <1>1, <1>2, <1>3 DEF WatcherStep

\* The client and the file system.
LEMMA EnvironmentKeeps ==
    ASSUME WatcherIInv, NEW u \in Uri,
           ClientCloses \/ FileWritten(u) \/ FileRemoved(u)
    PROVE  WatcherIInv'
<1> USE DEF WatcherIInv, watcherVars
<1>1. WatchTypeOK'
  <2>1. CASE ClientCloses
    BY <2>1 DEF ClientCloses, WatchTypeOK
  <2>2. CASE FileWritten(u)
    <3>1. disk[u].stamp + 1 \in Stamp
      BY <2>2, WatcherAssumption DEF FileWritten, WatchTypeOK, Stamp
    <3>2. disk' \in [Uri -> [exists : BOOLEAN, stamp : Stamp]]
      BY <2>2, <3>1 DEF FileWritten, WatchTypeOK
    <3> QED
      BY <2>2, <3>2 DEF FileWritten, WatchTypeOK
  <2>3. CASE FileRemoved(u)
    BY <2>3 DEF FileRemoved, WatchTypeOK
  <2> QED
    BY <2>1, <2>2, <2>3
<1>2. LockInv' /\ ScanInv' /\ RequestInv'
  BY DEF ClientCloses, FileWritten, FileRemoved, LockInv, ScanInv, RequestInv, Watched
<1> QED
  BY <1>1, <1>2

\* WatcherIInv is inductive.
LEMMA WatcherInductive == WatcherIInv /\ [WatchNext]_watchVars => WatcherIInv'
<1> SUFFICES ASSUME WatcherIInv, [WatchNext]_watchVars PROVE WatcherIInv'
  OBVIOUS
<1>1. CASE WatchNext
  <2>1. Uri # {}
    BY DEF WatcherIInv, WatchTypeOK
  <2> QED
    BY <1>1, <2>1, RequestsKeep, WatchEndKeeps, WatcherKeeps, EnvironmentKeeps
    DEF WatchNext, SubscriptionStep
<1>2. CASE UNCHANGED watchVars
  BY <1>2 DEF watchVars, WatcherIInv, WatchTypeOK, LockInv, ScanInv, RequestInv, Watched
<1> QED
  BY <1>1, <1>2

LEMMA WatcherInvariant == WatchSpec => []WatcherIInv
  BY WatcherInit, WatcherInductive, PTL DEF WatchSpec

-----------------------------------------------------------------------------
\* WatcherInv always: however subscribe, unsubscribe and EOF interleave with
\* the watcher's scan, Run returns with the watcher joined and the mutex free,
\* and between two requests a live watcher exists exactly while something is
\* subscribed.
THEOREM WatcherLifetime == WatchSpec => []WatcherInv
<1>1. WatcherIInv => WatcherInv
  BY DEF WatcherIInv, WatcherInv, WatchTypeOK, LockInv, RequestInv, Watched,
         NoThreadOutlivesRun, WatchedWhileSubscribed
<1> QED
  BY <1>1, WatcherInvariant, PTL

\* NotifiesOnlySubscribed: every resources/updated is for a URI subscribed at
\* that moment, because the scan keeps unsubscribe out by holding the mutex.
THEOREM UpdatesOnlySubscribed == WatchSpec => NotifiesOnlySubscribed
<1> DEFINE Fair == \A u \in Uri : notified'[u] # notified[u] =>
                      u \in m_SubscribedUris /\ m_SubscribedMtimes'[u] = notified'[u]
<1>1. WatcherIInv /\ [WatchNext]_watchVars => [Fair]_watchVars
  <2> SUFFICES ASSUME WatcherIInv, WatchNext, NEW u \in Uri, notified'[u] # notified[u]
               PROVE  u \in m_SubscribedUris /\ m_SubscribedMtimes'[u] = notified'[u]
    OBVIOUS
  <2>1. PICK w \in Uri : WatcherScan(w)
    BY DEF WatchNext, SubscriptionStep, WatcherStep, SubscribeCheck, Unsubscribe, FileWritten,
           FileRemoved, ClientCloses, SubscribeRecord, StartResourceWatcher,
           UnsubscribeJoined, ReadEof, EofJoined, WatcherTest, WatcherLock,
           WatcherUnlock, watcherVars
  <2>2. w = u
    BY <2>1 DEF WatcherScan, WatcherIInv, WatchTypeOK
  <2> QED
    BY <2>1, <2>2 DEF WatcherScan, WatcherIInv, WatchTypeOK, ScanInv
<1> QED
  BY <1>1, WatcherInvariant, PTL DEF WatchSpec, NotifiesOnlySubscribed

\* The reader waits for the watcher, the watcher for the mutex.
ReaderBlocked ==
    /\ rpc \in {"joinLocked", "join"} /\ thread # "exited"
    /\ wpc = "lock" /\ mutex # "free"

\* The one deadlock there is: a reader in join() behind a watcher that cannot
\* move is unsubscribing the last URI.  The join at EOF, without the mutex,
\* cannot block; this is the safety half of ReturnsUnlessJoinDeadlock.
THEOREM OnlyUnsubscribeDeadlocks == WatchSpec => [](ReaderBlocked => JoinDeadlock)
<1>1. WatcherIInv => (ReaderBlocked => JoinDeadlock)
  BY DEF WatcherIInv, WatchTypeOK, LockInv, RequestInv, ReaderBlocked, JoinDeadlock
<1> QED
  BY <1>1, WatcherInvariant, PTL
=============================================================================
