--------------------------- MODULE StdioTransport ---------------------------
(***************************************************************************)
(* server/StdioTransport: one reader thread (Run) that answers most        *)
(* methods itself and hands tools/call requests to the shared pool, whose  *)
(* workers execute them through CommandRegistry::ExecuteWithChaining while *)
(* the reader goes on reading.  Shared between the threads: m_Initialized, *)
(* the in-flight map that notifications/cancelled consults, and the        *)
(* output.  resources/subscribe and /unsubscribe are in ResourceWatcher.   *)
(*                                                                         *)
(* A line of input is read the moment the client sends it; stdin's buffer  *)
(* is seen by nobody else.  A tool is what it does to its caller: return,  *)
(* report an error, throw, or ask for a chained call; and of the text of an *)
(* answer it matters only whether it is UTF-8, which dump() insists on.     *)
(***************************************************************************)
EXTENDS Naturals, Sequences

CONSTANTS Msg,          \* the lines the client may send, each at most once
          Sessions,     \* bound: the sets of lines of one session
          Key,          \* request ids as text, the keys of the in-flight map
          Tool,         \* tool names
          Registered,   \* the names CommandRegistry resolves
          Hanging,      \* registered tools whose execution may never return
          ChainingEnabled,
          MaxChainDepth,
          Worker,       \* threads of the shared pool
          Main,         \* the thread in Run
          NoMsg, NoTool, NoKey

Method == {"garbage", "invalid", "notString", "initialize", "notifications/initialized",
           "notifications/cancelled", "tools/list", "tools/call",
           "tools/call_batch", "prompts/list", "prompts/get",
           "resources/list", "resources/read", "other"}

\* What the handlers distinguish in the params of a message.
Params == {"good", "missing", "rejected", "broken", "badArguments", "empty"}

\* n tells equal lines apart; key is the id as text ("null" without an id);
\* target is the requestId of a notifications/cancelled.
MessageType == [n : Nat, method : Method, hasId : BOOLEAN, key : Key,
                tool : Tool \cup {NoTool}, target : Key \cup {NoKey},
                params : Params]

ASSUME TransportAssumption ==
    /\ Sessions \subseteq SUBSET Msg
    /\ Msg \subseteq MessageType /\ NoMsg \notin MessageType
    /\ Registered \subseteq Tool /\ NoTool \notin Tool
    /\ Hanging \subseteq Registered
    /\ NoKey \notin Key
    /\ ChainingEnabled \in BOOLEAN
    /\ MaxChainDepth \in Nat
    /\ Main \notin Worker

VARIABLES
    queue, running, done,  \* the shared pool, see TaskPool
    m_Running, m_Initialized,
    m_InFlightRequests,    \* key -> tool of the call registered under it
    mpc,                   \* where Run is
    mmsg,                  \* the message Run is working on
    unread,                \* lines the client may still send
    received,              \* lines Run has read
    inFlightCalls,         \* the calls whose futures Run holds
    stage,                 \* where each thread is in HandleToolsCall
    hop,                   \* the tool it executes and the chain depth
    reply,                 \* the response it is about to send
    replies,               \* every response written, per message
    told,                  \* <<tool, key>>: Cancel(key) reached that command
    early,                 \* history: calls read before initialize
    owed,                  \* history: what each cancelled request was executing
    swallowed              \* history: calls whose exception went into their future

poolVars  == <<queue, running, done>>
callVars  == <<stage, hop, reply, m_InFlightRequests>>
inputVars == <<unread, received, early>>
vars == <<queue, running, done, m_Running, m_Initialized, m_InFlightRequests,
          mpc, mmsg, unread, received, inFlightCalls, stage, hop, reply, replies, told,
          early, owed, swallowed>>

\* The shared pool stops only after main() has left Run.
Pool == INSTANCE TaskPool WITH Task <- Msg, NoTask <- NoMsg, closed <- FALSE

Thread == Worker \cup {Main}
NoHop == [tool |-> NoTool, depth |-> 0]
MsgOf(th) == IF th = Main THEN mmsg ELSE running[th]

\* A tool's own error is a result with isError set.
ReplyKind == {"result", "parseError", "invalidRequest",
              "notInitialized", "invalidParams", "internalError",
              "methodNotFound"}

Init ==
    /\ Pool!Init
    /\ m_Running = FALSE /\ m_Initialized = FALSE
    /\ m_InFlightRequests = [k \in Key |-> NoTool]
    /\ mpc = "start" /\ mmsg = NoMsg
    /\ unread \in Sessions /\ received = {} /\ inFlightCalls = {}
    /\ stage = [th \in Thread |-> "idle"]
    /\ hop = [th \in Thread |-> NoHop]
    /\ reply = [th \in Thread |-> "result"]
    /\ replies = [m \in Msg |-> <<>>]
    /\ told = {} /\ early = {} /\ owed = {} /\ swallowed = {}

\* SendMessage: the write mutex makes each line of output whole.  dump() throws
\* for a text that is not UTF-8, and nothing is written.
SendMessage(m, kind) ==
    replies' = IF kind = "unencodable" THEN replies
               ELSE [replies EXCEPT ![m] = Append(@, kind)]

-----------------------------------------------------------------------------
(* The handlers that only compute a response, by what they distinguish.    *)

HandleInitialize(m)    == "result"
HandleToolsList(m)     == "result"
HandlePromptsList(m)   == "result"
HandleResourcesList(m) == "result"

\* No name, no skill engine, no such prompt, or rendering throws.
HandlePromptsGet(m) ==
    IF m.params = "good" THEN "result" ELSE "invalidParams"

\* No uri, not advertised, not found, outside the root; or the root or the
\* file cannot be opened.
HandleResourcesRead(m) ==
    CASE m.params = "good"   -> "result"
      [] m.params = "broken" -> "internalError"
      [] OTHER               -> "invalidParams"

\* Dispatch for the methods the reader answers in one go.
Dispatch(m) ==
    CASE m.method = "initialize"     -> HandleInitialize(m)
      [] ~m_Initialized              -> "notInitialized"
      [] m.method = "tools/list"     -> HandleToolsList(m)
      [] m.method = "prompts/list"   -> HandlePromptsList(m)
      [] m.method = "prompts/get"    -> HandlePromptsGet(m)
      [] m.method = "resources/list" -> HandleResourcesList(m)
      [] m.method = "resources/read" -> HandleResourcesRead(m)
      [] OTHER                       -> "methodNotFound"

-----------------------------------------------------------------------------
(* Run, on the reader thread.                                              *)

\* Run sets the flag itself: an earlier Stop is forgotten.
RunStart ==
    /\ mpc = "start"
    /\ mpc' = "top"
    /\ m_Running' = TRUE
    /\ UNCHANGED <<poolVars, callVars, inputVars, m_Initialized, mmsg,
                   inFlightCalls, replies, told, owed, swallowed>>

\* The loop condition: m_Running is tested before getline blocks.
LoopTop ==
    /\ mpc = "top"
    /\ mpc' = IF m_Running THEN "read" ELSE "drain"
    /\ UNCHANGED <<poolVars, callVars, inputVars, m_Running, m_Initialized,
                   mmsg, inFlightCalls, replies, told, owed, swallowed>>

\* getline returns the next line.
Getline(m) ==
    /\ mpc = "read"
    /\ m \in unread
    /\ unread' = unread \ {m}
    /\ received' = received \cup {m}
    /\ early' = IF m.method = "tools/call"
                   /\ \A i \in received : i.method # "initialize"
                THEN early \cup {m} ELSE early
    /\ UNCHANGED m_Running

\* getline fails: the client closed the stream.
GetlineEof ==
    /\ mpc = "read"
    /\ mpc' = "drain"
    /\ UNCHANGED <<poolVars, callVars, inputVars, m_Running, m_Initialized,
                   mmsg, inFlightCalls, replies, told, owed, swallowed>>

\* Not JSON, or not a JSON-RPC 2.0 request: always answered, id or not.
RejectLine(m) ==
    /\ m.method \in {"garbage", "invalid"}
    /\ Getline(m)
    /\ SendMessage(m, IF m.method = "garbage" THEN "parseError" ELSE "invalidRequest")
    /\ mpc' = "top"
    /\ UNCHANGED <<poolVars, callVars, m_Initialized, mmsg, inFlightCalls, told,
                   owed, swallowed>>

\* Answers made of bytes nobody has checked, which may not be UTF-8: tools'
\* descriptions, cut at a number of bytes; front matter of skills, also in the
\* message that a variable of a prompt is missing; names and contents of files.
Unchecked(m) ==
    \/ /\ m.method \in {"tools/list", "prompts/list", "prompts/get",
                        "resources/list", "resources/read"}
       /\ Dispatch(m) = "result"
    \/ m.method = "prompts/get" /\ m.params = "broken"

\* An exception on the reader: the method is not a string; the iterator over the
\* resources fails to advance; or dump() refuses the answer, which tools/list
\* may also call to log its length.
ThrowOnReader(m) ==
    /\ \/ m.method = "notString"
       \/ m_Initialized /\ m.method = "resources/list"
       \/ m_Initialized /\ Unchecked(m) /\ (m.hasId \/ m.method = "tools/list")
    /\ Getline(m)
    /\ mpc' = "threw"
    /\ UNCHANGED <<poolVars, callVars, m_Initialized, mmsg, inFlightCalls,
                   replies, told, owed, swallowed>>

\* A method the reader handles itself in one go; notifications get no answer.
DispatchOnReader(m) ==
    /\ m.method \in {"initialize", "notifications/initialized", "tools/list",
                    "prompts/list", "prompts/get", "resources/list",
                    "resources/read", "other"}
    /\ Getline(m)
    /\ m_Initialized' = (m_Initialized \/ m.method = "initialize")
    /\ IF m.hasId /\ m.method # "notifications/initialized"
       THEN SendMessage(m, Dispatch(m))
       ELSE UNCHANGED replies
    /\ mpc' = "top"
    /\ UNCHANGED <<poolVars, callVars, mmsg, inFlightCalls, told, owed,
                   swallowed>>

\* A tools/call request goes to the pool; the reader keeps its future.
SubmitCall(m) ==
    /\ m.method = "tools/call" /\ m.hasId
    /\ Getline(m)
    /\ Pool!Submit(m)
    /\ inFlightCalls' = inFlightCalls \cup {m}
    /\ mpc' = "top"
    /\ UNCHANGED <<callVars, m_Initialized, mmsg, replies, told, owed, swallowed>>

\* A tools/call without an id is executed by the reader itself.
CallOnReader(m) ==
    /\ m.method = "tools/call" /\ ~m.hasId
    /\ Getline(m)
    /\ mpc' = "call"
    /\ mmsg' = m
    /\ stage' = [stage EXCEPT ![Main] = "gate"]
    /\ UNCHANGED <<poolVars, hop, reply, m_InFlightRequests, m_Initialized,
                   inFlightCalls, replies, told, owed, swallowed>>

\* tools/call_batch blocks the reader until the last result is in; its calls
\* are not registered as in flight.
HandleToolsCallBatch(m) ==
    /\ m.method = "tools/call_batch"
    /\ Getline(m)
    /\ IF m_Initialized /\ m.params \notin {"missing", "empty"}
       THEN mpc' = "batch" /\ mmsg' = m /\ UNCHANGED replies
       ELSE /\ mpc' = "top" /\ UNCHANGED mmsg
            /\ IF m.hasId
               THEN SendMessage(m, CASE ~m_Initialized      -> "notInitialized"
                                     [] m.params = "missing" -> "invalidParams"
                                     [] OTHER                -> "result")
               ELSE UNCHANGED replies
    /\ UNCHANGED <<poolVars, callVars, m_Initialized, inFlightCalls, told, owed,
                   swallowed>>

BatchEnd ==
    /\ mpc = "batch"
    /\ IF mmsg.hasId THEN SendMessage(mmsg, "result") ELSE UNCHANGED replies
    /\ mpc' = "top" /\ mmsg' = NoMsg
    /\ UNCHANGED <<poolVars, callVars, inputVars, m_Running, m_Initialized,
                   inFlightCalls, told, owed, swallowed>>

\* Arguments that are not an object, when the tool has defaults to store in them,
\* or the message of a tool's exception, which alone goes into the answer as it is
\* and may not be UTF-8: the exception leaves Run.
BatchThrows ==
    /\ mpc = "batch"
    /\ mmsg.params = "badArguments" \/ mmsg.hasId
    /\ mpc' = "threw"
    /\ UNCHANGED <<poolVars, callVars, inputVars, m_Running, m_Initialized, mmsg,
                   inFlightCalls, replies, told, owed, swallowed>>

-----------------------------------------------------------------------------
(* notifications/cancelled: the lookup is under m_InFlightMutex, the call  *)
(* of Cancel is not.                                                       *)

\* What the requests with this id are executing right now.
ExecutingUnder(k) ==
    {[key |-> k, tool |-> hop[th].tool, depth |-> hop[th].depth] :
        th \in {x \in Thread : stage[x] = "run" /\ MsgOf(x).key = k}}

CancelLookup(m) ==
    /\ m.method = "notifications/cancelled"
    /\ Getline(m)
    /\ IF m.target # NoKey /\ m_InFlightRequests[m.target] # NoTool
       THEN /\ mpc' = "cancel"
            /\ mmsg' = [m EXCEPT !.tool = m_InFlightRequests[m.target]]
       ELSE mpc' = "top" /\ UNCHANGED mmsg
    /\ owed' = IF m.target = NoKey THEN owed
               ELSE owed \cup ExecutingUnder(m.target)
    /\ UNCHANGED <<poolVars, callVars, m_Initialized, inFlightCalls, replies, told,
                   swallowed>>

\* Resolve the remembered name and tell that command.
CancelDeliver ==
    /\ mpc = "cancel"
    /\ told' = told \cup {<<mmsg.tool, mmsg.target>>}
    /\ mpc' = "top" /\ mmsg' = NoMsg
    /\ UNCHANGED <<poolVars, callVars, inputVars, m_Running, m_Initialized,
                   inFlightCalls, replies, owed, swallowed>>

-----------------------------------------------------------------------------
(* HandleToolsCall, on a pool worker or, without an id, on the reader.     *)

\* No exception has left Run and ended the process.
Alive == mpc # "threw"

TakeCall(w) ==
    /\ Alive
    /\ Pool!Start(w)
    /\ stage' = [stage EXCEPT ![w] = "gate"]
    /\ UNCHANGED <<hop, reply, m_InFlightRequests, inputVars, m_Running,
                   m_Initialized, mpc, mmsg, inFlightCalls, replies, told,
                   owed, swallowed>>

\* The errors before the tool is registered as in flight.
RefuseCall(th) ==
    LET m == MsgOf(th) IN
    /\ stage[th] = "gate"
    /\ ~m_Initialized \/ m.params = "missing" \/ m.tool \notin Registered
    /\ stage' = [stage EXCEPT ![th] = "reply"]
    /\ reply' = [reply EXCEPT ![th] = IF m_Initialized THEN "invalidParams"
                                                        ELSE "notInitialized"]
    /\ UNCHANGED <<poolVars, hop, m_InFlightRequests, inputVars, m_Running,
                   m_Initialized, mpc, mmsg, inFlightCalls, replies, told,
                   owed, swallowed>>

Admitted(th) ==
    LET m == MsgOf(th) IN
    /\ stage[th] = "gate"
    /\ m_Initialized /\ m.params # "missing" /\ m.tool \in Registered

\* "arguments" is not an object: storing _requestId in it throws outside the
\* try block.  The pool's future swallows the exception; on the reader it
\* leaves Run, which nobody catches: the process ends.
CallThrowsEarly(th) ==
    /\ Admitted(th) /\ MsgOf(th).params = "badArguments"
    /\ stage' = [stage EXCEPT ![th] = "idle"]
    /\ IF th = Main
       THEN mpc' = "threw" /\ UNCHANGED <<poolVars, swallowed>>
       ELSE /\ Pool!Finish(th) /\ UNCHANGED mpc
            /\ swallowed' = swallowed \cup {running[th]}
    /\ UNCHANGED <<hop, reply, m_InFlightRequests, inputVars, m_Running,
                   m_Initialized, mmsg, inFlightCalls, replies, told, owed>>

\* Fault: the call is not entered in the in-flight map.
RunUnregistered(th) ==
    LET m == MsgOf(th) IN
    /\ Admitted(th) /\ m.params # "badArguments"
    /\ hop' = [hop EXCEPT ![th] = [tool |-> m.tool, depth |-> 0]]
    /\ stage' = [stage EXCEPT ![th] = "run"]
    /\ UNCHANGED <<poolVars, reply, m_InFlightRequests, inputVars, m_Running,
                   m_Initialized, mpc, mmsg, inFlightCalls, replies, told,
                   owed, swallowed>>

RegisterCall(th) ==
    LET m == MsgOf(th) IN
    /\ Admitted(th) /\ m.params # "badArguments"
    /\ m_InFlightRequests' = [m_InFlightRequests EXCEPT ![m.key] = m.tool]
    /\ hop' = [hop EXCEPT ![th] = [tool |-> m.tool, depth |-> 0]]
    /\ stage' = [stage EXCEPT ![th] = "run"]
    /\ UNCHANGED <<poolVars, reply, inputVars, m_Running, m_Initialized, mpc,
                   mmsg, inFlightCalls, replies, told, owed, swallowed>>

\* ExecuteWithChaining: the result names another tool, which runs next.  The
\* in-flight entry keeps the name of the first one.
ChainCall(th) ==
    /\ stage[th] = "run"
    /\ ChainingEnabled /\ hop[th].depth < MaxChainDepth
    /\ \E t \in Registered :
          hop' = [hop EXCEPT ![th] = [tool |-> t, depth |-> @.depth + 1]]
    /\ UNCHANGED <<poolVars, stage, reply, m_InFlightRequests, inputVars,
                   m_Running, m_Initialized, mpc, mmsg, inFlightCalls,
                   replies, told, owed, swallowed>>

\* Fault: the catch block does not erase the in-flight entry.
EndCallKeepsEntry(th) ==
    /\ stage[th] = "run"
    /\ \E kind \in {"result", "internalError", "unencodable"} :
          /\ reply' = [reply EXCEPT ![th] = kind]
          /\ m_InFlightRequests' =
                IF kind = "internalError" THEN m_InFlightRequests
                ELSE [m_InFlightRequests EXCEPT ![MsgOf(th).key] = NoTool]
    /\ stage' = [stage EXCEPT ![th] = "reply"]
    /\ hop' = [hop EXCEPT ![th] = NoHop]
    /\ UNCHANGED <<poolVars, inputVars, m_Running, m_Initialized, mpc,
                   mmsg, inFlightCalls, replies, told, owed, swallowed>>

\* The last tool returned, reported an error (an unknown chained tool too) or
\* threw: the entry is erased under the lock and the response is composed, of a
\* text that may not be UTF-8 (a file's line, cut at a number of bytes).
EndCall(th) ==
    /\ stage[th] = "run"
    /\ m_InFlightRequests' = [m_InFlightRequests EXCEPT ![MsgOf(th).key] = NoTool]
    /\ \E kind \in {"result", "internalError", "unencodable"} :
          reply' = [reply EXCEPT ![th] = kind]
    /\ stage' = [stage EXCEPT ![th] = "reply"]
    /\ hop' = [hop EXCEPT ![th] = NoHop]
    /\ UNCHANGED <<poolVars, inputVars, m_Running, m_Initialized, mpc,
                   mmsg, inFlightCalls, replies, told, owed, swallowed>>

\* The exception of SendMessage ends the pool's task as its return would.
Swallow(w) ==
    swallowed' = IF reply[w] = "unencodable" THEN swallowed \cup {running[w]}
                 ELSE swallowed

\* Fault: the reader answers a notification.
AnswerNotification(th) ==
    /\ stage[th] = "reply"
    /\ stage' = [stage EXCEPT ![th] = "idle"]
    /\ reply' = [reply EXCEPT ![th] = "result"]
    /\ SendMessage(MsgOf(th), reply[th])
    /\ IF th = Main
       THEN mpc' = "top" /\ mmsg' = NoMsg /\ UNCHANGED <<poolVars, swallowed>>
       ELSE /\ Swallow(th)
            /\ Pool!Finish(th)
            /\ UNCHANGED <<mpc, mmsg>>
    /\ UNCHANGED <<hop, m_InFlightRequests, inputVars, m_Running,
                   m_Initialized, inFlightCalls, told, owed>>

\* Fault: an exception ends the call without a response.
FinishDropsErrors(th) ==
    /\ stage[th] = "reply"
    /\ stage' = [stage EXCEPT ![th] = "idle"]
    /\ reply' = [reply EXCEPT ![th] = "result"]
    /\ IF th = Main
       THEN mpc' = "top" /\ mmsg' = NoMsg /\ UNCHANGED <<poolVars, replies, swallowed>>
       ELSE /\ IF reply[th] = "internalError" THEN UNCHANGED replies
               ELSE SendMessage(running[th], reply[th])
            /\ Swallow(th)
            /\ Pool!Finish(th)
            /\ UNCHANGED <<mpc, mmsg>>
    /\ UNCHANGED <<hop, m_InFlightRequests, inputVars, m_Running,
                   m_Initialized, inFlightCalls, told, owed>>

\* The worker writes the response, or fails to, and its future becomes ready;
\* the reader drops the answer to a notification.
FinishCall(th) ==
    /\ stage[th] = "reply"
    /\ stage' = [stage EXCEPT ![th] = "idle"]
    /\ reply' = [reply EXCEPT ![th] = "result"]
    /\ IF th = Main
       THEN mpc' = "top" /\ mmsg' = NoMsg /\ UNCHANGED <<poolVars, replies, swallowed>>
       ELSE /\ SendMessage(running[th], reply[th])
            /\ Swallow(th)
            /\ Pool!Finish(th)
            /\ UNCHANGED <<mpc, mmsg>>
    /\ UNCHANGED <<hop, m_InFlightRequests, inputVars, m_Running,
                   m_Initialized, inFlightCalls, told, owed>>

-----------------------------------------------------------------------------
\* Stop may be called from any thread at any time.
Stop ==
    /\ Alive /\ m_Running
    /\ m_Running' = FALSE
    /\ UNCHANGED <<poolVars, callVars, inputVars, m_Initialized, mpc, mmsg,
                   inFlightCalls, replies, told, owed, swallowed>>

\* Fault: Run returns without waiting for its futures.
RunReturnWithoutWait ==
    /\ mpc = "drain"
    /\ mpc' = "returned"
    /\ m_Running' = FALSE
    /\ UNCHANGED <<poolVars, callVars, inputVars, m_Initialized, mmsg,
                   inFlightCalls, replies, told, owed, swallowed>>

\* Fault: Run waits for answers rather than for futures.
RunReturnAwaitsAnswers ==
    /\ mpc = "drain"
    /\ \A m \in inFlightCalls : replies[m] # <<>>
    /\ mpc' = "returned"
    /\ m_Running' = FALSE
    /\ UNCHANGED <<poolVars, callVars, inputVars, m_Initialized, mmsg,
                   inFlightCalls, replies, told, owed, swallowed>>

\* Run waits for every future it holds, then returns.
RunReturn ==
    /\ mpc = "drain"
    /\ inFlightCalls \subseteq done
    /\ mpc' = "returned"
    /\ m_Running' = FALSE
    /\ UNCHANGED <<poolVars, callVars, inputVars, m_Initialized, mmsg,
                   inFlightCalls, replies, told, owed, swallowed>>

ReadLine(m) ==
    \/ RejectLine(m) \/ ThrowOnReader(m) \/ DispatchOnReader(m) \/ SubmitCall(m)
    \/ CallOnReader(m) \/ HandleToolsCallBatch(m) \/ CancelLookup(m)

ReaderStep ==
    RunStart \/ LoopTop \/ BatchEnd \/ BatchThrows \/ CancelDeliver \/ RunReturn

CallStep(th) ==
    /\ Alive
    /\ \/ RefuseCall(th) \/ CallThrowsEarly(th) \/ RegisterCall(th)
       \/ ChainCall(th) \/ EndCall(th) \/ FinishCall(th)

Next ==
    \/ \E m \in Msg : ReadLine(m)
    \/ GetlineEof \/ Stop
    \/ ReaderStep
    \/ \E w \in Worker : TakeCall(w)
    \/ \E th \in Thread : CallStep(th)

Spec == Init /\ [][Next]_vars

\* Thread th executes a tool that may never return.
Stuck(th) == stage[th] = "run" /\ hop[th].tool \in Hanging

\* The batch has such a call, or no worker is left for its calls.
BatchHeld == mpc = "batch" /\ (mmsg.tool \in Hanging \/ \A w \in Worker : Stuck(w))

\* Threads are scheduled and the pool starts what it has (TaskPool); tools
\* return unless they are hanging.  The client owes nothing.
Fairness ==
    /\ WF_vars(ReaderStep /\ ~BatchHeld)
    /\ WF_vars(\E w \in Worker : TakeCall(w))
    /\ \A th \in Thread : WF_vars(CallStep(th) /\ ~Stuck(th))

FairSpec == Spec /\ Fairness

-----------------------------------------------------------------------------
TypeOK ==
    /\ queue \in Seq(Msg) /\ running \in [Worker -> Msg \cup {NoMsg}]
    /\ done \subseteq Msg
    /\ m_Running \in BOOLEAN /\ m_Initialized \in BOOLEAN
    /\ m_InFlightRequests \in [Key -> Tool \cup {NoTool}]
    /\ mpc \in {"start", "top", "read", "call", "batch", "cancel", "drain",
                "threw", "returned"}
    /\ mmsg \in MessageType \cup {NoMsg}
    /\ unread \subseteq Msg /\ received \subseteq Msg
    /\ inFlightCalls \subseteq Msg /\ early \subseteq Msg
    /\ stage \in [Thread -> {"idle", "gate", "run", "reply"}]
    /\ hop \in [Thread -> [tool : Tool \cup {NoTool}, depth : 0..MaxChainDepth]]
    /\ reply \in [Thread -> ReplyKind \cup {"unencodable"}]
    /\ replies \in [Msg -> Seq(ReplyKind)]
    /\ told \subseteq Tool \X Key
    /\ owed \subseteq [key : Key, tool : Tool, depth : 0..MaxChainDepth]
    /\ swallowed \subseteq Msg

\* No message is answered twice, by the reader and by a worker or by two
\* workers, and a well-formed notification is never answered at all.
AnsweredOnce ==
    \A m \in Msg :
        /\ Len(replies[m]) <= 1
        /\ replies[m] # <<>> =>
              m \in received /\ (m.hasId \/ m.method \in {"garbage", "invalid"})

\* Ids are compared as text, so 1 and "1" share a key: no two calls read so
\* far have done that with k.
KeyUnique(k) ==
    \A m, o \in {c \in received : c.method = "tools/call" /\ c.key = k} : m = o

\* notifications/cancelled can find every executing call that does not share
\* its id, under the name it was called by; and the map holds nothing else:
\* an entry always belongs to a call that is still executing.
InFlightExact ==
    /\ \A th \in Thread : stage[th] = "run" /\ KeyUnique(MsgOf(th).key) =>
          m_InFlightRequests[MsgOf(th).key] = MsgOf(th).tool
    /\ \A k \in Key : m_InFlightRequests[k] # NoTool =>
          \E th \in Thread : stage[th] = "run" /\ MsgOf(th).key = k

\* When Run returns, no worker still executes one of its calls (the transport
\* may be destroyed), nothing is registered in flight, and every call it read
\* has its answer, except one whose exception its future swallowed.
ReturnedMeansDrained ==
    mpc = "returned" =>
        /\ queue = <<>>
        /\ \A th \in Thread : stage[th] = "idle"
        /\ \A k \in Key : m_InFlightRequests[k] = NoTool
        /\ \A m \in inFlightCalls : replies[m] # <<>> \/ m \in swallowed

\* m_Initialized is a plain bool written by the reader and read by workers;
\* even so a call read after initialize is never refused as uninitialized.
InitializeCoversLaterCalls ==
    \A m \in Msg : m.method = "tools/call" /\ replies[m] = <<"notInitialized">>
                  => m \in early

\* What holds of the transport's state at every step: the in-flight map is
\* exact and initialize, once read, admits every later call.
TransportInv == TypeOK /\ InFlightExact /\ InitializeCoversLaterCalls

\* A cancellation handled while its target executes the tool it named reaches
\* the command that executes it, although Cancel is called after the unlock.
CancelReachesNamedTool ==
    mpc # "cancel" =>
        \A o \in owed :
            o.depth = 0 /\ KeyUnique(o.key) => <<o.tool, o.key>> \in told

\* Requests the transport must answer: all that carry an id, but for the two
\* notifications.
NeedsAnswer(m) ==
    /\ m.hasId
    /\ m.method \notin {"notifications/initialized", "notifications/cancelled"}

\* No request is forgotten: as long as the process lives, one that was read and
\* has no answer yet waits in the pool's queue, or is on a worker, or is the
\* batch the reader is at; or its call threw in the pool, where nobody answers.
NoRequestLost ==
    Alive => \A m \in received : NeedsAnswer(m) /\ replies[m] = <<>> =>
        \/ \E i \in DOMAIN queue : queue[i] = m
        \/ \E w \in Worker : running[w] = m
        \/ mpc = "batch" /\ mmsg = m
        \/ m \in swallowed

\* What is lost that way is a call that got as far as its tool: the pool is done
\* with it, it has no answer and never will, and it was not one of those that
\* are refused, for want of initialize, of a name or of such a tool.
LostOnlyInPool ==
    \A m \in swallowed :
        /\ m \in done /\ replies[m] = <<>>
        /\ m_Initialized /\ m.params # "missing" /\ m.tool \in Registered

\* What holds of the answers at every step: no message has two, none that needs
\* one is forgotten, and only calls that reached their tool are ever lost.
AnswersInv == AnsweredOnce /\ NoRequestLost /\ LostOnlyInPool

\* Every request read is answered, whatever else is executing, unless the process
\* ends or its own call threw in the pool or does not return: the reader is never
\* stuck behind the pool and no call is forgotten in the queue, as long as one
\* worker is not taken up by a tool that does not return.
\* (A session is finite, so "again and again all are answered" says it.)
RequestsAnswered ==
    []<>(Alive /\ (\E w \in Worker : ~Stuck(w)) =>
            \A m \in received : NeedsAnswer(m) =>
                \/ replies[m] # <<>> \/ m \in swallowed
                \/ \E w \in Worker : running[w] = m /\ Stuck(w)
                \/ mmsg = m /\ BatchHeld)

\* After EOF or Stop, Run waits for its calls and returns, unless one of them
\* never does; an exception in the pool does not keep it.
RunReturns ==
    mpc = "drain" ~> (mpc = "returned" \/ [](\E w \in Worker : Stuck(w)))
=============================================================================
