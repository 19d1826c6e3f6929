----------------------------- MODULE HttpServer -----------------------------
(***************************************************************************)
(* The server over HTTP: the routes of server_entry, ProtocolHandler with    *)
(* its gates (InputSanitizer, RateLimiter, ApiKeyValidator,                  *)
(* JsonSchemaValidator) and, behind it, a script plugin's tool.  Each        *)
(* request is handled by one of the HTTP library's threads from beginning to *)
(* end; the threads share the limiter, the two validators and the scripts'   *)
(* temporary files.                                                          *)
(*                                                                           *)
(* A request is its client, route, size, Authorization header, what its body *)
(* is (no JSON, no valid request, an unknown command, a script's tool with   *)
(* or without a readable _requestId), the depth of the JSON, and arguments.  *)
(***************************************************************************)
EXTENDS RateLimiter, ScriptPluginAdapter

CONSTANTS Request,
          AuthEnabled, Key,       \* auth.enabled and auth.api_key
          EmptyKey,
          MaxBodySize, MaxDepth

NoRequest == [client |-> "nobody"]

ASSUME HttpAssumption ==
    /\ AuthEnabled \in BOOLEAN /\ NoRequest \notin Request
    /\ \A r \in Request :
          /\ r.client \in Client /\ r.route \in {"POST", "GET"}
          /\ r.size \in Nat /\ r.depth \in Nat /\ r.args \in Args
          /\ r.body \in {"garbage", "invalid", "unknown", "oddId", "tool"}

VARIABLES
    pc, req,        \* each thread's place and request
    crashed,        \* the process is gone
    reply           \* history: a POST answered 200 in the last step, or NoReply

vars == <<rateVars, scriptVars, pc, req, crashed, reply>>

NoReply == [output |-> "none yet"]

Init ==
    /\ RateInit /\ ScriptInit
    /\ pc = [t \in Thread |-> "idle"] /\ req = [t \in Thread |-> NoRequest]
    /\ crashed = FALSE
    /\ reply = NoReply

-----------------------------------------------------------------------------
(* The gates, in the order of HandleRequest.                               *)

ValidatePayloadSize(r) == r.size <= MaxBodySize

\* The header is a scheme and a key; one that ends after "Bearer " is refused
\* whatever key is configured.
Validate(header) ==
    header.scheme = "Bearer" /\ header.key # EmptyKey /\ header.key = Key

ValidateJsonDepth(r) == r.depth <= MaxDepth

\* What parsing, the schema and Resolve make of a body.
BodyVerdict == [garbage |-> "Invalid JSON", invalid |-> "Invalid request schema",
                unknown |-> "Unknown command", oddId |-> "Command execution failed",
                tool |-> "execute"]

\* What HandleRequest and Handle answer before a tool is reached, or "execute".
Verdict(r, allows) ==
    IF ~allows THEN "Rate limit exceeded"
    ELSE IF AuthEnabled /\ ~Validate(r.header) THEN "Unauthorized"
    ELSE IF r.body # "garbage" /\ ~ValidateJsonDepth(r) THEN "JSON nesting too deep"
    ELSE BodyVerdict[r.body]

\* The status the route gives to an error text.
Status(error) ==
    CASE error = "Payload too large" -> 413
      [] error = "Rate limit exceeded" -> 429
      [] error = "Unauthorized" -> 401
      [] OTHER -> 400

\* The reply; of a POST's 200 the history keeps what the thread's script had
\* read and printed, if it waited for one.
Respond(t, r, status) ==
    LET n == call[t]
        waited == pc[t] = "call"
    IN  /\ pc' = [pc EXCEPT ![t] = "idle"] /\ req' = [req EXCEPT ![t] = NoRequest]
        /\ reply' = IF r.route = "POST" /\ status = 200
                    THEN [args |-> r.args,
                          got |-> IF waited THEN got[n] ELSE NoArgs,
                          output |-> IF waited THEN script[n] ELSE "none"]
                    ELSE NoReply

\* JsonSchemaValidator::Validate fails: m_LastError is written and then read
\* with no lock.  A second thread there at the same time is a data race.
FailValidation(t, place) ==
    /\ pc' = [pc EXCEPT ![t] = place]
    /\ IF \E u \in Thread \ {t} : pc[u] = place THEN crashed' \in BOOLEAN
       ELSE UNCHANGED crashed

-----------------------------------------------------------------------------
Get(t, r) ==
    /\ pc[t] = "idle" /\ r.route = "GET"
    /\ Respond(t, r, 200)
    /\ UNCHANGED <<rateVars, scriptVars, crashed>>

RefuseLarge(t, r) ==
    /\ pc[t] = "idle" /\ r.route = "POST" /\ ~ValidatePayloadSize(r)
    /\ Respond(t, r, Status("Payload too large"))
    /\ UNCHANGED <<rateVars, scriptVars, crashed>>

HandleRequest(t, r) ==
    /\ pc[t] = "idle" /\ r.route = "POST" /\ ValidatePayloadSize(r)
    /\ AllowRequest(r.client)
    /\ LET verdict == Verdict(r, Allows(r.client))
       IN  CASE verdict = "execute" ->
                  /\ ExecuteAsync(t, r.args)
                  /\ pc' = [pc EXCEPT ![t] = "call"] /\ req' = [req EXCEPT ![t] = r]
                  /\ reply' = NoReply /\ UNCHANGED crashed
             [] verdict = "Invalid request schema" ->
                  /\ FailValidation(t, "badRequest")
                  /\ req' = [req EXCEPT ![t] = r]
                  /\ reply' = NoReply /\ UNCHANGED scriptVars
             [] OTHER ->
                  /\ Respond(t, r, Status(verdict))
                  /\ UNCHANGED <<scriptVars, crashed>>

\* ValidateRequest or CreateResponse has logged the message.
LogFailure(t) ==
    /\ pc[t] \in {"badRequest", "badResponse"}
    /\ Respond(t, req[t], 400)
    /\ UNCHANGED <<rateVars, scriptVars, crashed>>

WriteTempFile(t) ==
    /\ pc[t] = "call" /\ WriteArgs(t)
    /\ reply' = NoReply /\ UNCHANGED <<rateVars, pc, req, crashed>>

\* Fault: the answer is sent as it is.
CreateResponseUnchecked(t, answer) ==
    /\ Respond(t, req[t], IF answer \in {"throws", "okError"} THEN 400 ELSE 200)
    /\ UNCHANGED crashed

\* Handle's catch, CreateResponse and the route's status: an answer without a
\* status is replaced, one with an error member is a 400, except that an error
\* which is no text makes the route's own test throw and leaves the 200.
CreateResponse(t, answer) ==
    IF answer = "noStatus"
    THEN FailValidation(t, "badResponse") /\ reply' = NoReply /\ UNCHANGED req
    ELSE /\ Respond(t, req[t], IF answer \in {"throws", "okError"} THEN 400 ELSE 200)
         /\ UNCHANGED crashed

ToolReturns(t) ==
    /\ pc[t] = "call"
    /\ \/ WriteFails(t) /\ CreateResponse(t, "noStatus")
       \/ Ready(t) /\ CreateResponse(t, Answer(script[call[t]]))
       \/ TimedOut(t) /\ CreateResponse(t, "noStatus")
    /\ UNCHANGED rateVars

Handler(t) == LogFailure(t) \/ WriteTempFile(t) \/ ToolReturns(t)

Arrive(t) == \E r \in Request : Get(t, r) \/ RefuseLarge(t, r) \/ HandleRequest(t, r)

Next ==
    /\ ~crashed
    /\ \/ \E t \in Thread : Arrive(t) \/ Handler(t)
       \/ Scripts /\ reply' = NoReply /\ UNCHANGED <<rateVars, pc, req, crashed>>
       \/ Tick /\ reply' = NoReply /\ UNCHANGED <<scriptVars, pc, req, crashed>>

\* Handler threads are scheduled, and wait_for returns; scripts owe nothing.
Spec == Init /\ [][Next]_vars /\ \A t \in Thread : WF_vars(~crashed /\ Handler(t))

-----------------------------------------------------------------------------
\* Types; and a thread has a request exactly while it handles one, and waits
\* for a script only then.
TypeOK ==
    /\ pc \in [Thread -> {"idle", "call", "badRequest", "badResponse"}]
    /\ req \in [Thread -> Request \cup {NoRequest}]
    /\ crashed \in BOOLEAN
    /\ \A t \in Thread : /\ pc[t] = "idle" <=> req[t] = NoRequest
                         /\ pc[t] = "call" <=> step[t] # "idle"

\* A POST is answered 200 only if its own script, with its own arguments, came
\* to an end in time with a JSON object that carries a status other than error.
OkMeansToolSucceeded ==
    reply # NoReply =>
        reply.output \in {"ok", "okOddError"} /\ reply.got = reply.args

\* What holds of the handler threads at every step.
HttpInv == TypeOK /\ OkMeansToolSucceeded

\* Every request is answered, however long its script runs, unless the race on
\* m_LastError has ended the process.
AnsweredUnlessCrash ==
    \A t \in Thread : pc[t] # "idle" ~> pc[t] = "idle" \/ crashed
=============================================================================
