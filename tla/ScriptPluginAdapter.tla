------------------------ MODULE ScriptPluginAdapter ------------------------
(***************************************************************************)
(* plugins/ScriptPluginAdapter::ExecuteAsync: each call writes its           *)
(* arguments to a temporary file, starts the script on a detached thread     *)
(* and waits for its output with a time-out.  The script is not stopped by   *)
(* the time-out and may read the file when it has been removed.              *)
(*                                                                           *)
(* A call is made by a thread; a script is known by the number of its file,  *)
(* which the counter hands out.                                              *)
(***************************************************************************)
EXTENDS Naturals, FiniteSets

CONSTANTS Thread, Args, MaxCalls, NoArgs

ASSUME ScriptAssumption ==
    IsFiniteSet(Thread) /\ MaxCalls \in Nat /\ NoArgs \notin Args

\* What a script may print, as far as the callers tell it apart: a JSON object
\* with status ok, with an error member too (a text or not), without a status,
\* with status error or one that is no text; no JSON; nothing.
Output == {"ok", "okError", "okOddError", "noStatus", "error", "oddStatus",
           "garbage", "empty"}

Number == 0 .. MaxCalls - 1

VARIABLES
    s_Counter,      \* the static counter behind the file names
    file,           \* the temporary files: arguments or NoArgs, by number
    script,         \* the scripts: "none", "spawned", "running", the output, "over"
    got,            \* what a script read from its file
    step,           \* where each thread is in ExecuteAsync
    call,           \* and the number its call uses
    args,           \* and the arguments it was given
    overdue         \* history: scripts that run on after their call timed out

scriptVars == <<s_Counter, file, script, got, step, call, args, overdue>>

ScriptInit ==
    /\ s_Counter = 0
    /\ file = [n \in Number |-> NoArgs] /\ script = [n \in Number |-> "none"]
    /\ got = [n \in Number |-> NoArgs]
    /\ step = [t \in Thread |-> "idle"] /\ call = [t \in Thread |-> 0]
    /\ args = [t \in Thread |-> NoArgs] /\ overdue = {}

\* ExecuteAsync, deferred: it runs on the thread that gets the future.
ExecuteAsync(t, a) ==
    /\ step[t] = "idle"
    /\ s_Counter + Cardinality({u \in Thread : step[u] = "write"}) < MaxCalls
    /\ step' = [step EXCEPT ![t] = "write"]
    /\ args' = [args EXCEPT ![t] = a]
    /\ UNCHANGED <<s_Counter, file, script, got, call, overdue>>

\* Fault: the counter is not advanced.
SameNumber(t) == call' = [call EXCEPT ![t] = s_Counter] /\ UNCHANGED s_Counter

TakeNumber(t) ==
    /\ call' = [call EXCEPT ![t] = s_Counter]
    /\ s_Counter' = s_Counter + 1

\* WriteSecureTempFile, and the thread that runs the command.
WriteArgs(t) ==
    /\ step[t] = "write"
    /\ TakeNumber(t)
    /\ step' = [step EXCEPT ![t] = "wait"]
    /\ file' = [file EXCEPT ![s_Counter] = args[t]]
    /\ script' = [script EXCEPT ![s_Counter] = "spawned"]
    /\ UNCHANGED <<got, args, overdue>>

\* ExecuteAsync returns: the guard removes the file.
Returns(t) ==
    /\ step' = [step EXCEPT ![t] = "idle"]
    /\ args' = [args EXCEPT ![t] = NoArgs]
    /\ file' = [file EXCEPT ![call[t]] = NoArgs]
    /\ call' = [call EXCEPT ![t] = 0]

\* The file cannot be created or written to the end.
WriteFails(t) ==
    /\ step[t] = "write"
    /\ s_Counter' = s_Counter + 1
    /\ step' = [step EXCEPT ![t] = "idle"] /\ args' = [args EXCEPT ![t] = NoArgs]
    /\ file' = [file EXCEPT ![s_Counter] = NoArgs]
    /\ UNCHANGED <<script, got, call, overdue>>

\* wait_for returns ready, and get takes the output.
Ready(t) ==
    /\ step[t] = "wait" /\ script[call[t]] \in Output
    /\ Returns(t)
    /\ script' = [script EXCEPT ![call[t]] = "over"]
    /\ got' = [got EXCEPT ![call[t]] = NoArgs]
    /\ UNCHANGED <<s_Counter, overdue>>

\* Fault: the call waits for the script however long it takes.
WaitOn(t) == FALSE /\ UNCHANGED scriptVars

\* wait_for returns timeout, after kTimeoutSeconds; the script goes on.
TimedOut(t) ==
    /\ step[t] = "wait" /\ script[call[t]] \notin Output
    /\ Returns(t)
    /\ overdue' = overdue \cup {call[t]}
    /\ UNCHANGED <<s_Counter, script, got>>

\* The script opens the file it was given by name.
ScriptReads(n) ==
    /\ script[n] = "spawned"
    /\ script' = [script EXCEPT ![n] = "running"]
    /\ got' = [got EXCEPT ![n] = file[n]]
    /\ UNCHANGED <<s_Counter, file, step, call, args, overdue>>

\* RunCommand returns what was printed, and nothing if there was no process.
\* After a time-out nobody looks at it.
RunCommand(n) ==
    /\ script[n] = "running"
    /\ IF n \in overdue
       THEN /\ script' = [script EXCEPT ![n] = "over"]
            /\ got' = [got EXCEPT ![n] = NoArgs] /\ overdue' = overdue \ {n}
       ELSE /\ \E o \in Output : script' = [script EXCEPT ![n] = o]
            /\ UNCHANGED <<got, overdue>>
    /\ UNCHANGED <<s_Counter, file, step, call, args>>

Scripts == \E n \in Number : ScriptReads(n) \/ RunCommand(n)

\* The answer of ExecuteAsync to an output: a result with or without the text
\* member status, or an exception that is not a parse_error.
Answer(output) ==
    CASE output \in {"ok", "okError", "okOddError"} -> output
      [] output \in {"noStatus", "error", "garbage", "empty"} -> "noStatus"
      [] output = "oddStatus" -> "throws"

-----------------------------------------------------------------------------
(* The adapter alone, for its theorems.                                    *)
ScriptStep(t) ==
    \/ \E a \in Args : ExecuteAsync(t, a)
    \/ WriteArgs(t) \/ WriteFails(t) \/ Ready(t) \/ TimedOut(t)
ScriptNext == (\E t \in Thread : ScriptStep(t)) \/ Scripts
ScriptSpec == ScriptInit /\ [][ScriptNext]_scriptVars

-----------------------------------------------------------------------------
ScriptTypeOK ==
    /\ s_Counter \in 0 .. MaxCalls
    /\ file \in [Number -> Args \cup {NoArgs}] /\ got \in [Number -> Args \cup {NoArgs}]
    /\ script \in [Number -> Output \cup {"none", "spawned", "running", "over"}]
    /\ step \in [Thread -> {"idle", "write", "wait"}]
    /\ call \in [Thread -> Nat] /\ args \in [Thread -> Args \cup {NoArgs}]
    /\ overdue \subseteq Number

\* Every script works on the arguments of its own call: while the call waits
\* they are in the call's file, a script that was overdue before it opened
\* the file finds nothing, never another call's arguments, and no file is
\* left behind by a call that has returned.
OwnArguments ==
    /\ \A t \in Thread : step[t] = "wait" =>
          /\ file[call[t]] = args[t]
          /\ script[call[t]] # "spawned" => got[call[t]] = args[t]
    /\ \A n \in Number :
          /\ script[n] \in Output \cup {"running"} /\ got[n] = NoArgs => n \in overdue
          /\ file[n] # NoArgs => \E t \in Thread : step[t] = "wait" /\ call[t] = n

\* What holds of the calls of scripts at every step.
ScriptInv == ScriptTypeOK /\ OwnArguments
=============================================================================
