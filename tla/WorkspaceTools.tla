--------------------------- MODULE WorkspaceTools ---------------------------
(***************************************************************************)
(* commands/CoreTools: the tools that work on the workspace.  read, edit and *)
(* search go to files below WorkspaceJail; shell, git, build, test and       *)
(* diagnose run a process through RunProc and SubprocessPipe.  Each pool     *)
(* thread handles one call; nothing but the file system and the set of       *)
(* cancelled ids is shared, and no lock is held from a read to a write.      *)
(*                                                                           *)
(* A path is a model value.  Contents that overlay one another do so by      *)
(* whole lines, and what a failing write leaves is whole lines too.          *)
(***************************************************************************)
EXTENDS Hashline, FiniteSets

CONSTANTS Thread,
          Path, Inside,     \* paths, and those the jail contains
          NoPath,           \* the empty path argument
          Skipped,          \* files search passes over, by directory or extension
          Files,            \* the file systems considered at the start
          Call,             \* the calls considered, by thread
          MaxHits,          \* kSearchMaxHits
          MaxLines          \* kMaxResultBytes * 4, in lines of output

File == [kind : {"text", "binary", "missing"}, newline : BOOLEAN,
         lines : Seq([text : Text, cr : BOOLEAN])]

ASSUME WorkspaceAssumption ==
    /\ Inside \subseteq Path /\ Skipped \subseteq Path /\ NoPath \notin Path
    /\ Files \subseteq [Path -> File]

\* Hunks whose anchors EditCommand can parse: it refuses the others at once.
ASSUME CallAssumption ==
    \A t \in Thread : \A c \in Call[t] : c.tool = "edit" => c.hunks \in Seq(Hunk)

VARIABLES
    files,
    pc, call,           \* each thread's place and call
    found,              \* an edit's snapshot and result; a search's hits
    child,              \* RunProc's process: none, running, exited, killed
    held,               \* somebody else has the write end of its output
    printed,            \* lines of output, and whether one says "cancelled"
    expired,            \* the deadline has passed
    m_Cancelled,        \* ids of calls to cancel: never removed
    reply,              \* how the thread's call was answered
    disturbed,          \* history: the file was written by others since the snapshot
    cutShort            \* history: not all that the edit wrote got to the file

fileVars == <<files, found, disturbed, cutShort>>
procVars == <<child, held, printed, expired, m_Cancelled>>
vars == <<fileVars, procVars, pc, call, reply>>

NoCall == [tool |-> "none", id |-> 0]
Nothing == [hits |-> 0]
Silence == [lines |-> 0, saysCancelled |-> FALSE, timedOut |-> FALSE]

Init ==
    /\ files \in Files
    /\ pc = [t \in Thread |-> "idle"] /\ call = [t \in Thread |-> NoCall]
    /\ found = [t \in Thread |-> Nothing] /\ disturbed = [t \in Thread |-> FALSE]
    /\ child = [t \in Thread |-> "none"] /\ held = [t \in Thread |-> FALSE]
    /\ printed = [t \in Thread |-> Silence] /\ expired = [t \in Thread |-> FALSE]
    /\ m_Cancelled = {} /\ reply = [t \in Thread |-> "none"]
    /\ cutShort = [t \in Thread |-> FALSE]

-----------------------------------------------------------------------------
(* WorkspaceJail                                                           *)

JailContains(path) == path \in Inside
Resolves(path, forWrite) == path # NoPath /\ (forWrite => JailContains(path))

\* search and shell take no path to be the root.
ResolvesOrRoot(path) == path = NoPath \/ Resolves(path, TRUE)

RegularFile(path) == files[path].kind # "missing"
LooksBinary(path) == files[path].kind = "binary"

-----------------------------------------------------------------------------
Goto(t, place) == pc' = [pc EXCEPT ![t] = place]
Answer(t, answer) == Goto(t, "done") /\ reply' = [reply EXCEPT ![t] = answer]
Takes(t, c) == pc[t] = "idle" /\ call' = [call EXCEPT ![t] = c]

Readable(c, forWrite) ==
    Resolves(c.path, forWrite) /\ RegularFile(c.path) /\ ~LooksBinary(c.path)

Read(t, c) ==
    /\ c.tool = "read" /\ Takes(t, c)
    /\ IF /\ Readable(c, FALSE) /\ c.limit > 0
          /\ c.offset <= Len(ParseFile(files[c.path]))
       THEN /\ found' = [found EXCEPT
                  ![t] = FormatRead(ParseFile(files[c.path]), c.offset, c.limit)]
            /\ Answer(t, "ok")
       ELSE UNCHANGED found /\ Answer(t, "error")
    /\ UNCHANGED <<files, disturbed, cutShort, procVars>>

\* The arguments, the file, and ApplyHunks on a copy: any error ends it here.
EditRead(t, c) ==
    /\ c.tool = "edit" /\ Takes(t, c)
    /\ IF ~Readable(c, TRUE) THEN UNCHANGED found /\ Answer(t, "error")
       ELSE LET result == ApplyHunks(ParseFile(files[c.path]), c.hunks)
            IN  /\ found' = [found EXCEPT ![t] = [snapshot |-> files[c.path],
                                                   next |-> Joined(result.texts)]]
                /\ IF result.ok THEN Goto(t, "open") /\ UNCHANGED reply
                   ELSE Answer(t, "refused")
    /\ disturbed' = [disturbed EXCEPT ![t] = FALSE]
    /\ UNCHANGED <<files, cutShort, procVars>>

\* Thread t writes: whoever has looked at the file, or left it, notices.
Disturb(t) ==
    disturbed' = [u \in Thread |->
                     disturbed[u] \/ (u # t /\ call[u].tool = "edit"
                                            /\ call[u].path = call[t].path)]

Empty == [kind |-> "text", newline |-> FALSE, lines |-> <<>>]

\* The output stream opens, which empties the file.
EditOpen(t) ==
    /\ pc[t] = "open"
    /\ files' = [files EXCEPT ![call[t].path] = Empty]
    /\ Disturb(t) /\ Goto(t, "write")
    /\ UNCHANGED <<found, cutShort, procVars, call, reply>>

EditOpenFails(t) ==
    /\ pc[t] = "open"
    /\ Answer(t, "error")
    /\ UNCHANGED <<fileVars, procVars, call>>

\* The stream writes from the beginning of the file, over what is there.
Overlay(new, old) ==
    [new EXCEPT !.lines = @ \o SubSeq(old.lines, Len(@) + 1, Len(old.lines))]

EditWrite(t) ==
    /\ pc[t] = "write"
    /\ files' = [files EXCEPT ![call[t].path] = Overlay(found[t].next, @)]
    /\ Disturb(t) /\ Answer(t, "updated")
    /\ UNCHANGED <<found, cutShort, procVars, call>>

\* The bytes are refused, as on a full disk, the first of them already or after
\* some lines; the code does not look and answers the same.
EditWriteFails(t) ==
    /\ pc[t] = "write"
    /\ cutShort' = [cutShort EXCEPT ![t] = TRUE]
    /\ Answer(t, "updated")
    /\ UNCHANGED <<files, found, disturbed, procVars, call>>

FirstLines(file, n) == [file EXCEPT !.lines = SubSeq(@, 1, n)]

EditWriteStops(t) ==
    /\ pc[t] = "write"
    /\ \E n \in 1 .. Len(found[t].next.lines) - 1 :
          files' = [files EXCEPT ![call[t].path] =
                       Overlay(FirstLines(found[t].next, n), @)]
    /\ cutShort' = [cutShort EXCEPT ![t] = TRUE]
    /\ Disturb(t) /\ Answer(t, "updated")
    /\ UNCHANGED <<found, procVars, call>>

\* One file after another, in any order; below a file there is nothing.
Search(t, c) ==
    /\ c.tool = "search" /\ Takes(t, c)
    /\ IF ResolvesOrRoot(c.path)
       THEN /\ found' = [found EXCEPT ![t] =
                  [hits |-> 0, todo |-> IF c.path = NoPath THEN Inside \ Skipped ELSE {}]]
            /\ Goto(t, "search") /\ UNCHANGED reply
       ELSE UNCHANGED found /\ Answer(t, "error")
    /\ UNCHANGED <<files, disturbed, cutShort, procVars>>

\* A line is a hit if it has the pattern, or the path does.
SearchFile(t, path) ==
    /\ pc[t] = "search" /\ path \in found[t].todo
    /\ LET texts == ParseFile(files[path])
           here  == IF files[path].kind # "text" THEN 0
                    ELSE Cardinality({i \in DOMAIN texts : \/ texts[i] = call[t].pattern
                                                           \/ path \in call[t].inPath})
           total == found[t].hits + here
       IN  found' = [found EXCEPT ![t] =
                        IF total > MaxHits THEN [hits |-> MaxHits, todo |-> {}]
                        ELSE [hits |-> total, todo |-> @.todo \ {path}]]
    /\ UNCHANGED <<files, disturbed, cutShort, procVars, pc, call, reply>>

SearchDone(t) ==
    /\ pc[t] = "search" /\ found[t].todo = {}
    /\ Answer(t, "ok")
    /\ UNCHANGED <<fileVars, procVars, call>>

Project(t, c) ==
    /\ c.tool = "project" /\ Takes(t, c)
    /\ Answer(t, "ok")
    /\ UNCHANGED <<fileVars, procVars>>

-----------------------------------------------------------------------------
(* RunProc and the tools that use it.  Each first finds out which programs  *)
(* it may try one after the other (msbuild, then dotnet); none is an error.  *)
(* c.root is what the workspace root holds.                                 *)

If(condition) == IF condition THEN 1 ELSE 0

ShellPrograms(c) == If(c.command /\ ResolvesOrRoot(c.path))

GitPrograms(c) ==
    If(CASE c.action \in {"status", "log", "conflicts"} -> TRUE
         [] c.action = "diff"  -> c.full => c.path # NoPath
         [] c.action = "blame" -> Resolves(c.path, FALSE)
         [] OTHER              -> FALSE)

\* Without CMakeLists.txt the first project file in the directory decides.
BuildPrograms(c) ==
    LET projects == c.root \cap {"sln", "csproj"}
    IN  IF "cmake" \in c.root THEN {1}
        ELSE IF projects = {} THEN {0}
        ELSE {IF p = "sln" THEN 2 ELSE 1 : p \in projects}

TestPrograms(c) == If("build" \in c.root) + If(c.root \cap {"sln", "csproj"} # {})

DiagnosePrograms(c) == If(Resolves(c.path, FALSE) /\ RegularFile(c.path))

Programs(c) ==
    CASE c.tool = "shell"    -> {ShellPrograms(c)}
      [] c.tool = "git"      -> {GitPrograms(c)}
      [] c.tool = "build"    -> BuildPrograms(c)
      [] c.tool = "test"     -> {TestPrograms(c)}
      [] c.tool = "diagnose" -> {DiagnosePrograms(c)}
      [] OTHER               -> {}

StartProc(t, c) ==
    \E n \in Programs(c) :
        /\ Takes(t, [c EXCEPT !.programs = n])
        /\ IF n > 0 THEN Goto(t, "spawn") /\ UNCHANGED reply ELSE Answer(t, "error")
        /\ UNCHANGED <<fileVars, procVars>>

Spawn(t) ==
    /\ pc[t] = "spawn"
    /\ child' = [child EXCEPT ![t] = "running"]
    /\ \E h \in BOOLEAN : held' = [held EXCEPT ![t] = h]
    /\ Goto(t, "append")
    /\ UNCHANGED <<fileVars, printed, expired, m_Cancelled, call, reply>>

SpawnFails(t) ==
    /\ pc[t] = "spawn"
    /\ IF call[t].programs > 1
       THEN call' = [call EXCEPT ![t].programs = @ - 1] /\ UNCHANGED <<pc, reply>>
       ELSE Answer(t, "error") /\ UNCHANGED call
    /\ UNCHANGED <<fileVars, procVars>>

Running(t) == child[t] = "running"

\* AppendLines got a line in time and tries for the next, unless there is
\* enough.  Neither the deadline nor a cancellation is looked at in between.
ReadLine(t) ==
    /\ pc[t] \in {"append", "drain"}
    /\ \E w \in BOOLEAN :
          printed' = [printed EXCEPT ![t].lines = @ + 1,
                                     ![t].saysCancelled = @ \/ w]
    /\ IF printed[t].lines < MaxLines THEN UNCHANGED pc
       ELSE Goto(t, IF pc[t] = "append" THEN "after" ELSE "report")
    /\ UNCHANGED <<fileVars, child, held, expired, m_Cancelled, call, reply>>

\* ReadLine fails: nothing came in time, or the process has ended and the
\* blocking read after that found the end of the output, which it does only
\* when nobody holds it open.
ReadLineFails(t) ==
    /\ pc[t] \in {"append", "drain"} /\ (Running(t) \/ ~held[t])
    /\ Goto(t, IF pc[t] = "append" THEN "test" ELSE "report")
    /\ UNCHANGED <<fileVars, procVars, call, reply>>

Kill(t) ==
    /\ child' = [child EXCEPT ![t] = IF @ = "running" THEN "killed" ELSE @]
    /\ printed' = [printed EXCEPT ![t].timedOut = TRUE]

IsCancelled(t) == call[t].tool = "shell" /\ call[t].id \in m_Cancelled

\* The end of a round: cancellation, then the process, then the deadline.
TestCancelled(t) ==
    /\ pc[t] = "test" /\ IsCancelled(t)
    /\ child' = [child EXCEPT ![t] = IF @ = "running" THEN "killed" ELSE @]
    /\ printed' = [printed EXCEPT ![t].timedOut = TRUE, ![t].saysCancelled = TRUE]
    /\ Goto(t, "after")
    /\ UNCHANGED <<fileVars, held, expired, m_Cancelled, call, reply>>

\* Fault: the deadline is not looked at.
TestForever(t) ==
    /\ pc[t] = "test" /\ ~IsCancelled(t)
    /\ Goto(t, IF Running(t) THEN "append" ELSE "after")
    /\ UNCHANGED <<fileVars, procVars, call, reply>>

TestRound(t) ==
    /\ pc[t] = "test" /\ ~IsCancelled(t)
    /\ Goto(t, IF Running(t) /\ ~expired[t] THEN "append" ELSE "after")
    /\ UNCHANGED <<fileVars, procVars, call, reply>>

\* Fault: a process that is still running is killed and nothing said of it.
AfterLoopSilent(t) ==
    /\ pc[t] = "after"
    /\ child' = [child EXCEPT ![t] = IF @ = "running" THEN "killed" ELSE @]
    /\ Goto(t, "drain")
    /\ UNCHANGED <<fileVars, printed, held, expired, m_Cancelled, call, reply>>

AfterLoop(t) ==
    /\ pc[t] = "after"
    /\ IF Running(t) THEN Kill(t) ELSE UNCHANGED <<child, printed>>
    /\ Goto(t, "drain")
    /\ UNCHANGED <<fileVars, held, expired, m_Cancelled, call, reply>>

\* shell looks for the word in the output before it looks at timedOut; the
\* other tools answer with what there is.
ShellAnswer(t) ==
    IF printed[t].saysCancelled THEN "cancelled"
    ELSE IF printed[t].timedOut THEN "timedOut" ELSE "ok"

\* The locals go, and with them the pipe.
Report(t) ==
    /\ pc[t] = "report"
    /\ Answer(t, IF call[t].tool = "shell" THEN ShellAnswer(t) ELSE "ok")
    /\ printed' = [printed EXCEPT ![t] = Silence] /\ held' = [held EXCEPT ![t] = FALSE]
    /\ expired' = [expired EXCEPT ![t] = FALSE]
    /\ UNCHANGED <<fileVars, child, m_Cancelled, call>>

ProcStep(t) ==
    \/ Spawn(t) \/ SpawnFails(t) \/ ReadLineFails(t)
    \/ TestCancelled(t) \/ TestRound(t) \/ AfterLoop(t) \/ Report(t)

\* The command: it ends, or whoever it left behind does; and time passes.
ChildExits(t) ==
    /\ Running(t) /\ child' = [child EXCEPT ![t] = "exited"]
    /\ UNCHANGED <<fileVars, held, printed, expired, m_Cancelled, pc, call, reply>>

Release(t) ==
    /\ held[t] /\ held' = [held EXCEPT ![t] = FALSE]
    /\ UNCHANGED <<fileVars, child, printed, expired, m_Cancelled, pc, call, reply>>

Expire(t) ==
    /\ child[t] # "none" /\ pc[t] # "done" /\ ~expired[t]
    /\ expired' = [expired EXCEPT ![t] = TRUE]
    /\ UNCHANGED <<fileVars, child, held, printed, m_Cancelled, pc, call, reply>>

\* The transport looks up a call in flight and passes its id on.
Cancel(id) ==
    /\ \E t \in Thread : call[t].id = id /\ call[t].tool = "shell" /\ pc[t] # "done"
    /\ m_Cancelled' = m_Cancelled \cup {id}
    /\ UNCHANGED <<fileVars, child, held, printed, expired, pc, call, reply>>

-----------------------------------------------------------------------------
FileStep(t) ==
    \/ EditOpen(t) \/ EditOpenFails(t)
    \/ EditWrite(t) \/ EditWriteFails(t) \/ EditWriteStops(t)
    \/ (\E path \in Inside : SearchFile(t, path)) \/ SearchDone(t)

Arrive(t) ==
    \E c \in Call[t] : \/ Read(t, c) \/ EditRead(t, c) \/ Search(t, c)
                       \/ Project(t, c) \/ StartProc(t, c)

Environment(t) == ReadLine(t) \/ ChildExits(t) \/ Release(t) \/ Expire(t)

Next ==
    \/ \E t \in Thread : Arrive(t) \/ FileStep(t) \/ ProcStep(t) \/ Environment(t)
    \/ \E t \in Thread : Cancel(call[t].id)

\* Threads are scheduled; processes and clients owe nothing, but a read of a
\* process that prints gets the line.
Spec ==
    /\ Init /\ [][Next]_vars
    /\ \A t \in Thread : WF_vars(FileStep(t) \/ ProcStep(t) \/ ReadLine(t))

-----------------------------------------------------------------------------
\* Types; and the output of a process is kept only while the tool waits for it.
TypeOK ==
    /\ pc \in [Thread -> {"idle", "open", "write", "search", "spawn", "append",
                          "test", "after", "drain", "report", "done"}]
    /\ child \in [Thread -> {"none", "running", "exited", "killed"}]
    /\ \A t \in Thread : printed[t] # Silence =>
          pc[t] \in {"append", "test", "after", "drain", "report"}

\* The file is exactly these lines: each ends in a newline, the last one too, and
\* none in a carriage return.
IsLines(file, texts) ==
    /\ file.kind = "text" /\ file.newline /\ ParseFile(file) = texts
    /\ \A i \in DOMAIN file.lines : ~file.lines[i].cr

\* An edit is accepted exactly when its hunks name lines of the file it read by
\* their hashes, and none twice.  Unless another edit of the file comes in between,
\* one that is refused leaves every byte as it was, and one that is answered with
\* "Updated" leaves the lines it read with each hunk in the place of those it names,
\* all with a bare newline at the end, whatever line endings the file had; or, if
\* the file system did not take all of it, no more than a beginning of that.
LoneEditIsExact ==
    \A t \in Thread : call[t].tool = "edit" /\ reply[t] \in {"updated", "refused"} =>
        LET file   == files[call[t].path]
            texts  == ParseFile(found[t].snapshot)
            result == OrBlank(Spliced(texts, call[t].hunks))
        IN  /\ (reply[t] = "updated") = Valid(texts, call[t].hunks)
            /\ ~disturbed[t] =>
                  CASE reply[t] = "refused" -> file = found[t].snapshot
                    [] reply[t] = "updated" /\ ~cutShort[t] -> IsLines(file, result)
                    [] OTHER -> \/ file = Empty
                                \/ \E n \in 1 .. Len(result) - 1 :
                                      IsLines(file, SubSeq(result, 1, n))

\* What holds of the files: whatever edits run and wherever each stops, a file
\* is lines of known texts, and one that nobody else disturbs is as it should be.
EditsInv ==
    /\ files \in [Path -> File]
    /\ LoneEditIsExact

\* shell answers ok only for a command that came to its own end: whatever the
\* order of its end, the deadline, a cancellation and a flood of output, one
\* that was stopped is never reported as done.
ShellOkMeansFinished ==
    \A t \in Thread : call[t].tool = "shell" /\ reply[t] = "ok" => child[t] = "exited"

\* What holds of the tools' threads and processes at every step.
ToolsInv == TypeOK /\ ShellOkMeansFinished

\* A tool whose time is up returns, however much its process prints, unless a
\* process that the command has left behind keeps the output open.
ReturnsUnlessHeld ==
    \A t \in Thread : expired[t] /\ ~held[t] ~> pc[t] = "done"

\* "Stale hashes write nothing": when an edit opens the file to write it, its
\* hunks still name the lines by the hashes that the file has.
StaleHashesWriteNothing ==
    [][\A t \in Thread : pc[t] = "open" /\ pc'[t] = "write" =>
          Valid(ParseFile(files[call[t].path]), call[t].hunks)]_vars
=============================================================================
