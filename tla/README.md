# ToolSmith: a TLA+ verification project

ToolSmith is an MCP server in C++: it exposes tools (built in, native plugins,
scripts, child MCP servers) over JSON-RPC on stdin/stdout or over HTTP. This
directory holds TLA+ models of its concurrent and stateful parts, the TLC runs
that check them on small instances, and TLAPS proofs for every size of
instance. Paths below are relative to the repository.

## Inventory

| Component | State it keeps | Operations | What is hard, and what must hold |
| --- | --- | --- | --- |
| `core/ThreadPool` | task queue, stop flag, workers | Submit, worker loop, Shutdown | lost wake-ups; Shutdown with a backlog; every accepted task runs once |
| `server/StdioTransport` (JSON-RPC) | `m_Running`, `m_Initialized`, in-flight map | Run, Dispatch, `tools/call` on the pool, batch, cancel, Stop | answers from several threads, cancel against completion, Run returning under its workers |
| `server/StdioTransport` (resources) | subscriptions, mtimes, watcher thread, stop flag | subscribe, unsubscribe, poll, join | stop and restart of a thread; join with a lock in hand |
| `plugins/NativePluginAdapter` | three atomics, cancelled ids | ExecuteAsync, Cancel, Shutdown | check-then-act on each atomic, breaker and limit under concurrent calls |
| `core/ToolProfile`, server entry | advertised set at start-up | Detect, Normalize, Resolve, pinning | empty sets with two meanings, order of enable, disable and pins |
| `commands/CoreTools` (catalog, activate, deactivate, skills) | `CoreRuntime::advertised`, `locked` | change and copy into the registry | two sets, two locks |
| `commands/CommandRegistry` | commands, filter, chaining flag | Register, Replace, Resolve, List, ExecuteWithChaining | replacing a command that is executing; chains and cancellation |
| `plugins/NativePluginLoader`, `DlPlugin`, `ScriptPluginLoader` | what is loaded, modification times | LoadAll, directory watchers | partial registration, a failed reload that is never tried again |
| `plugins/StdioMCPAdapter`, `SubprocessPipe` | child process, pipe, respawn count | EnsureRunning, SendRequest, Cancel, Shutdown | late answers, respawn limit, lock order |
| `plugins/ScriptPluginAdapter` | cancelled ids, temporary files | ExecuteAsync, DiscoverTools | a time-out that leaves the subprocess behind; files shared by all calls |
| `core/Hashline`, `core/WorkspaceJail`, `commands/CoreTools` (read, edit, search, shell, git, build, test, diagnose, project) | the workspace's files, a process per call, cancelled ids | one per tool, RunProc | two edits of one file; hunks in any order; deadline, cancellation and the end of a process at once |
| `core/ProtocolHandler`, `security`, `validation` | token buckets, last validation error | HandleRequest, AllowRequest, Validate | order of the gates; integer refill; handler threads that share a validator |
| `discovery`, `skills`, `llm`, `http`, `capi`, `csharp`, `core/Config`, `core/Logger` | fixed after start-up | lookups, parsing, wrappers | sequential; covered by the unit tests |

How they interact: `StdioTransport::Run` submits each `tools/call` with an id
to the shared `ThreadPool`; a worker runs `HandleToolsCall`, which goes through
`CommandRegistry::ExecuteWithChaining` to an adapter or a core tool and writes
the answer itself. `notifications/cancelled` looks the id up in the in-flight
map and calls `Cancel` of that command from the reader. `activate` and
`deactivate` are such tools and change what `tools/list` shows. The loaders'
watchers register and replace commands from threads of their own. Over HTTP the
library's threads each take a request through `ProtocolHandler` and its gates to
the same registry.

The hazards met while reading, each at its line, are in `PROJECT.json`.

## Modules

- `TaskPool` is what the pool promises: accepted tasks start first-in
  first-out on free workers, started tasks finish, a closed pool refuses new
  tasks and runs the ones it has.
- `ThreadPool` is `core/ThreadPool`: the queue under `m_Mtx`, the wait set of
  `m_Cv`, `notify_one` as a step after the unlock, spurious wake-ups, the three
  steps of Shutdown. `ImplementsTaskPool` maps it to `TaskPool`.
- `StdioTransport` is the reader (`mpc`, `mmsg`) and the calls (`stage`, `hop`
  per thread) on top of `TaskPool`. One action per branch of `Run` and per
  step of `HandleToolsCall` that another thread can observe: refuse, register,
  chain, end (erase under the lock), finish (write). A tool in `Hanging` may
  never return. The answer of a tool, and a list of tools, may hold text that is
  not UTF-8; then `dump()` throws instead of writing, and `HandleToolsCall` also
  throws for arguments that are not an object. On a worker the future swallows
  the exception and nobody answers (`swallowed`). The handlers that only
  compute an answer are operators from a message to the kind of answer. A
  message is its method, id, tool and what the handlers distinguish in its
  params. An exception on the reader leaves Run and ends the process (`Alive`), as
  nothing in the server entry catches it.
- `ResourceWatcher` is the subscription half of the same class. A critical
  section without blocking is one step; the watcher's scan and the join inside
  unsubscribe hold the mutex over several. `resources/subscribe` and
  `/unsubscribe` are left out of `StdioTransport`: they share only the output
  with it.
- `NativePluginAdapter` has one step per access to an atomic. A call returns
  from the plugin after any time, since the code measures it afterwards; late
  or in time is a choice made when the clock is read.
- `ToolAdvertising` covers `ToolProfile`, the start-up part of
  `server_entry.cpp`, the filter of `CommandRegistry` and the tools that change
  it. Refused requests change nothing and have no step. The copy that
  `SyncAdvertised` passes on is part of the state, because the registry's lock
  is taken after it is made.
- `StdioMCPAdapter` is one tool of a child MCP server with the pipe to it, from
  `ReplaceCommand` to the destructor. The streams hold which request a line is
  about, since the code does not compare ids; the child writes one line for
  each request, may answer at any time, hang, die in the middle of a line, or
  exit and leave a process behind that keeps its pipes open (`left`). Then
  `ReadLine` drains stdout in a read without a deadline, and a large write waits
  (`Held`).
  `ReadLine` may fail with a line on its way, as its deadline is tested first.
  `WriteLine` reports a small line written even to a dead child: `fwrite`
  fills a buffer and the result of `fflush` is not looked at. A large line
  waits for the child. A thread's reference to the adapter is part of its
  place (`InFlight`), and the last one to go destroys the pipe. `Cancel` is
  left out: it finds nothing, because `ExecuteAsync` builds the params without
  the top-level `_requestId` that would fill `m_InFlightRequests`.
- `PluginReload` is the registry with both loaders from start-up to the end of
  the server. The plugins directory is written by somebody else, and a file is
  there in part before it is whole. A command is the plugin it belongs to,
  the time of the `plugin.json` it was made from and how much of the plugin's
  list was left when it was made: a plugin may list a name twice, each makes a
  command of its own, and the second replaces the first. `LoadOne` registers one tool
  per step, and `ReplaceCommand` and the Shutdown of the old command are two
  steps, as the lock ends between them. What a binary or script offers is a
  table by version. Discovery of a script may bring nothing or never end; that of
  a child server ends by its time-out, unless a process the child left behind
  holds the drain of its output. The same can hold the Shutdown of a replaced
  child server's command. `retired`, `silent`, `threw` and `gaveUp` are history for
  the properties.
- `RateLimiter` is `AllowRequest` over a clock, with `size_t` as a number modulo
  `Word`. `ScriptPluginAdapter` is `ExecuteAsync`: the counter, the temporary
  file, the detached script and the time-out. `HttpServer` composes both with
  `ProtocolHandler` and the routes: the gates run in the code's order in one
  step, since they hold no lock in between that another thread could observe
  except for the limiter's, and the schema validator's error text, written and
  then read without a lock, has a step of its own. Two threads at it at once
  are undefined behaviour, which here either does nothing or ends the process.
- `Hashline` holds the pure functions: `ApplyHunks` as the code has it, and
  `Valid` and `Spliced`, which say what it should compute with no order in it.
  `Sorted` is some order that `std::sort` may leave, `FromTop` the one for the
  overlap check and `FromBottom` the one for the loop (`ApplyInOrder`), which
  applies each hunk to what the last one left. A `Hunk` is what `EditCommand`
  makes of two anchors it could parse. Line hashes are a table with a collision.
- `WorkspaceTools` is the rest of `CoreTools`. Reading with its check, opening
  (which truncates) and writing are the three steps of an edit. A file is its lines
  with their carriage returns and whether the last one ends in a newline. The file
  system may take nothing or the first lines of what is written, and `edit` does
  not notice (`cutShort`). `RunProc` has
  one step per test of its loop, against a process that prints, ends, or leaves
  behind another process that keeps its output open (`held`).
- The `*Proofs` modules hold the theorems. `StdioTransportProofs` is about both
  halves of that class, and `HttpServerProofs` about the limiter and the script
  adapter too. `ResourceWatcher` names its reader `rpc` and its specification
  `WatchSpec` so that one module can speak of both halves. The `MC*` modules
  only give constants their values.

Operators introduced by "Fault:" are altered forms of the operator after them,
the way a plausible mistake would alter it. No specification uses them; each
property is shown to notice at least one.

## Runs

| Run | Instance | Shows |
| --- | --- | --- |
| `thread_pool` | 3 tasks, 3 workers | accounting, no lost wake-up, no sleeper joined, drained Shutdown that returns, refinement of `TaskPool` with liveness |
| `stdio_transport` | 2 workers, 9 client sessions of 3 to 5 lines in any order, one of two tools may not return, any answer of a tool may not be encodable | at most one answer per request; a request without one is in somebody's hands or its call threw in the pool, which only calls that reached their tool do; `TransportInv` (exact in-flight map, no call refused after `initialize`); cancellation reaches the tool; every request is answered, and Run returns drained, but for calls that threw in the pool or do not return |
| `resource_watcher` | 2 files, each modified twice, removable | `WatcherInv` (no thread outlives Run, watched exactly while subscribed), no notification after unsubscribe, changes picked up, no hang but one |
| `native_plugin` | 3 callers, room for 2, breaker at 3 | exact active count; bounded overshoot; an open breaker is closed by a call that was inside or lets nobody in again; after Shutdown the plugin comes to rest |
| `tool_advertising` | 480 start-up settings, 2 threads | `AdvertisingInv` (once a filter is installed, catalog, tools/list and the skill gate agree between two changes); `LawfulChange` (a change is local, locked tools leave only when named as a pack); start-up does what was asked |
| `stdio_mcp` | 3 calls, one larger than the pipe, 2 spawns | a child whose handshake succeeded answers each call with its own reply; no child is left behind; calls return, and a replaced tool ends with no child, unless a large write waits for a child that does not read, or a process left behind holds a write or the drain |
| `plugin_reload` | 1 binary, a script and a child server with colliding names, 3 start-ups (which plugins are there, profile all or gated, a canonical directory or not), each `plugin.json` saved in two writes, that of a child server present at start-up saved whole again | `RegistryInv` (commands are shut down exactly when replaced; what a watcher registers is announced unless registration threw half way); a name changes hands only by a script's reload; a reload ends served or given up; a plugin saved for the first or the second time is served with all its tools, or its one attempt failed; the server ends unless a script or a child server holds the script watcher |
| `http_requests` | 2 handler threads, 10 requests of every kind, limits 0 and 2, a minute of 3 seconds | `RateInv` (never more requests than the bucket and its refill); `ScriptInv` (a script sees its own call's arguments or none, no file is left); `HttpInv` (200 only for a tool that succeeded with these arguments); every request is answered unless the race on `m_LastError` ends the process |
| `workspace_tools` | 2 threads, every tool, files of 2 and 3 lines, 1 or 2 hunks of 9 kinds | `EditsInv` (an edit is refused exactly when its hunks are not valid, and then leaves every byte; otherwise, unless another edit of the file came in between, it leaves the lines of its reference definition with bare newlines, or a beginning of them if the file system refused the rest); `ToolsInv` (a `shell` command that was stopped is never reported ok); a tool whose time is up returns unless its output is held open |
| `watcher_join_deadlock` | 2 files | **violated**: unsubscribe joins the watcher under the mutex the watcher wants |
| `stale_handshake` | as `stdio_mcp` | **violated**: after a failed handshake of a respawned child the next call gets the reply to `initialize` |
| `lost_edit` | as `workspace_tools` | **violated**: an edit writes although the hashes it checked have become stale |

Beyond the three violated runs, the models show these differences between
the code and what is said of it:

- `README.md:23` says a plugin cannot block other tools. `NativePluginAdapter`
  calls the plugin on the pool's thread and reads the clock when it returns, so
  as many plugins that do not return as there are workers block every call.
  `RequestsAnswered` asks for one worker that is not taken up that way.
- The same line says a plugin cannot crash the server. `CommandRegistry.cpp:162` cuts
  a description at `kDescriptionMaxChars` bytes, perhaps inside a character; then the
  answer to `tools/list` makes `dump()` throw on the reader (`StdioTransport.cpp:840`)
  and the process ends. The properties speak of a process that lives (`Alive`).
- A call whose answer is not UTF-8 (a Latin-1 file, a line cut inside a character),
  or whose arguments are not an object, is never answered: the exception stays in a
  future that nobody looks at (`StdioTransport.cpp:114`). `AnswersInv` and
  `ReturnedMeansDrained` have this exemption, and say that no other request is lost.
- `src/commands/CoreTools.cpp:732` says core tools cannot be removed;
  `deactivate` with `pack=read` removes `read`, as the pack branch does not ask
  whether the name is locked. `LawfulChange` has this exemption.
- In profile all the first `activate` installs a filter with that pack alone
  (`include/commands/CoreTools.h:22`), and every other tool leaves `tools/list`.
- The time-out of `shell` is not enforced while a process left behind keeps the
  output open: the drain after the loop blocks in a read. `ReturnsUnlessHeld`
  has this exemption. `git`, `build`, `test` and `diagnose` answer ok after a
  command that was killed, and `ToolsInv` is about `shell` only. The answer's
  exit code is that of no process: it is 0
  whatever the command returned.
- A reload that fails is not tried again until `plugin.json` is saved again,
  since its time is noted first (`ScriptPluginLoader.cpp:76`).
- `edit` answers that the file was updated although nothing, or a part, of it was
  written (`CoreTools.cpp:275`), and it takes the carriage returns out of lines that
  no hunk names; `Hashline.cpp:168` means to keep the file's last newline as it was,
  and the result always ends in one.
- A rate limit of 0 allows the first request and, until a second has passed,
  as many as `size_t` can count.

Bounds. Three workers and tasks give every constellation of a sleeping, a
woken and a busy worker with a task queued. Two workers and three calls fill
the pool; two calls share an id in two of the sessions, as the ids `1` and
`"1"` do. One tool that may not return and two workers leave one to answer the
others; both are taken up when a second call
chains to it. A chain has one link (`MaxChainDepth`): a second adds nothing a
property tells apart. Two files separate "this one" from "the others", and two
modifications give a change during a scan. Three callers are one more than the
tool has room for, and enough to open the breaker with calls still inside.
Three calls are one more than `kMaxRespawnRetries` in `stdio_mcp`, so the limit
is reached and met again; the program's own limit of 3 takes a fourth call.
In `plugin_reload` the binary's second tool is also the script's and the
script's other tool is a core tool's name, so that every way to collide occurs;
the second version of the child server's list has its tool twice and ends with
an empty name, so that a reload replaces its own command and then throws. The
child server is there from the start with time 1, and `MaxStamp` 3 gives it one more
save of two writes; the script, with 2, is there from the start or saved whole once.
Two calls over HTTP (`MaxCalls`) are one per thread: the second thread's
script, file and arguments are what could be mistaken for the first's. `Word` is
7, above the counts that occur, so that only the limit of 0 wraps, as in the
program. Two hunks on three lines give every pair of neighbours, overlaps and
gaps.
`Sessions`, `MaxStamp`, `MaxVersion`, `MaxTime`, `MaxCalls`, `Config`,
`PackArg`, `ToolArg`, `Request`, `Files` and `Call` are bounds of the models and not
of the program; `MaxHits` and `MaxLines` are limits of the program made small.

Deadlock checking is off where the program may stop: the pool after Shutdown,
Run after it returned, a failed start-up, an adapter with every call made, a
server that has ended, threads whose one call is answered. `native_plugin` runs with it on.

Fairness. Threads are scheduled: weak fairness for each worker, the reader,
the watcher and each caller. The client, the file system and callers of Stop,
Cancel and Shutdown owe nothing, and neither do child processes, scripts and
whoever deploys plugins. Tools outside `Hanging` return in
`stdio_transport`. A time-out that a
thread waits for with `wait_for` comes, as part of that thread's fairness. A
reader waiting for `m_SubscriptionMutex` gets it although the watcher takes it
again and again (strong fairness on `SubscribeRecord`): the watcher sleeps two
seconds with the mutex free between two scans.

## Proofs

All from the assumptions named in the modules (finite sets of workers and
callers, markers outside the sets they mark, positive limits, lists that hold
names, edits whose hunks have anchors that `EditCommand` can parse: it refuses
the others and writes nothing). Every run evaluates those of its modules. Each invariant that is not
inductive as it stands is strengthened, and the strengthened one was model-checked
on the instances of the runs before it was proved.

- `ThreadPoolProofs`: `TypeOK` and `TaskAccounting` are inductive with each
  other. `ShutdownDrains` needs `DrainInv`: a worker exits only when stopping
  with an empty queue, after which nothing is accepted. `WorkConserving` (a
  worker that sleeps while tasks are queued is outnumbered by pending wake-ups)
  compares a sequence's length with cardinalities, so the proof tracks how each
  action changes them. `NoSleeperJoined` follows with `DrainInv`, since no worker
  falls asleep once the flag is set. `PoolRefinesTaskPool` is the safety half of
  `ImplementsTaskPool`: every step maps to a step of `TaskPool` or a stutter.
- `NativePluginProofs`: `ActiveExact` is inductive with `TypeOK`, and makes the
  decrement safe. `FaultsBounded` counts the faults together with the callers
  past the breaker, which is what makes it inductive: passing the breaker needs
  a count below the limit, and counting a fault takes a caller away.
- `StdioMCPProofs`: `GreetedChildAnswersOwn` says nothing of the streams, which
  is where the danger lies. The invariant adds who is inside the mutex
  (`MutexInv`), that a child being greeted has answered nobody (`GreetInv`),
  and what the streams of a greeted child hold at each place (`StreamInv`):
  nothing while the mutex is free and `m_Initialized` is set, nothing before a
  request is written, and at most one line, about that request, until it is
  read. A timeout breaks the first of these, and clearing `m_Initialized` is
  what excuses it. `NoOrphanChild` follows from `ChildInv`: only the child in
  `m_Pipe` runs, and an adapter without references has none.
- `StdioTransportProofs`, the calls: none of `TransportInv`, `AnsweredOnce`,
  `ReturnedMeansDrained` and `CancelReachesNamedTool` is inductive, because each
  looks at one end of a call's way. `TransportIInv` follows the way: an accepted
  call is queued once, on one worker or done (`Placed`); Run holds a future of
  every call the pool has, and its own place says which message it has in hand
  (`Calls`); a message has no answer until it leaves the last of these places
  (`Answers`); `m_Initialized` covers every call read after `initialize`
  (`Initialized`); a thread at depth 0 executes the tool its message names
  (`Executing`); and a cancellation is delivered or the reader is about to
  (`Cancelled`). A call that throws leaves without an answer but is `swallowed` and
  done, so `ReturnedMeansDrained` can name it. The worker that unlocks the map before it writes and the reader
  that calls `Cancel` after unlocking it are both covered, as those are steps of
  their own. `TransportUsesPool` ties this to the pool's proofs: the transport
  takes only steps of `TaskPool`, and by `CallsAreNew` the guard of its `Submit`
  never holds the reader back. `NoRequestLost` says the same of answers: with
  `TransportIInv`, each step that lets go of a request writes its answer or hands
  it on or throws in the pool. `OnlyAdmittedLost` says which calls can throw there:
  those past the gate, with a name and a tool, as a thread inside a tool knows
  (`WorkersReach`).
- `StdioTransportProofs`, the watcher: `WatcherInv` speaks of the reader between
  requests. `WatcherIInv` adds who holds the mutex (`LockInv`), that a scan
  covers subscribed URIs only (`ScanInv`), and what flag, handle and set are at
  each step of a request (`RequestInv`). `NotifiesOnlySubscribed` follows step by
  step, and so does `OnlyUnsubscribeDeadlocks`: a reader that joins a watcher
  which waits for the mutex is inside unsubscribe. The run
  `watcher_join_deadlock` shows that this does happen, the theorem that nothing
  else of the kind can.
- `ToolAdvertisingProofs`: the two copies of the advertised set differ while a
  change is passed on. `Pending` says by how much, and that the copy on its way
  is the current set, since its maker still holds `CoreRuntime::mutex`.
  `StartUpHonoursConfig` rests on lemmas about `Resolve` for every setting.
- `PluginReloadProofs`: "shut down exactly when replaced, and never resolved
  again" needs that a command, once out, is not put back. That holds because
  modification times only grow: `RetiredInv` says that every command there was,
  in the registry or out, is older than what the reload under way registers next
  (`Older`: an earlier time, or the same time with more of the list left).
  `SilentInv` says who put a tool there that is not announced yet: the load in
  progress, or one that threw. `DiskInv` and `ControlInv` are what these rest
  on. `TakenOnlyByReload` is proved action by action. `NotedIsReloaded` needs
  `ReloadInv`: a reload whose list is used up has a command of the noted time in
  the registry, which nobody but the reload itself can take out meanwhile.
- `WorkspaceToolsProofs`: `ToolsInv` is about an answered `shell`; `ThreadOK`
  says of each place in `RunProc` what the process and `timedOut` are there, so
  that a killed process has set `timedOut` by the time the answer is chosen.
  `EditsStayInJail` says that nothing outside the jail changes, though the jail
  is asked once, two steps before the write.
- `WorkspaceToolsProofs`, what `ApplyHunks` computes: `HunksAreSpliced`, for
  every file and list of hunks. The argument goes by least counterexample
  (`LeastNatural`, from the well-foundedness of `<` in the library), which needs
  no operator as a parameter. It shows that a recursive function exists and
  obeys its equation (`Recursion`), that an order to sort into exists
  (`AscendingOrder`), so that `Sorted` is what its `CHOOSE` says, and that
  neighbours apart in that order are pairs apart (`OverlapIsNotDisjoint`). The
  loop's invariant (`LoopInv`) is that the lines above the hunk applied last are
  those of the file, so that the anchors still to come mean what they meant, and
  the rest is what the hunks so far should have made. `Flatten` and `JoinsFollow`
  take `Spliced` apart at the same places. `EditsAreExact` joins this with
  `EditOK` (what is about to be written, that the file is empty between the two
  steps of writing, and what is in it afterwards, whole or cut short, unless another
  edit disturbed it) and proves `EditsInv` for any calls, files and threads.
- `HttpServerProofs`, the limiter: `RateBound` speaks of requests allowed up to now, while
  the code's state is the bucket at its last refill. `Account` says that what
  was allowed and what is left never exceed the limit and what was refilled up
  to `m_LastRefill`; a refill keeps it because rounding down twice loses no less
  than rounding down once (`DivSuperadditive`). The assumption that the limit
  times the seconds of the clock fits into `size_t` keeps the products from
  wrapping, and `ZeroLimit` covers the one count that does wrap.
- `HttpServerProofs`, the script adapter: `OwnArguments` is inductive only with `Numbered`,
  `Fresh` and `Awaited`: numbers not yet given out are unused, waiting calls have
  different ones, and a script that is not overdue has a call that waits.
- `HttpServerProofs`, the server: each step of the server is a step of the limiter or leaves
  it alone, and the same for the script adapter, so `Spec` implies `RateSpec` and
  `ScriptSpec` and inherits their invariants. `HttpInv` adds that a thread's
  call carries its request's arguments (`CallOfRequest`); together with
  `OwnArguments` that makes the script behind a 200 the request's own.

Only model-checked:

- All liveness, since fairness is outside the prover's reach: `ShutdownReturns`
  and the live half of `ImplementsTaskPool`, `RequestsAnswered`, `RunReturns`,
  `ChangesPickedUp`, `ReturnsUnlessJoinDeadlock`, `BreakerSettles`, `ShutdownQuiesces`,
  `CallsReturn`, `ReplacedToolLeavesNoChild`, `SavedPluginServed`,
  `ExitsUnlessHung`, `AnsweredUnlessCrash` and `ReturnsUnlessHeld`.
- That a list filtered by `IsValidToolName` holds names only (`FilterAssumption`):
  it follows from the definition of `SelectSeq`, which the provers here do not
  expand; each run of `PluginReload` evaluates it.

Of the liveness properties `ShutdownReturns`, `RequestsAnswered` and
`SavedPluginServed` the safety is proved (`NoSleeperJoined` in `ShutdownInv`,
`NoRequestLost` in `AnswersInv`, `NotedIsReloaded` in `LawfulReload`): what is waited for is always in somebody's hands, and what
TLC adds is that this somebody goes on.

## Not modelled

Formatting of answers, logging, JSON details beyond what the handlers branch
on, path arithmetic, HTTP itself. `discovery`, `skills`, `llm`, the C interface,
`Config` and `Logger` keep no state that changes after start-up or wrap a
library, and the programs under `plugins/` run outside the server.
`Cancel` of `ScriptPluginAdapter` and of `StdioMCPAdapter` has no effect on a
call: the id is looked up at the top level of the request, and the transport
puts it into the payload. The sets it fills only grow, as those of
`NativePluginAdapter` and `shell` do.
`SkillsCatalogCommand` and `SkillLoadCommand` read the advertised set without
its lock; the model reads it between changes. Enabling a pack of script plugins
registers its tools, but the advertised set is not extended by them
(`src/core/ToolProfile.cpp:109`), so `tools/list` does not show them; the model
has this, and no property is stated about it.
In `stdio_mcp` a child writes one line per request; one that also sends
notifications would put every later reply one call off, because the first line
read is the reply. A write to a child that has just died raises SIGPIPE on POSIX,
and the model has the hosts where it returns.

## Plan

1. Done: the pool, the transport, subscriptions, the native adapter,
   advertising, the child server's adapter; theorems about the pool and both
   adapters.
2. Done: the registry with both loaders (`PluginReload`), the HTTP server with
   its gates and script calls (`HttpServer`), the workspace tools with
   `Hashline` (`WorkspaceTools`); theorems about the HTTP side.
3. Done: theorems about the transport and its watcher, advertising, the registry
   under reload and the workspace tools.
4. Done: `ApplyHunks` for every input, edits in every interleaving, and the
   safety behind three of the liveness properties. Every invariant and every
   action property that a passing run checks is proved for all instances.
5. Left: the safety behind the other liveness properties, such as who holds what
   when a call to a child server has not returned; the components listed as not
   modelled.
