---------------------------- MODULE PluginReload ----------------------------
(***************************************************************************)
(* commands/CommandRegistry with the two plugin loaders that fill it:      *)
(* NativePluginLoader (shared libraries, through DlPlugin) and             *)
(* ScriptPluginLoader (scripts and child MCP servers), from start-up to    *)
(* the end of the server.  With profile all each loader keeps a watcher    *)
(* thread that looks at the plugins directory again and again while        *)
(* somebody else writes there.                                             *)
(*                                                                         *)
(* A command is who provides it: the plugin, the modification time of the   *)
(* plugin.json it was made from (0 for built-in and native tools; at        *)
(* start-up mtimeMap holds that time, which the code does not keep), and    *)
(* how much of the plugin's list was left in the reload that made it: a     *)
(* plugin may list a name twice, and each makes a command of its own.       *)
(***************************************************************************)
EXTENDS Naturals, Sequences, FiniteSets

CONSTANTS Tool,             \* tool names
          Core,             \* the tools registered before any plugin
          Bin,              \* native plugin binaries
          Dir,              \* directories of script plugins
          McpStdio,         \* those whose runtime is mcp-stdio
          Outside,          \* those whose entrypoint leads out of the root
          Allowed,          \* plugins whose packs are active when gating
          Offers,           \* the tools a binary, or an entrypoint by version, lists
          NoName,           \* an empty tool name
          Deployed,         \* how the server may be started: with which plugins there,
                            \* profile all or not, a canonical directory or not
          MaxStamp, MaxVersion, \* bounds on saves of each plugin.json and entrypoint
          None

AnyCommand == [plugin : {"core"} \cup Bin \cup Dir, stamp : Nat, left : Nat]

IsValidToolName(t) == t # NoName

ASSUME ReloadAssumption ==
    /\ Core \subseteq Tool /\ NoName \notin Tool
    /\ McpStdio \subseteq Dir /\ Outside \subseteq Dir /\ Bin \cap Dir = {}
    /\ None \notin Bin \cup Dir /\ None \notin AnyCommand
    /\ Deployed \subseteq [plugins : SUBSET (Bin \cup Dir), loadAll : BOOLEAN,
                           canonicalRoot : BOOLEAN]
    /\ MaxStamp \in [Dir -> Nat \ {0}] /\ MaxVersion \in [Dir -> Nat \ {0}]
    /\ \A b \in Bin : Offers[b] \in Seq(Tool)
    /\ \A d \in Dir : \A v \in 1 .. MaxVersion[d] : Offers[d][v] \in Seq(Tool \cup {NoName})

\* A list less its invalid names is a list of names.  It follows from the last
\* line above, but not for a prover that knows nothing of SelectSeq.
ASSUME FilterAssumption ==
    \A d \in Dir : \A v \in 1 .. MaxVersion[d] :
        SelectSeq(Offers[d][v], IsValidToolName) \in Seq(Tool)

VARIABLES
    manifest, script, binary,   \* the plugins directory
    loadAll,                    \* resolved.loadAllPlugins: profile all
    canonicalRoot,              \* the directory was configured as its canonical path
    m_Commands,                 \* the registry: a command or None, by tool
    shutDown,                   \* commands whose Shutdown has been called
    phase, todo, found,         \* the main thread, and what discovery brought
    npc, ntodo, nbin, nrest, loaded,        \* native: watcher, scan, LoadOne
    spc, stodo, sdir, srest, mtimeMap,      \* script: watcher, scan, plugin
    m_WatcherStop,
    retired, silent,            \* history: see the properties
    threw, gaveUp               \* history: see LoadOneThrows, Abandon

disk   == <<manifest, script, binary>>
conf   == <<loadAll, canonicalRoot>>
main   == <<phase, todo, found>>
native == <<npc, ntodo, nbin, nrest, loaded>>
scripts == <<spc, stodo, sdir, srest, mtimeMap>>
vars == <<disk, conf, m_Commands, shutDown, main, native, scripts,
          m_WatcherStop, retired, silent, threw, gaveUp>>

Command(plugin, stamp, left) ==
    [plugin |-> plugin, stamp |-> stamp, left |-> left]
Registered(t) == m_Commands[t] # None

Init ==
    /\ \E D \in Deployed :
          /\ loadAll = D.loadAll /\ canonicalRoot = D.canonicalRoot
          /\ manifest = [d \in Dir |-> IF d \in D.plugins THEN [state |-> "good", stamp |-> 1]
                                      ELSE [state |-> "absent", stamp |-> 0]]
          /\ script = [d \in Dir |-> IF d \in D.plugins THEN 1 ELSE 0]
          /\ binary = [b \in Bin |-> IF b \in D.plugins THEN "good" ELSE "absent"]
    /\ m_Commands = [t \in Tool |-> IF t \in Core THEN Command("core", 0, 0) ELSE None]
    /\ shutDown = {}
    /\ phase = "native" /\ todo = Bin /\ found = [d \in Dir |-> <<>>]
    /\ npc = "none" /\ ntodo = {} /\ nbin = None /\ nrest = <<>> /\ loaded = {}
    /\ spc = "none" /\ stodo = {} /\ sdir = None /\ srest = <<>>
    /\ mtimeMap = [d \in Dir |-> 0]
    /\ m_WatcherStop = [native |-> FALSE, script |-> FALSE]
    /\ retired = {} /\ silent = {} /\ threw = {} /\ gaveUp = None

-----------------------------------------------------------------------------
(* Whoever writes to the plugins directory.  A file is there in part before *)
(* it is there as a whole, and each write gives plugin.json a later time.   *)

SaveManifest(d) ==
    /\ manifest[d].stamp < MaxStamp[d]
    /\ manifest' = [manifest EXCEPT
          ![d] = [state |-> IF @.state = "partial" THEN "good" ELSE "partial",
                  stamp |-> @.stamp + 1]]
    /\ UNCHANGED <<script, binary>>

SaveScript(d) ==
    /\ script[d] < MaxVersion[d]
    /\ script' = [script EXCEPT ![d] = @ + 1]
    /\ UNCHANGED <<manifest, binary>>

CopyBinary(b) ==
    /\ binary[b] # "good"
    /\ binary' = [binary EXCEPT ![b] = IF @ = "absent" THEN "partial" ELSE "good"]
    /\ UNCHANGED <<manifest, script>>

Deploy ==
    /\ \/ \E d \in Dir : SaveManifest(d) \/ SaveScript(d)
       \/ \E b \in Bin : CopyBinary(b)
    /\ UNCHANGED <<conf, m_Commands, shutDown, main, native, scripts,
                   m_WatcherStop, retired, silent, threw, gaveUp>>

-----------------------------------------------------------------------------
(* CommandRegistry                                                         *)

CanRegister(t) == t # NoName /\ ~Registered(t)

\* Fault: a name that is taken is overwritten.
Overwrite(t, command) == m_Commands' = [m_Commands EXCEPT ![t] = command]

\* RegisterCommand when it does not throw.
RegisterCommand(t, command) ==
    /\ CanRegister(t)
    /\ m_Commands' = [m_Commands EXCEPT ![t] = command]

-----------------------------------------------------------------------------
(* NativePluginLoader::LoadOne: by the main thread at start-up, later by    *)
(* the watcher.                                                            *)

\* DlPlugin::Load and ListTools bring tools: the library opens, has all the
\* symbols, the host's major version, a manifest with a name, and creates.
DlLoads(b) == binary[b] = "good" /\ Offers[b] # <<>>

BeginLoad(b) == nbin' = b /\ nrest' = Offers[b]
EndLoad == nbin' = None /\ nrest' = <<>>

Runtime == phase # "native"

LoadOneTool ==
    /\ nbin # None /\ nrest # <<>>
    /\ RegisterCommand(Head(nrest), Command(nbin, 0, 0))
    /\ nrest' = Tail(nrest)
    /\ silent' = IF Runtime THEN silent \cup {Head(nrest)} ELSE silent
    /\ UNCHANGED <<disk, conf, shutDown, main, npc, ntodo, nbin, loaded, scripts,
                   m_WatcherStop, retired, threw, gaveUp>>

\* A collision throws: start-up fails, the watcher goes on to the next binary
\* and keeps what it has registered.
LoadOneThrows ==
    /\ nbin # None /\ nrest # <<>> /\ ~CanRegister(Head(nrest))
    /\ EndLoad
    /\ phase' = IF Runtime THEN phase ELSE "failed"
    /\ threw' = IF Runtime THEN threw \cup {<<nbin, 0>>} ELSE threw
    /\ UNCHANGED <<disk, conf, m_Commands, shutDown, todo, found, npc, ntodo,
                   loaded, scripts, m_WatcherStop, retired, silent, gaveUp>>

\* All tools are registered: FireNotification, and the watcher remembers the
\* canonical path.
LoadOneNotifies ==
    /\ nbin # None /\ nrest = <<>>
    /\ EndLoad
    /\ silent' = {t \in silent : m_Commands[t].plugin # nbin}
    /\ loaded' = IF Runtime THEN loaded \cup {<<nbin, "canonical">>} ELSE loaded
    /\ UNCHANGED <<disk, conf, m_Commands, shutDown, main, npc, ntodo, scripts,
                   m_WatcherStop, retired, threw, gaveUp>>

LoadOneStep == LoadOneTool \/ LoadOneThrows \/ LoadOneNotifies

-----------------------------------------------------------------------------
(* Start-up, on the main thread: both LoadAll, then the watchers.          *)

Loads(plugin) == loadAll \/ plugin \in Allowed

LoadAllNative(b) ==
    /\ phase = "native" /\ nbin = None /\ b \in todo
    /\ todo' = todo \ {b}
    /\ IF Loads(b) /\ DlLoads(b) THEN BeginLoad(b) ELSE UNCHANGED <<nbin, nrest>>
    /\ UNCHANGED <<disk, conf, m_Commands, shutDown, phase, found, npc, ntodo,
                   loaded, scripts, m_WatcherStop, retired, silent, threw, gaveUp>>

\* A plugin.json with a runtime, and its entrypoint, are there.
Loadable(d) == manifest[d].state = "good" /\ script[d] > 0

\* Phase 1 of ScriptPluginLoader::LoadAll; without profile all it runs only if
\* packs were enabled.
CollectScripts ==
    /\ phase = "native" /\ nbin = None /\ todo = {}
    /\ phase' = "scripts"
    /\ todo' = IF loadAll \/ Allowed # {}
               THEN {d \in Dir \ Outside : Loads(d) /\ Loadable(d)} ELSE {}
    /\ found' = [d \in Dir |-> IF d \in todo' THEN <<"pending">> ELSE <<>>]
    /\ mtimeMap' = [d \in Dir |-> manifest[d].stamp]
    /\ UNCHANGED <<disk, conf, m_Commands, shutDown, native, spc, stodo, sdir,
                   srest, m_WatcherStop, retired, silent, threw, gaveUp>>

\* DiscoverTools of ScriptPluginAdapter: the valid names, or nothing after any
\* failure; a script that does not end is waited for without a deadline.
DiscoverScriptTools(d) ==
    {SelectSeq(Offers[d][script[d]], IsValidToolName), <<>>, <<"hung">>}

\* DiscoverTools of StdioMCPAdapter, with a child of its own: all names; nothing
\* after any failure, a time-out too; or no end, when it blocks in the write or in
\* ReadLine's last read, which has no deadline and waits for whoever else holds
\* the output of a child that has exited.
DiscoverServerTools(d) == {Offers[d][script[d]], <<>>, <<"hung">>}

Outcomes(d) == IF d \in McpStdio THEN DiscoverServerTools(d) ELSE DiscoverScriptTools(d)

\* Phase 2: in parallel on the shared pool.
DiscoverScripts(d) ==
    /\ found[d] = <<"pending">>
    /\ \E tools \in Outcomes(d) : found' = [found EXCEPT ![d] = tools]
    /\ UNCHANGED <<disk, conf, m_Commands, shutDown, phase, todo, native, scripts,
                   m_WatcherStop, retired, silent, threw, gaveUp>>

\* Phase 3: the futures in the order of the directory, which is any order.
AwaitScript(d) ==
    /\ phase = "scripts" /\ sdir = None /\ d \in todo
    /\ sdir' = d /\ todo' = todo \ {d}
    /\ UNCHANGED <<disk, conf, m_Commands, shutDown, phase, found, native, spc,
                   stodo, srest, mtimeMap, m_WatcherStop, retired, silent, threw, gaveUp>>

\* One plugin's tools up to the first that throws; the main thread is alone.
RegisterScripts ==
    /\ phase = "scripts" /\ sdir # None
    /\ found[sdir] \notin {<<"pending">>, <<"hung">>}
    /\ LET tools == found[sdir]
           prefix == {i \in DOMAIN tools :
                         \A j \in 1 .. i : /\ CanRegister(tools[j])
                                           /\ \A k \in 1 .. j - 1 : tools[k] # tools[j]}
       IN  m_Commands' = [t \in Tool |-> IF \E i \in prefix : tools[i] = t
                                         THEN Command(sdir, mtimeMap[sdir], 0)
                                         ELSE m_Commands[t]]
    /\ sdir' = None
    /\ UNCHANGED <<disk, conf, shutDown, main, native, spc, stodo, srest,
                   mtimeMap, m_WatcherStop, retired, silent, threw, gaveUp>>

StartWatchers ==
    /\ phase = "scripts" /\ sdir = None /\ todo = {}
    /\ phase' = "serving"
    /\ npc' = IF loadAll THEN "start" ELSE "none"
    /\ spc' = IF loadAll THEN "start" ELSE "none"
    /\ UNCHANGED <<disk, conf, m_Commands, shutDown, todo, found, ntodo, nbin,
                   nrest, loaded, stodo, sdir, srest, mtimeMap, m_WatcherStop,
                   retired, silent, threw, gaveUp>>

Startup ==
    \/ \E b \in Bin : LoadAllNative(b)
    \/ CollectScripts
    \/ \E d \in Dir : AwaitScript(d)
    \/ RegisterScripts \/ StartWatchers

-----------------------------------------------------------------------------
(* The watcher of NativePluginLoader                                       *)

\* What was there before: spelled as the directory was configured.
NativeStart ==
    /\ npc = "start" /\ npc' = "sleep"
    /\ loaded' = {b \in Bin : binary[b] # "absent"}
                    \X {IF canonicalRoot THEN "canonical" ELSE "asFound"}
    /\ UNCHANGED <<disk, conf, m_Commands, shutDown, main, ntodo, nbin, nrest,
                   scripts, m_WatcherStop, retired, silent, threw, gaveUp>>

NativeWake ==
    /\ npc = "sleep"
    /\ IF m_WatcherStop.native THEN npc' = "exited" /\ UNCHANGED ntodo
       ELSE npc' = "scan" /\ ntodo' = {b \in Bin : binary[b] # "absent"}
    /\ UNCHANGED <<disk, conf, m_Commands, shutDown, main, nbin, nrest, loaded,
                   scripts, m_WatcherStop, retired, silent, threw, gaveUp>>

\* Only the canonical path is looked up; a load that fails is tried again in
\* the next scan.
NativeVisit(b) ==
    /\ npc = "scan" /\ nbin = None /\ b \in ntodo
    /\ ntodo' = ntodo \ {b}
    /\ IF <<b, "canonical">> \notin loaded /\ DlLoads(b)
       THEN BeginLoad(b) ELSE UNCHANGED <<nbin, nrest>>
    /\ UNCHANGED <<disk, conf, m_Commands, shutDown, main, npc, loaded, scripts,
                   m_WatcherStop, retired, silent, threw, gaveUp>>

NativeScanned ==
    /\ npc = "scan" /\ nbin = None /\ ntodo = {}
    /\ npc' = IF m_WatcherStop.native THEN "exited" ELSE "sleep"
    /\ UNCHANGED <<disk, conf, m_Commands, shutDown, main, ntodo, nbin, nrest,
                   loaded, scripts, m_WatcherStop, retired, silent, threw, gaveUp>>

NativeWatcher ==
    NativeStart \/ NativeWake \/ (\E b \in Bin : NativeVisit(b)) \/ NativeScanned

-----------------------------------------------------------------------------
(* The watcher of ScriptPluginLoader                                       *)

ScriptStart ==
    /\ spc = "start" /\ spc' = "sleep"
    /\ mtimeMap' = [d \in Dir |-> manifest[d].stamp]
    /\ UNCHANGED <<disk, conf, m_Commands, shutDown, main, native, stodo, sdir,
                   srest, m_WatcherStop, retired, silent, threw, gaveUp>>

ScriptWake ==
    /\ spc = "sleep"
    /\ IF m_WatcherStop.script THEN spc' = "exited" /\ UNCHANGED stodo
       ELSE spc' = "scan" /\ stodo' = {d \in Dir : manifest[d].state # "absent"}
    /\ UNCHANGED <<disk, conf, m_Commands, shutDown, main, native, sdir, srest,
                   mtimeMap, m_WatcherStop, retired, silent, threw, gaveUp>>

\* The new time is noted before the reload is tried.
ScriptVisit(d) ==
    /\ spc = "scan" /\ d \in stodo
    /\ stodo' = stodo \ {d}
    /\ mtimeMap' = [mtimeMap EXCEPT ![d] = manifest[d].stamp]
    /\ IF mtimeMap[d] = manifest[d].stamp THEN UNCHANGED <<spc, sdir>>
       ELSE spc' = "read" /\ sdir' = d
    /\ gaveUp' = None
    /\ UNCHANGED <<disk, conf, m_Commands, shutDown, main, native, srest,
                   m_WatcherStop, retired, silent, threw>>

\* On to the next plugin, leaving this one as it is until its plugin.json
\* changes again.  gaveUp is the plugin of the last step, threw all that threw.
Abandon ==
    /\ spc' = "scan" /\ sdir' = None /\ srest' = <<>>
    /\ gaveUp' = <<sdir, mtimeMap[sdir]>>

ScriptRead ==
    /\ spc = "read"
    /\ IF Loadable(sdir) THEN spc' = "discover" /\ UNCHANGED <<sdir, srest, gaveUp>>
       ELSE Abandon
    /\ UNCHANGED <<disk, conf, m_Commands, shutDown, main, native, stodo, mtimeMap,
                   m_WatcherStop, retired, silent, threw>>

ScriptDiscover ==
    /\ spc = "discover"
    /\ \E tools \in Outcomes(sdir) :
          \/ tools = <<>> /\ Abandon
          \/ tools = <<"hung">> /\ spc' = "hung" /\ UNCHANGED <<sdir, srest, gaveUp>>
          \/ /\ tools \notin {<<>>, <<"hung">>}
             /\ spc' = "replace" /\ srest' = tools /\ UNCHANGED <<sdir, gaveUp>>
    /\ UNCHANGED <<disk, conf, m_Commands, shutDown, main, native, stodo, mtimeMap,
                   m_WatcherStop, retired, silent, threw>>

\* Fault: a name that is taken keeps its command.
ReplaceUntaken ==
    /\ spc = "replace" /\ srest # <<>> /\ Head(srest) # NoName
    /\ LET t == Head(srest)
       IN  IF Registered(t) THEN UNCHANGED <<m_Commands, silent>>
           ELSE /\ m_Commands' = [m_Commands EXCEPT ![t] =
                                      Command(sdir, mtimeMap[sdir], Len(srest))]
                /\ silent' = silent \cup {t}
    /\ srest' = Tail(srest)
    /\ UNCHANGED <<disk, conf, shutDown, main, native, spc, stodo, sdir, mtimeMap,
                   m_WatcherStop, retired, threw, gaveUp>>

\* ReplaceCommand under its lock, collision or not.
ReplaceCommand ==
    /\ spc = "replace" /\ srest # <<>> /\ Head(srest) # NoName
    /\ LET t == Head(srest)
       IN  /\ m_Commands' = [m_Commands EXCEPT ![t] =
                                 Command(sdir, mtimeMap[sdir], Len(srest))]
           /\ retired' = IF Registered(t) THEN retired \cup {<<t, m_Commands[t]>>}
                         ELSE retired
           /\ silent' = silent \cup {t}
           /\ IF Registered(t) THEN spc' = "shutdown" /\ UNCHANGED srest
              ELSE srest' = Tail(srest) /\ UNCHANGED spc
    /\ UNCHANGED <<disk, conf, shutDown, main, native, stodo, sdir, mtimeMap,
                   m_WatcherStop, threw, gaveUp>>

\* Fault: the command now registered is shut down, not the one taken out.
ShutdownNew ==
    /\ spc = "shutdown"
    /\ shutDown' = shutDown \cup {<<Head(srest), m_Commands[Head(srest)]>>}
    /\ spc' = "replace" /\ srest' = Tail(srest)
    /\ UNCHANGED <<disk, conf, m_Commands, main, native, stodo, sdir, mtimeMap,
                   m_WatcherStop, retired, silent, threw, gaveUp>>

\* old->Shutdown() after the unlock.  That of a child server's tool waits for
\* the pipe's mutex, which a call that is stuck with the old child keeps.
ShutdownOld ==
    /\ spc = "shutdown"
    /\ shutDown' = shutDown \cup {r \in retired : r[1] = Head(srest)}
    /\ \/ spc' = "replace" /\ srest' = Tail(srest)
       \/ /\ \E r \in retired \ shutDown : r[1] = Head(srest) /\ r[2].plugin \in McpStdio
          /\ spc' = "hung" /\ UNCHANGED srest
    /\ UNCHANGED <<disk, conf, m_Commands, main, native, stodo, sdir, mtimeMap,
                   m_WatcherStop, retired, silent, threw, gaveUp>>

\* An empty name throws: what was replaced stays so and is not announced.
ReplaceThrows ==
    /\ spc = "replace" /\ srest # <<>> /\ Head(srest) = NoName
    /\ Abandon
    /\ threw' = threw \cup {gaveUp'}
    /\ UNCHANGED <<disk, conf, m_Commands, shutDown, main, native, stodo, mtimeMap,
                   m_WatcherStop, retired, silent>>

ScriptNotifies ==
    /\ spc = "replace" /\ srest = <<>>
    /\ silent' = {t \in silent : m_Commands[t].plugin # sdir}
    /\ spc' = "scan" /\ sdir' = None
    /\ UNCHANGED <<disk, conf, m_Commands, shutDown, main, native, stodo, srest,
                   mtimeMap, m_WatcherStop, retired, threw, gaveUp>>

ScriptScanned ==
    /\ spc = "scan" /\ stodo = {}
    /\ spc' = IF m_WatcherStop.script THEN "exited" ELSE "sleep"
    /\ gaveUp' = None
    /\ UNCHANGED <<disk, conf, m_Commands, shutDown, main, native, stodo, sdir,
                   srest, mtimeMap, m_WatcherStop, retired, silent, threw>>

ScriptWatcher ==
    \/ ScriptStart \/ ScriptWake \/ (\E d \in Dir : ScriptVisit(d))
    \/ ScriptRead \/ ScriptDiscover \/ ReplaceCommand \/ ShutdownOld
    \/ ReplaceThrows \/ ScriptNotifies \/ ScriptScanned

-----------------------------------------------------------------------------
(* The end: Run has returned, or the HTTP server has.  Each StopWatcher     *)
(* sets its flag and joins.                                                *)

StopScriptWatcher ==
    /\ phase = "serving"
    /\ phase' = IF loadAll THEN "stopScript" ELSE "exited"
    /\ m_WatcherStop' = [m_WatcherStop EXCEPT !.script = loadAll]
    /\ UNCHANGED <<disk, conf, m_Commands, shutDown, todo, found, native, scripts,
                   retired, silent, threw, gaveUp>>

\* Fault: the other loader's flag is the one set.
StopScriptTwice ==
    /\ phase = "stopScript" /\ spc = "exited"
    /\ phase' = "stopNative"
    /\ m_WatcherStop' = [m_WatcherStop EXCEPT !.script = TRUE]
    /\ UNCHANGED <<disk, conf, m_Commands, shutDown, todo, found, native, scripts,
                   retired, silent, threw, gaveUp>>

StopNativeWatcher ==
    /\ phase = "stopScript" /\ spc = "exited"
    /\ phase' = "stopNative"
    /\ m_WatcherStop' = [m_WatcherStop EXCEPT !.native = TRUE]
    /\ UNCHANGED <<disk, conf, m_Commands, shutDown, todo, found, native, scripts,
                   retired, silent, threw, gaveUp>>

ExitServer ==
    /\ phase = "stopNative" /\ npc = "exited"
    /\ phase' = "exited"
    /\ UNCHANGED <<disk, conf, m_Commands, shutDown, todo, found, native, scripts,
                   m_WatcherStop, retired, silent, threw, gaveUp>>

Next ==
    \/ Deploy
    \/ Startup \/ (\E d \in Dir : DiscoverScripts(d))
    \/ LoadOneStep \/ NativeWatcher \/ ScriptWatcher
    \/ StopScriptWatcher \/ StopNativeWatcher \/ ExitServer

Spec == Init /\ [][Next]_vars

\* Threads are scheduled; whoever deploys and whoever ends the server is free.
FairSpec ==
    /\ Spec
    /\ WF_vars(Startup \/ StopNativeWatcher \/ ExitServer)
    /\ WF_vars(\E d \in Dir : DiscoverScripts(d))
    /\ WF_vars(LoadOneStep \/ NativeWatcher) /\ WF_vars(ScriptWatcher)

-----------------------------------------------------------------------------
TypeOK ==
    /\ m_Commands \in [Tool -> {None} \cup AnyCommand]
    /\ phase \in {"native", "scripts", "serving", "stopScript", "stopNative",
                  "exited", "failed"}
    /\ npc \in {"none", "start", "sleep", "scan", "exited"}
    /\ spc \in {"none", "start", "sleep", "scan", "read", "discover", "hung",
                "replace", "shutdown", "exited"}
    /\ nbin \in Bin \cup {None} /\ ntodo \subseteq Bin
    /\ sdir \in Dir \cup {None} /\ stodo \subseteq Dir
    /\ \A d \in Dir : mtimeMap[d] \in 0 .. MaxStamp[d]

\* Shutdown is called for the commands that ReplaceCommand took out of the
\* registry and for no other: a command that can still be resolved is never
\* shut down, and none that was replaced goes on holding its child process.
RetiredAreShutDown ==
    /\ \A t \in Tool : <<t, m_Commands[t]>> \notin shutDown
    /\ spc # "shutdown" => shutDown = retired

\* A name that is taken goes to another plugin only by the reload of a script
\* plugin: neither start-up nor the native watcher, which with a directory not
\* configured as its canonical path loads every binary again in each scan,
\* ever takes a tool from the one that has it, and no tool is ever lost.
TakenOnlyByReload ==
    [][\A t \in Tool :
          Registered(t) /\ m_Commands'[t] # m_Commands[t] =>
             spc = "replace" /\ m_Commands'[t] = Command(sdir, mtimeMap[sdir], Len(srest))]_vars

\* The attempt to load its plugin that made this command ended by an exception.
Threw(command) == <<command.plugin, command.stamp>> \in threw

\* Between loads every tool that a watcher has put into the registry has been
\* announced by notifications/tools/list_changed, or was put there by a load
\* that threw half way: a name was taken, or empty.
AnnouncedUnlessThrown ==
    nbin = None /\ sdir = None =>
        \A t \in silent : Threw(m_Commands[t])

\* What holds of the registry at every step: commands are shut down exactly
\* when they have been replaced, and new ones are announced.
RegistryInv == TypeOK /\ RetiredAreShutDown /\ AnnouncedUnlessThrown

\* The registry has a command made from plugin d's plugin.json as of the time
\* the watcher has noted.
ServesNoted(d) ==
    \E t \in Tool : /\ Registered(t) /\ m_Commands[t].plugin = d
                    /\ m_Commands[t].stamp = mtimeMap[d]

\* While it watches, the script watcher notes a new time of a plugin only to
\* reload it at once, and the reload ends only with a tool of that very time in
\* the registry or with the plugin given up, whatever the other watcher
\* registers meanwhile and whatever names the plugin finds taken.
NotedIsReloaded ==
    [][\A d \in Dir :
          /\ spc \notin {"none", "start"} /\ mtimeMap'[d] # mtimeMap[d] =>
                spc' = "read" /\ sdir' = d
          /\ spc # "none" /\ sdir = d /\ sdir' # d =>
                ServesNoted(d)' \/ gaveUp' = <<d, mtimeMap[d]>>]_vars

\* What no step may do to the registry and to the memory of the script watcher:
\* a taken name changes hands only by a reload, and a time is noted only by one
\* that then serves the plugin or gives it up.
LawfulReload == TakenOnlyByReload /\ NotedIsReloaded

\* The names that version v of plugin d's entrypoint lists.
Listed(d, v) == {Offers[d][v][i] : i \in DOMAIN Offers[d][v]} \ {NoName}

\* The registry has every tool that plugin d lists, in some version it has had,
\* each made from the last save of its plugin.json.
Serves(d) ==
    \E v \in 1 .. script[d] :
        /\ Listed(d, v) # {}
        /\ \A t \in Listed(d, v) :
              /\ Registered(t) /\ m_Commands[t].plugin = d
              /\ m_Commands[t].stamp = manifest[d].stamp

\* A plugin whose plugin.json is saved with its entrypoint in place while the
\* server runs is served, all of it, new or for the second time, unless that one
\* attempt to reload it is given up (it is not repeated), or a script or a child
\* server has stopped the watcher for good.
SavedPluginServed ==
    \A d \in Dir :
        (spc \in {"sleep", "scan"} /\ Loadable(d) /\ mtimeMap[d] # manifest[d].stamp)
            ~> \/ Serves(d) \/ gaveUp = <<d, manifest[d].stamp>> \/ ~Loadable(d)
               \/ spc = "hung" \/ phase # "serving"

\* The server ends once its transport has returned: both watchers are told to
\* stop and joined, unless a script that never ends, or a child server's pipe,
\* holds the script watcher.
ExitsUnlessHung == phase = "stopScript" ~> phase = "exited" \/ spc = "hung"
=============================================================================
