-------------------------- MODULE ToolAdvertising --------------------------
(***************************************************************************)
(* Which tools tools/list shows.  Start-up resolves a profile, packs and   *)
(* pins (core/ToolProfile, server_entry) into CoreRuntime::advertised and  *)
(* the filter of commands/CommandRegistry; the tools activate and          *)
(* deactivate change the first and copy it into the second.  The two sets  *)
(* have a lock each: CoreRuntime::mutex is held over a change and its copy *)
(* into the registry, the registry's own only inside SetAdvertised, and    *)
(* tools/list takes the second alone.                                      *)
(***************************************************************************)
EXTENDS FiniteSets

CONSTANTS Config,     \* bound: the settings the server may be started with
          Plugin,     \* installed plugins: kind, packs and the tools they bring
          PackArg,    \* bound: arguments activate and deactivate are called with
          ToolArg,
          Thread,     \* threads that execute tool calls
          Nobody      \* nobody holds CoreRuntime::mutex

ASSUME AdvertisingAssumption == Nobody \notin Thread

VARIABLES phase,              \* "boot", "serving", or "failed": exit code 1
          conf,               \* the settings in force
          advertised, locked, \* of CoreRuntime
          m_Commands, m_Advertised, m_FilterAdvertised,  \* of CommandRegistry
          mutex,              \* who holds CoreRuntime::mutex
          call                \* the change each thread is making

vars == <<phase, conf, advertised, locked, m_Commands, m_Advertised,
          m_FilterAdvertised, mutex, call>>

-----------------------------------------------------------------------------
(* core/ToolProfile                                                        *)

kCoreTools == {"read", "edit", "search", "shell", "catalog", "activate",
               "deactivate", "project"}
kLanguageExtra == {"git", "build", "test", "diagnose"}

\* The files in the workspace root that Detect looks for, by language.
Detect(markers) ==
    CASE {"cpp", "csharp"} \subseteq markers -> "fullstack"
      [] markers = {"cpp"}                   -> "cpp"
      [] markers = {"csharp"}                -> "csharp"
      [] OTHER                               -> "core"

KnownProfiles == {"auto", "core", "cpp", "csharp", "fullstack", "all"}

\* Normalize: nothing means auto; an unknown name comes back empty.
Normalize(raw) ==
    IF raw = "" THEN "auto" ELSE IF raw \in KnownProfiles THEN raw ELSE ""

ToolsForProfile(profile) ==
    CASE profile = "all"                             -> {}
      [] profile \in {"cpp", "csharp", "fullstack"}  -> kCoreTools \cup kLanguageExtra
      [] OTHER                                       -> kCoreTools

IsOptionalPack(pack) ==
    pack \in {"github", "github-actions", "jira", "unity", "unreal", "skills",
              "llm", "remote", "memory", "desktop-notify", "entrian",
              "everything", "git_write", "filesystem", "shell-bg"}

kPackTools ==
    [p \in {"git_write", "github", "skills", "llm", "remote"} |->
        CASE p = "github" -> {}
          [] p = "skills" -> {"skills", "skill"}
          [] OTHER        -> {p}]

ToolsOfPacks(packs) == UNION {kPackTools[p] : p \in packs \cap DOMAIN kPackTools}

\* A pin need not be advertised by the profile, but it must be a known name.
KnownPin(t, candidates) ==
    t \in candidates \cup kCoreTools \cup kLanguageExtra
          \cup {"skills", "skill", "llm", "remote", "echo"}

ResolvedProfile(in) ==
    LET p == Normalize(in.profile)
    IN  IF p = "auto" THEN Detect(in.markers) ELSE p

\* Fault: the disabled packs are taken out before the enabled ones go in.
ResolveDisablesFirst(in) ==
    LET profile == ResolvedProfile(in)
        candidates == (ToolsForProfile(profile) \ ToolsOfPacks(in.disable))
                          \cup ToolsOfPacks(in.enable)
        error == \/ profile = ""
                 \/ "" \in in.pinTools
                 \/ /\ profile # "all"
                    /\ \/ \E p \in in.enable :
                             p \notin DOMAIN kPackTools /\ ~IsOptionalPack(p)
                       \/ \E t \in in.pinTools : ~KnownPin(t, candidates)
    IN  [error |-> error,
         advertised |-> IF profile = "all" \/ in.pinTools # {}
                        THEN in.pinTools ELSE candidates]

\* Resolve: profile, then enabled packs, less disabled packs; pins replace all
\* of it.  Profile all reads nothing but the pins.
Resolve(in) ==
    LET profile == ResolvedProfile(in)
        candidates == (ToolsForProfile(profile) \cup ToolsOfPacks(in.enable))
                          \ ToolsOfPacks(in.disable)
        error == \/ profile = ""
                 \/ "" \in in.pinTools
                 \/ /\ profile # "all"
                    /\ \/ \E p \in in.enable :
                             p \notin DOMAIN kPackTools /\ ~IsOptionalPack(p)
                       \/ \E t \in in.pinTools : ~KnownPin(t, candidates)
    IN  [error |-> error,
         advertised |-> IF profile = "all" \/ in.pinTools # {}
                        THEN in.pinTools ELSE candidates]

-----------------------------------------------------------------------------
(* Start-up                                                                *)

BuiltIn == kCoreTools \cup kLanguageExtra
               \cup {"skills", "skill", "echo", "llm", "remote"}
Hidden == {"echo"}

\* RegisterCoreTools: what deactivate must refuse is fixed before the pins
\* and the plugins are looked at.
LockedTools(resolved) == kCoreTools \cup (kLanguageExtra \cap resolved.advertised)

\* PackManifest::Allowed, for a plugin whose os matches.
Allowed(plugin, in) ==
    \/ ResolvedProfile(in) = "all"
    \/ plugin.packs \cap ({ResolvedProfile(in), "core"} \cup in.enable) # {}

\* Skills are tools only in profile all; script plugins load only there or when
\* some pack is enabled, native ones always.
Loaded(plugin, in) ==
    /\ Allowed(plugin, in)
    /\ CASE plugin.kind = "skill"  -> ResolvedProfile(in) = "all"
         [] plugin.kind = "script" -> ResolvedProfile(in) = "all" \/ in.enable # {}
         [] plugin.kind = "native" -> TRUE

RegisteredTools(in) ==
    BuiltIn \cup UNION {p.tools : p \in {q \in Plugin : Loaded(q, in)}}

Idle == [op |-> "none", arg |-> "", copy |-> {}]

Init ==
    /\ phase = "boot" /\ conf \in Config
    /\ advertised = {} /\ locked = {}
    /\ m_Commands = {} /\ m_Advertised = {} /\ m_FilterAdvertised = FALSE
    /\ mutex = Nobody
    /\ call = [th \in Thread |-> Idle]

\* server_entry: settings that cannot be honoured end the process; profile all
\* without pins installs no filter and leaves CoreRuntime::advertised empty.
StartUp ==
    LET resolved == Resolve(conf) IN
    /\ phase = "boot"
    /\ phase' = IF resolved.error \/ ~(conf.pinTools \subseteq RegisteredTools(conf))
                THEN "failed" ELSE "serving"
    /\ IF phase' = "failed"
       THEN UNCHANGED <<advertised, locked, m_Commands, m_Advertised,
                        m_FilterAdvertised>>
       ELSE /\ advertised' = resolved.advertised
            /\ locked' = LockedTools(resolved)
            /\ m_Commands' = RegisteredTools(conf)
            /\ m_Advertised' = resolved.advertised
            /\ m_FilterAdvertised' =
                  (conf.pinTools # {} \/ ResolvedProfile(conf) # "all")
    /\ UNCHANGED <<conf, mutex, call>>

-----------------------------------------------------------------------------
(* activate and deactivate.  A request that is refused changes nothing and *)
(* has no step here.                                                       *)

\* Fault: the runtime's lock is given up before the registry has the copy.
ChangeUnlocked(th, op, arg, set) ==
    /\ phase = "serving" /\ call[th] = Idle
    /\ mutex = Nobody
    /\ advertised' = set
    /\ call' = [call EXCEPT ![th] = [op |-> op, arg |-> arg, copy |-> set]]
    /\ UNCHANGED <<phase, conf, locked, m_Commands, m_Advertised,
                   m_FilterAdvertised, mutex>>

\* Under CoreRuntime::mutex the set is changed and a copy of it is made for
\* SetAdvertised, which still has to get the registry's lock.
Change(th, op, arg, set) ==
    /\ phase = "serving" /\ call[th] = Idle
    /\ mutex = Nobody /\ mutex' = th
    /\ advertised' = set
    /\ call' = [call EXCEPT ![th] = [op |-> op, arg |-> arg, copy |-> set]]
    /\ UNCHANGED <<phase, conf, locked, m_Commands, m_Advertised,
                   m_FilterAdvertised>>

\* The packs activate knows; it refuses every other one.
ActivePackTools(pack) == IF pack = "skills" THEN {"skills", "skill"} ELSE {pack}

Activate(th, pack) ==
    /\ pack \in {"skills", "llm", "remote", "git"}
    /\ Change(th, "activate", pack, advertised \cup ActivePackTools(pack))

DeactivateTool(th, tool) ==
    /\ tool # "" /\ tool \notin locked /\ tool \in advertised
    /\ Change(th, "deactivateTool", tool, advertised \ {tool})

\* Any other name is erased as it stands, be it a pack or not.
DeactivatePack(th, pack) ==
    /\ pack \notin {"", "core"}
    /\ pack = "git" => "git" \notin locked
    /\ Change(th, "deactivatePack", pack, advertised \ ActivePackTools(pack))

\* Fault: the names are added to the filter instead of replacing it.
AddAdvertised(names) ==
    /\ m_Advertised' = m_Advertised \cup names
    /\ m_FilterAdvertised' = TRUE

SetAdvertised(names) ==
    /\ m_Advertised' = names
    /\ m_FilterAdvertised' = TRUE

\* SyncAdvertised ends the critical section.
SyncAdvertised(th) ==
    /\ call[th] # Idle
    /\ SetAdvertised(call[th].copy)
    /\ mutex' = Nobody
    /\ call' = [call EXCEPT ![th] = Idle]
    /\ UNCHANGED <<phase, conf, advertised, locked, m_Commands>>

Next ==
    \/ StartUp
    \/ \E th \in Thread :
          \/ \E p \in PackArg : Activate(th, p) \/ DeactivatePack(th, p)
          \/ \E t \in ToolArg : DeactivateTool(th, t)
          \/ SyncAdvertised(th)

Spec == Init /\ [][Next]_vars

-----------------------------------------------------------------------------
(* What a client sees                                                      *)

\* ListToolMetadata
Listed == {t \in m_Commands \ Hidden : m_FilterAdvertised => t \in m_Advertised}

\* The rows of catalog that can be active, and the tool each looks up.
CatalogRows == [core |-> "read", git |-> "git", skills |-> "skills",
                llm |-> "llm", remote |-> "remote"]
CatalogActive(row) == CatalogRows[row] \in advertised

\* skill answers "not advertised" unless it or skills is there.
SkillUsable == {"skills", "skill"} \cap advertised # {}

-----------------------------------------------------------------------------
\* Every tool name there is.
Name ==
    BuiltIn \cup ToolsOfPacks(DOMAIN kPackTools) \cup PackArg \cup ToolArg
        \cup (UNION {p.tools : p \in Plugin}) \cup (UNION {c.pinTools : c \in Config})

\* Types; and CoreRuntime::mutex is held by a thread exactly while it has a
\* change to pass on.
TypeOK ==
    /\ phase \in {"boot", "serving", "failed"} /\ conf \in Config
    /\ advertised \subseteq Name /\ locked \subseteq Name
    /\ m_Commands \subseteq Name /\ m_Advertised \subseteq Name
    /\ m_FilterAdvertised \in BOOLEAN
    /\ mutex \in Thread \cup {Nobody}
    /\ call \in [Thread -> [op : {"none", "activate", "deactivateTool", "deactivatePack"},
                            arg : Name \cup {""}, copy : SUBSET Name]]
    /\ \A th \in Thread : mutex = th <=> call[th] # Idle

\* Between changes the runtime and the registry agree once there is a filter:
\* catalog calls a pack active exactly when tools/list shows its tool, and a
\* skill tool that is listed does not refuse to work.
CatalogTruthful ==
    mutex = Nobody /\ m_FilterAdvertised =>
        /\ m_Advertised = advertised
        /\ \A row \in DOMAIN CatalogRows :
              CatalogActive(row) <=> CatalogRows[row] \in Listed
        /\ "skill" \in Listed => SkillUsable

\* What holds at every step: the runtime's lock is exact, and between changes
\* what catalog, tools/list and the skill tool say agrees once a filter is installed.
AdvertisingInv == TypeOK /\ CatalogTruthful

\* Once there is a filter, passing a change on alters tools/list only for the
\* tools of the pack or the tool that was named, whatever other threads
\* changed in the meantime.
ChangeIsLocal ==
    [][\A th \in Thread :
          m_FilterAdvertised /\ call[th] # Idle /\ call'[th] = Idle =>
             (Listed \ Listed') \cup (Listed' \ Listed)
                 \subseteq ActivePackTools(call[th].arg)]_vars

\* A tool that deactivate must refuse leaves the advertised set in one way
\* only: named as if it were a pack.
LockedLeavesOnlyAsPack ==
    [][\A t \in locked \cap advertised :
          t \notin advertised' =>
             \E th \in Thread : call'[th].op = "deactivatePack" /\ call'[th].arg = t]_vars

\* activate and deactivate change what they name, and a locked tool leaves
\* only when it is named as a pack.
LawfulChange == ChangeIsLocal /\ LockedLeavesOnlyAsPack

\* The server comes up with what was asked for: pins exactly, or with profile
\* all everything, or the core tools and nothing of a disabled pack.
StartUpHonoursConfig ==
    [][phase = "boot" /\ phase' = "serving" =>
          CASE conf.pinTools # {} -> Listed' = conf.pinTools \ Hidden
            [] conf.pinTools = {} /\ ResolvedProfile(conf) = "all" ->
                  Listed' = m_Commands' \ Hidden
            [] OTHER -> /\ kCoreTools \subseteq Listed'
                        /\ Listed' \cap ToolsOfPacks(conf.disable) = {}]_vars
=============================================================================
