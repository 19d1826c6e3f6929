------------------------ MODULE ToolAdvertisingProofs ------------------------
(***************************************************************************)
(* What catalog, tools/list and the skill tool say agrees, a change alters   *)
(* what it names, and start-up honours its settings: for any settings,       *)
(* plugins, threads and arguments of activate and deactivate.                *)
(*                                                                         *)
(* The two copies of the advertised set differ while a change is passed on,  *)
(* so agreement between changes is not inductive: Pending says by how much   *)
(* they differ meanwhile, and that the copy on its way is the current set.   *)
(***************************************************************************)
EXTENDS ToolAdvertising, TLAPS

\* Until the server is up there is nothing in either set.
NotServing ==
    phase # "serving" =>
        /\ advertised = {} /\ locked = {} /\ m_Advertised = {}
        /\ ~m_FilterAdvertised /\ mutex = Nobody

\* Every tool catalog looks up is registered; what deactivate must refuse is
\* a core or a language tool.
Serving ==
    /\ phase = "serving" => BuiltIn \subseteq m_Commands
    /\ locked \subseteq kCoreTools \cup kLanguageExtra

\* The holder of CoreRuntime::mutex passes on the set as it is; until it has,
\* the registry differs by what the holder's request named.
Pending ==
    /\ mutex = Nobody => m_Advertised = advertised
    /\ \A th \in Thread : mutex = th =>
          /\ call[th].copy = advertised
          /\ m_Advertised \ advertised \subseteq ActivePackTools(call[th].arg)
          /\ advertised \ m_Advertised \subseteq ActivePackTools(call[th].arg)

AdvertisingIInv == TypeOK /\ NotServing /\ Serving /\ Pending

-----------------------------------------------------------------------------
(* core/ToolProfile                                                        *)

\* The packs bring none of the core tools, and only names there are.
LEMMA PackToolNames ==
    ASSUME NEW packs
    PROVE  /\ ToolsOfPacks(packs) \subseteq {"git_write", "skills", "skill", "llm", "remote"}
           /\ ToolsOfPacks(packs) \subseteq Name
           /\ ToolsOfPacks(packs) \cap kCoreTools = {}
<1>1. ToolsOfPacks(packs) \subseteq {"git_write", "skills", "skill", "llm", "remote"}
  BY DEF ToolsOfPacks, kPackTools
<1>2. ToolsOfPacks(packs) \subseteq ToolsOfPacks(DOMAIN kPackTools)
  BY DEF ToolsOfPacks
<1>3. ToolsOfPacks(packs) \subseteq Name
  BY <1>2 DEF Name
<1>4. kCoreTools \cap {"git_write", "skills", "skill", "llm", "remote"} = {}
  BY DEF kCoreTools
<1> QED
  BY <1>1, <1>3, <1>4

\* A profile's tools are core and language tools; every profile but all that
\* can be resolved has the core tools.
LEMMA ProfileTools ==
    ASSUME NEW in
    PROVE  /\ ToolsForProfile(ResolvedProfile(in)) \subseteq kCoreTools \cup kLanguageExtra
           /\ ResolvedProfile(in) # "all" =>
                 kCoreTools \subseteq ToolsForProfile(ResolvedProfile(in))
  BY DEF ToolsForProfile

\* What Resolve advertises has a name, and without pins and profile all it is
\* the core tools and nothing of a disabled pack.
LEMMA Resolved ==
    ASSUME NEW in \in Config
    PROVE  /\ Resolve(in).advertised \subseteq Name
           /\ in.pinTools # {} \/ ResolvedProfile(in) = "all" =>
                 Resolve(in).advertised = in.pinTools
           /\ in.pinTools = {} /\ ResolvedProfile(in) # "all" =>
                 /\ kCoreTools \subseteq Resolve(in).advertised
                 /\ Resolve(in).advertised \cap ToolsOfPacks(in.disable) = {}
<1> DEFINE candidates ==
             (ToolsForProfile(ResolvedProfile(in)) \cup ToolsOfPacks(in.enable))
                 \ ToolsOfPacks(in.disable)
<1>1. Resolve(in).advertised =
        IF ResolvedProfile(in) = "all" \/ in.pinTools # {} THEN in.pinTools ELSE candidates
  BY DEF Resolve
<1>2. in.pinTools \subseteq Name
  <2>1. in.pinTools \subseteq UNION {c.pinTools : c \in Config}
    OBVIOUS
  <2>2. UNION {c.pinTools : c \in Config} \subseteq Name
    BY DEF Name
  <2> QED
    BY <2>1, <2>2
<1>3. kCoreTools \cup kLanguageExtra \subseteq Name
  BY DEF Name, BuiltIn
<1>4. candidates \subseteq Name
  BY <1>3, ProfileTools, PackToolNames
<1>5. ResolvedProfile(in) # "all" => kCoreTools \subseteq candidates
  BY ProfileTools, PackToolNames
<1>6. candidates \cap ToolsOfPacks(in.disable) = {}
  OBVIOUS
<1> HIDE DEF candidates
<1> QED
  BY <1>1, <1>2, <1>4, <1>5, <1>6

LEMMA RegisteredNames ==
    ASSUME NEW in \in Config
    PROVE  BuiltIn \subseteq RegisteredTools(in) /\ RegisteredTools(in) \subseteq Name
<1>1. UNION {p.tools : p \in {q \in Plugin : Loaded(q, in)}}
        \subseteq UNION {p.tools : p \in Plugin}
  OBVIOUS
<1> QED
  BY <1>1 DEF RegisteredTools, Name

-----------------------------------------------------------------------------
(* Start-up                                                                *)

LEMMA AdvertisingInit == Init => AdvertisingIInv
<1> SUFFICES ASSUME Init PROVE AdvertisingIInv
  OBVIOUS
<1>1. TypeOK
  BY AdvertisingAssumption DEF Init, TypeOK, Idle
<1> QED
  BY <1>1, AdvertisingAssumption
  DEF Init, AdvertisingIInv, NotServing, Serving, Pending

\* What StartUp leaves behind when it does not fail.
LEMMA StartUpServes ==
    ASSUME StartUp, phase' = "serving"
    PROVE  /\ conf.pinTools \subseteq RegisteredTools(conf)
           /\ advertised' = Resolve(conf).advertised
           /\ m_Advertised' = advertised'
           /\ m_Commands' = RegisteredTools(conf)
           /\ locked' = LockedTools(Resolve(conf))
           /\ m_FilterAdvertised' = (conf.pinTools # {} \/ ResolvedProfile(conf) # "all")
           /\ UNCHANGED <<conf, mutex, call>>
  BY DEF StartUp

LEMMA StartUpKeeps ==
    ASSUME AdvertisingIInv, StartUp
    PROVE  AdvertisingIInv'
<1> USE DEF AdvertisingIInv
<1>1. phase = "boot" /\ phase' \in {"serving", "failed"}
  BY DEF StartUp
<1>2. mutex = Nobody /\ UNCHANGED <<conf, mutex, call>>
  BY <1>1 DEF StartUp, NotServing
<1>3. conf \in Config
  BY DEF TypeOK
<1>4. CASE phase' = "failed"
  <2>1. UNCHANGED <<advertised, locked, m_Commands, m_Advertised, m_FilterAdvertised>>
    BY <1>4 DEF StartUp
  <2>2. TypeOK'
    BY <1>1, <1>2, <2>1 DEF TypeOK
  <2> QED
    BY <1>1, <1>2, <1>4, <2>1, <2>2, AdvertisingAssumption
    DEF NotServing, Serving, Pending
<1>5. CASE phase' = "serving"
  <2>1. /\ advertised' = Resolve(conf).advertised
        /\ m_Advertised' = advertised'
        /\ m_Commands' = RegisteredTools(conf)
        /\ locked' = LockedTools(Resolve(conf))
        /\ m_FilterAdvertised' \in BOOLEAN
    BY <1>5, StartUpServes
  <2>2. advertised' \subseteq Name
    BY <1>3, <2>1, Resolved
  <2>3. BuiltIn \subseteq m_Commands' /\ m_Commands' \subseteq Name
    BY <1>3, <2>1, RegisteredNames
  <2>4. locked' \subseteq kCoreTools \cup kLanguageExtra
    BY <2>1 DEF LockedTools
  <2>5. locked' \subseteq Name
    BY <2>4 DEF Name, BuiltIn
  <2>6. TypeOK'
    BY <1>1, <1>2, <2>1, <2>2, <2>3, <2>5 DEF TypeOK
  <2> QED
    BY <1>2, <1>5, <2>1, <2>3, <2>4, <2>6, AdvertisingAssumption
    DEF NotServing, Serving, Pending
<1> QED
  BY <1>1, <1>4, <1>5

-----------------------------------------------------------------------------
(* activate and deactivate                                                 *)

\* A request that takes the mutex and changes what it names.
LEMMA ChangeKeeps ==
    ASSUME AdvertisingIInv, NEW th \in Thread,
           NEW op \in {"activate", "deactivateTool", "deactivatePack"},
           NEW arg \in Name, NEW set \in SUBSET Name,
           advertised \ set \subseteq ActivePackTools(arg),
           set \ advertised \subseteq ActivePackTools(arg),
           Change(th, op, arg, set)
    PROVE  AdvertisingIInv'
<1> DEFINE new == [op |-> op, arg |-> arg, copy |-> set]
<1> USE DEF AdvertisingIInv
<1>1. /\ phase = "serving" /\ call[th] = Idle
      /\ mutex = Nobody /\ mutex' = th /\ advertised' = set
      /\ call' = [call EXCEPT ![th] = new]
      /\ UNCHANGED <<phase, conf, locked, m_Commands, m_Advertised, m_FilterAdvertised>>
  BY DEF Change
<1>2. call \in [Thread -> [op : {"none", "activate", "deactivateTool", "deactivatePack"},
                           arg : Name \cup {""}, copy : SUBSET Name]]
  BY DEF TypeOK
<1>3. new \in [op : {"none", "activate", "deactivateTool", "deactivatePack"},
               arg : Name \cup {""}, copy : SUBSET Name]
  OBVIOUS
<1>4. new # Idle /\ new.copy = set /\ new.arg = arg
  BY DEF Idle
<1> HIDE DEF new
<1>5. call'[th] = new /\ \A u \in Thread : u # th => call'[u] = call[u]
  BY <1>1, <1>2
<1>6. TypeOK'
  <2>1. call' \in [Thread -> [op : {"none", "activate", "deactivateTool", "deactivatePack"},
                              arg : Name \cup {""}, copy : SUBSET Name]]
    BY <1>1, <1>2, <1>3
  <2>2. \A u \in Thread : mutex' = u <=> call'[u] # Idle
    BY <1>1, <1>4, <1>5, AdvertisingAssumption DEF TypeOK
  <2> QED
    BY <1>1, <2>1, <2>2 DEF TypeOK, Idle
<1>7. Pending'
  BY <1>1, <1>4, <1>5, AdvertisingAssumption DEF Pending
<1>8. NotServing' /\ Serving'
  BY <1>1 DEF NotServing, Serving
<1> QED
  BY <1>6, <1>7, <1>8

\* The three requests change the tools they name and no other.
LEMMA RequestsKeep ==
    ASSUME AdvertisingIInv, NEW th \in Thread, NEW a \in PackArg \cup ToolArg,
           Activate(th, a) \/ DeactivatePack(th, a) \/ DeactivateTool(th, a)
    PROVE  AdvertisingIInv'
<1>1. a \in Name /\ {"skills", "skill"} \subseteq Name
  BY DEF Name, BuiltIn
<1>2. advertised \subseteq Name
  BY DEF AdvertisingIInv, TypeOK
<1>3. ActivePackTools(a) \subseteq Name /\ a \in ActivePackTools(a)
  BY <1>1 DEF ActivePackTools
<1>4. CASE Activate(th, a)
  <2> DEFINE set == advertised \cup ActivePackTools(a)
  <2>1. Change(th, "activate", a, set)
    BY <1>4 DEF Activate
  <2>2. /\ set \in SUBSET Name /\ advertised \ set \subseteq ActivePackTools(a)
        /\ set \ advertised \subseteq ActivePackTools(a)
    BY <1>2, <1>3
  <2> QED
    BY <1>1, <2>1, <2>2, ChangeKeeps
<1>5. CASE DeactivatePack(th, a)
  <2> DEFINE set == advertised \ ActivePackTools(a)
  <2>1. Change(th, "deactivatePack", a, set)
    BY <1>5 DEF DeactivatePack
  <2>2. /\ set \in SUBSET Name /\ advertised \ set \subseteq ActivePackTools(a)
        /\ set \ advertised \subseteq ActivePackTools(a)
    BY <1>2
  <2> QED
    BY <1>1, <2>1, <2>2, ChangeKeeps
<1>6. CASE DeactivateTool(th, a)
  <2> DEFINE set == advertised \ {a}
  <2>1. Change(th, "deactivateTool", a, set)
    BY <1>6 DEF DeactivateTool
  <2>2. /\ set \in SUBSET Name /\ advertised \ set \subseteq ActivePackTools(a)
        /\ set \ advertised \subseteq ActivePackTools(a)
    BY <1>2, <1>3
  <2> QED
    BY <1>1, <2>1, <2>2, ChangeKeeps
<1> QED
  BY <1>4, <1>5, <1>6

\* The end of a change.
LEMMA SyncKeeps ==
    ASSUME AdvertisingIInv, NEW th \in Thread, SyncAdvertised(th)
    PROVE  AdvertisingIInv'
<1> USE DEF AdvertisingIInv
<1>1. /\ call[th] # Idle /\ mutex' = Nobody
      /\ m_Advertised' = call[th].copy /\ m_FilterAdvertised' = TRUE
      /\ call' = [call EXCEPT ![th] = Idle]
      /\ UNCHANGED <<phase, conf, advertised, locked, m_Commands>>
  BY DEF SyncAdvertised, SetAdvertised
<1>2. mutex = th /\ phase = "serving"
  BY <1>1, AdvertisingAssumption DEF TypeOK, NotServing
<1>3. m_Advertised' = advertised
  BY <1>1, <1>2 DEF Pending
<1>4. call'[th] = Idle /\ \A u \in Thread : u # th => call'[u] = call[u]
  BY <1>1 DEF TypeOK
<1>5. TypeOK'
  <2>1. call' \in [Thread -> [op : {"none", "activate", "deactivateTool", "deactivatePack"},
                              arg : Name \cup {""}, copy : SUBSET Name]]
    BY <1>1 DEF TypeOK, Idle
  <2>2. \A u \in Thread : mutex' = u <=> call'[u] # Idle
    BY <1>1, <1>2, <1>4, AdvertisingAssumption DEF TypeOK
  <2> QED
    BY <1>1, <1>3, <2>1, <2>2 DEF TypeOK, Idle
<1>6. Pending' /\ NotServing' /\ Serving'
  BY <1>1, <1>2, <1>3, AdvertisingAssumption DEF Pending, NotServing, Serving
<1> QED
  BY <1>5, <1>6

\* AdvertisingIInv is inductive.
LEMMA AdvertisingInductive == AdvertisingIInv /\ [Next]_vars => AdvertisingIInv'
<1> SUFFICES ASSUME AdvertisingIInv, [Next]_vars PROVE AdvertisingIInv'
  OBVIOUS
<1>1. CASE Next
  BY <1>1, StartUpKeeps, RequestsKeep, SyncKeeps DEF Next
<1>2. CASE UNCHANGED vars
  BY <1>2 DEF vars, AdvertisingIInv, TypeOK, NotServing, Serving, Pending
<1> QED
  BY <1>1, <1>2

LEMMA AdvertisingInvariant == Spec => []AdvertisingIInv
  BY AdvertisingInit, AdvertisingInductive, PTL DEF Spec

-----------------------------------------------------------------------------
\* AdvertisingInv always: CoreRuntime::mutex is held exactly over a change,
\* and whenever it is free catalog, tools/list and the skill tool agree, once a
\* filter is installed.
THEOREM CatalogAgrees == Spec => []AdvertisingInv
<1>1. ASSUME AdvertisingIInv, mutex = Nobody, m_FilterAdvertised PROVE CatalogTruthful
  <2>1. phase = "serving" /\ m_Advertised = advertised
    BY <1>1 DEF AdvertisingIInv, NotServing, Pending
  <2>2. BuiltIn \subseteq m_Commands
    BY <1>1, <2>1 DEF AdvertisingIInv, Serving
  <2>3. \A t \in BuiltIn \ Hidden : t \in Listed <=> t \in advertised
    BY <1>1, <2>1, <2>2 DEF Listed
  <2>4. \A row \in DOMAIN CatalogRows : CatalogRows[row] \in BuiltIn \ Hidden
    BY DEF CatalogRows, BuiltIn, Hidden, kCoreTools, kLanguageExtra
  <2>5. "skill" \in BuiltIn \ Hidden
    BY DEF BuiltIn, Hidden
  <2> QED
    BY <2>1, <2>3, <2>4, <2>5 DEF CatalogTruthful, CatalogActive, SkillUsable
<1>2. AdvertisingIInv => AdvertisingInv
  BY <1>1 DEF AdvertisingIInv, AdvertisingInv, CatalogTruthful
<1> QED
  BY <1>2, AdvertisingInvariant, PTL

\* ChangeIsLocal: what a request passes on alters tools/list only for the
\* tools it named.
LEMMA SyncIsLocal ==
    ASSUME AdvertisingIInv, Next, NEW th \in Thread,
           m_FilterAdvertised, call[th] # Idle, call'[th] = Idle
    PROVE  (Listed \ Listed') \cup (Listed' \ Listed) \subseteq ActivePackTools(call[th].arg)
<1>1. SyncAdvertised(th)
  <2>1. ASSUME NEW u \in Thread, NEW op \in {"activate", "deactivateTool", "deactivatePack"},
               NEW arg, NEW set, Change(u, op, arg, set)
        PROVE  FALSE
    <3>1. call' = [call EXCEPT ![u] = [op |-> op, arg |-> arg, copy |-> set]]
      BY <2>1 DEF Change
    <3>2. u = th
      BY <3>1 DEF AdvertisingIInv, TypeOK
    <3> QED
      BY <2>1, <3>2 DEF Change
  <2>2. ASSUME NEW u \in Thread, SyncAdvertised(u) PROVE u = th
    BY <2>2 DEF SyncAdvertised, AdvertisingIInv, TypeOK
  <2>3. ~StartUp
    BY DEF StartUp
  <2> QED
    BY <2>1, <2>2, <2>3 DEF Next, Activate, DeactivatePack, DeactivateTool
<1>2. mutex = th
  BY DEF AdvertisingIInv, TypeOK
<1>3. m_Advertised' = advertised /\ m_FilterAdvertised' /\ m_Commands' = m_Commands
  BY <1>1, <1>2 DEF SyncAdvertised, SetAdvertised, AdvertisingIInv, Pending
<1>4. (Listed \ Listed') \subseteq m_Advertised \ advertised
  BY <1>3 DEF Listed
<1>5. (Listed' \ Listed) \subseteq advertised \ m_Advertised
  BY <1>3 DEF Listed
<1> QED
  BY <1>2, <1>4, <1>5 DEF AdvertisingIInv, Pending

\* LockedLeavesOnlyAsPack: deactivate refuses a locked tool by its tool
\* argument, and no pack but the one with its name erases it.
LEMMA LockedLeaves ==
    ASSUME AdvertisingIInv, Next, NEW t \in locked \cap advertised, t \notin advertised'
    PROVE  \E th \in Thread : call'[th].op = "deactivatePack" /\ call'[th].arg = t
<1>1. phase = "serving" /\ t \in kCoreTools \cup kLanguageExtra
  BY DEF AdvertisingIInv, NotServing, Serving
<1>2. t \notin {"skills", "skill"}
  BY <1>1 DEF kCoreTools, kLanguageExtra
<1>3. PICK th \in Thread, p \in PackArg : DeactivatePack(th, p)
  <2>1. ~StartUp /\ \A th \in Thread : ~SyncAdvertised(th)
    BY <1>1 DEF StartUp, SyncAdvertised
  <2>2. \A th \in Thread, p \in PackArg : ~Activate(th, p)
    BY DEF Activate, Change
  <2>3. \A th \in Thread, a \in ToolArg : ~DeactivateTool(th, a)
    BY DEF DeactivateTool, Change
  <2> QED
    BY <2>1, <2>2, <2>3 DEF Next
<1>4. /\ advertised' = advertised \ ActivePackTools(p)
      /\ call' = [call EXCEPT ![th] = [op |-> "deactivatePack", arg |-> p, copy |-> advertised']]
  BY <1>3 DEF DeactivatePack, Change
<1>5. p = t
  BY <1>2, <1>4 DEF ActivePackTools
<1>6. call'[th] = [op |-> "deactivatePack", arg |-> p, copy |-> advertised']
  BY <1>4 DEF AdvertisingIInv, TypeOK
<1> QED
  BY <1>5, <1>6

\* LawfulChange: activate and deactivate change what they name whatever other
\* threads do, and a locked tool leaves only when it is named as a pack.
THEOREM ChangesAreLawful == Spec => LawfulChange
<1> DEFINE Local == \A th \in Thread :
                       m_FilterAdvertised /\ call[th] # Idle /\ call'[th] = Idle =>
                          (Listed \ Listed') \cup (Listed' \ Listed)
                              \subseteq ActivePackTools(call[th].arg)
           Leaves == \A t \in locked \cap advertised : t \notin advertised' =>
                        \E th \in Thread : call'[th].op = "deactivatePack" /\ call'[th].arg = t
<1>1. AdvertisingIInv /\ [Next]_vars => [Local]_vars
  BY SyncIsLocal
<1>2. AdvertisingIInv /\ [Next]_vars => [Leaves]_vars
  BY LockedLeaves
<1> QED
  BY <1>1, <1>2, AdvertisingInvariant, PTL
  DEF Spec, LawfulChange, ChangeIsLocal, LockedLeavesOnlyAsPack

\* StartUpHonoursConfig: a server that comes up lists exactly the pins, or
\* everything, or the core tools and nothing of a disabled pack.
THEOREM ConfigHonoured == Spec => StartUpHonoursConfig
<1> DEFINE Honoured ==
             phase = "boot" /\ phase' = "serving" =>
                CASE conf.pinTools # {} -> Listed' = conf.pinTools \ Hidden
                  [] conf.pinTools = {} /\ ResolvedProfile(conf) = "all" ->
                        Listed' = m_Commands' \ Hidden
                  [] OTHER -> /\ kCoreTools \subseteq Listed'
                              /\ Listed' \cap ToolsOfPacks(conf.disable) = {}
<1>1. AdvertisingIInv /\ [Next]_vars => [Honoured]_vars
  <2> SUFFICES ASSUME AdvertisingIInv, Next, phase = "boot", phase' = "serving"
               PROVE  Honoured
    OBVIOUS
  <2>1. StartUp /\ conf \in Config
    BY DEF Next, Activate, DeactivatePack, DeactivateTool, Change, SyncAdvertised,
           AdvertisingIInv, TypeOK
  <2>2. /\ conf.pinTools \subseteq RegisteredTools(conf)
        /\ m_Advertised' = Resolve(conf).advertised
        /\ m_Commands' = RegisteredTools(conf)
        /\ m_FilterAdvertised' = (conf.pinTools # {} \/ ResolvedProfile(conf) # "all")
    BY <2>1, StartUpServes
  <2>3. CASE conf.pinTools # {}
    <3>1. m_FilterAdvertised' /\ m_Advertised' = conf.pinTools
      BY <2>1, <2>2, <2>3, Resolved
    <3>2. Listed' = conf.pinTools \ Hidden
      BY <2>2, <3>1 DEF Listed
    <3> QED
      BY <2>3, <3>2
  <2>4. CASE conf.pinTools = {} /\ ResolvedProfile(conf) = "all"
    <3>1. Listed' = m_Commands' \ Hidden
      BY <2>2, <2>4 DEF Listed
    <3> QED
      BY <2>4, <3>1
  <2>5. CASE conf.pinTools = {} /\ ResolvedProfile(conf) # "all"
    <3>1. /\ kCoreTools \subseteq m_Advertised'
          /\ m_Advertised' \cap ToolsOfPacks(conf.disable) = {}
      BY <2>1, <2>2, <2>5, Resolved
    <3>2. kCoreTools \subseteq m_Commands' \ Hidden
      BY <2>1, <2>2, RegisteredNames DEF BuiltIn, Hidden, kCoreTools
    <3>3. m_FilterAdvertised'
      BY <2>2, <2>5
    <3>4. kCoreTools \subseteq Listed' /\ Listed' \cap ToolsOfPacks(conf.disable) = {}
      BY <3>1, <3>2, <3>3 DEF Listed
    <3> QED
      BY <2>5, <3>4
  <2> QED
    BY <2>3, <2>4, <2>5
<1> QED
  BY <1>1, AdvertisingInvariant, PTL DEF Spec, StartUpHonoursConfig
=============================================================================
