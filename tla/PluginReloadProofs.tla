------------------------- MODULE PluginReloadProofs -------------------------
(***************************************************************************)
(* The registry under start-up and two plugin watchers, for any plugins,     *)
(* tool lists (names taken, empty or listed twice) and saves.                *)
(*                                                                         *)
(* That a command taken out of the registry is never one that is still in    *)
(* it rests on modification times only growing: what a reload registers is   *)
(* newer than all that its plugin has registered before (Older).  That       *)
(* nothing stays unannounced rests on who put a silent tool there (Silent).  *)
(***************************************************************************)
EXTENDS PluginReload, TLAPS

Names == Seq(Tool \cup {NoName})

\* The plugins directory: saves only add, and what is there was saved once.
DiskInv ==
    /\ manifest \in [Dir -> [state : {"absent", "partial", "good"}, stamp : Nat]]
    /\ script \in [Dir -> Nat]
    /\ mtimeMap \in [Dir -> Nat]
    /\ \A d \in Dir :
          /\ manifest[d].stamp <= MaxStamp[d] /\ script[d] <= MaxVersion[d]
          /\ manifest[d].state # "absent" => manifest[d].stamp > 0
          /\ mtimeMap[d] <= manifest[d].stamp

\* The script watcher is in the middle of a reload.
Busy == spc \in {"read", "discover", "hung", "replace", "shutdown"}

\* Where the threads are, and what each holds.
ControlInv ==
    /\ nrest \in Seq(Tool) /\ srest \in Names
    /\ found \in [Dir -> Names \cup {<<"pending">>, <<"hung">>}]
    /\ \A d \in Dir : found[d] = <<"pending">> => script[d] > 0
    /\ phase = "native" => sdir = None
    /\ phase \in {"native", "scripts"} => npc = "none" /\ spc = "none" /\ silent = {}
    /\ nbin # None => phase = "native" \/ npc = "scan"
    /\ Busy => sdir \in Dir /\ mtimeMap[sdir] > 0
    /\ ~Busy /\ phase # "scripts" => sdir = None
    /\ spc = "discover" => script[sdir] > 0
    /\ spc = "shutdown" => srest # <<>>

\* What a reload under way registers next is newer than command c.
Older(c) ==
    c.plugin \in Dir =>
        /\ c.stamp <= mtimeMap[c.plugin]
        /\ Busy /\ c.plugin = sdir /\ c.stamp = mtimeMap[sdir] =>
              \/ spc = "replace" /\ c.left > Len(srest)
              \/ spc = "shutdown" /\ c.left >= Len(srest)
              \/ spc = "hung"

\* Every command there was is older, those taken out are no longer in the
\* registry, and all but the one just taken out have been shut down.
RetiredInv ==
    /\ retired \subseteq Tool \X AnyCommand /\ shutDown \subseteq retired
    /\ \A t \in Tool : Registered(t) => Older(m_Commands[t])
    /\ \A r \in retired :
          /\ Older(r[2])
          /\ Registered(r[1]) /\ m_Commands[r[1]] # r[2]
          /\ r \in shutDown \/ (spc = "shutdown" /\ r[1] = Head(srest))

\* The load that made command c is still under way.
InLoad(c) ==
    \/ c.plugin = nbin /\ c.stamp = 0
    \/ Busy /\ c.plugin = sdir /\ c.stamp = mtimeMap[sdir]

\* A silent tool was put there by the load in progress, or by one that threw.
SilentInv ==
    /\ silent \subseteq Tool
    /\ \A t \in silent :
          /\ Registered(t) /\ m_Commands[t].plugin \in Bin \cup Dir
          /\ InLoad(m_Commands[t]) \/ Threw(m_Commands[t])

RegistryIInv == TypeOK /\ DiskInv /\ ControlInv /\ RetiredInv /\ SilentInv

-----------------------------------------------------------------------------
(* What the parts of the invariant depend on                               *)

LEMMA CommandTypes ==
    ASSUME NEW p \in {"core"} \cup Bin \cup Dir, NEW s \in Nat, NEW l \in Nat
    PROVE  /\ Command(p, s, l) \in AnyCommand /\ Command(p, s, l) # None
           /\ Command(p, s, l).plugin = p /\ Command(p, s, l).stamp = s
           /\ Command(p, s, l).left = l
<1>1. /\ Command(p, s, l) \in AnyCommand
      /\ Command(p, s, l).plugin = p /\ Command(p, s, l).stamp = s
      /\ Command(p, s, l).left = l
  BY DEF Command, AnyCommand
<1> QED
  BY <1>1, ReloadAssumption

\* A command stays older while no reload begins or goes on.
LEMMA OlderKept ==
    ASSUME NEW c, Older(c), mtimeMap \in [Dir -> Nat], mtimeMap' \in [Dir -> Nat],
           c \in AnyCommand,
           \A d \in Dir : mtimeMap[d] <= mtimeMap'[d],
           ~Busy' \/ UNCHANGED <<spc, sdir, srest, mtimeMap>>
    PROVE  Older(c)'
<1>1. CASE UNCHANGED <<spc, sdir, srest, mtimeMap>>
  BY <1>1 DEF Older, Busy
<1>2. CASE ~Busy'
  <2>1. c.plugin \in Dir => c.stamp <= mtimeMap'[c.plugin]
    BY DEF Older, AnyCommand
  <2> QED
    BY <1>2, <2>1 DEF Older
<1> QED
  BY <1>1, <1>2

\* Nothing is registered, retired or shut down, and no time is forgotten.
LEMMA RetiredKept ==
    ASSUME TypeOK, RetiredInv, UNCHANGED <<m_Commands, retired, shutDown>>,
           \A c \in AnyCommand : Older(c) => Older(c)',
           spc = "shutdown" => UNCHANGED <<spc, srest>>
    PROVE  RetiredInv'
<1>1. \A t \in Tool : Registered(t) => m_Commands[t] \in AnyCommand
  BY DEF TypeOK, Registered
<1>2. \A r \in retired : r[1] \in Tool /\ r[2] \in AnyCommand
  BY DEF RetiredInv
<1>3. \A t \in Tool : Registered(t)' <=> Registered(t)
  BY DEF Registered
<1>4. \A t \in Tool : Registered(t)' => Older(m_Commands[t])'
  BY <1>1, <1>3 DEF RetiredInv
<1>5. \A r \in retired : Older(r[2])'
  BY <1>2 DEF RetiredInv
<1> QED
  BY <1>2, <1>3, <1>4, <1>5 DEF RetiredInv

\* No load ends.
LEMMA SilentKept ==
    ASSUME SilentInv, UNCHANGED <<m_Commands, silent, threw>>,
           nbin \in Bin => UNCHANGED nbin,
           Busy => Busy' /\ UNCHANGED <<sdir, mtimeMap>>,
           None \notin Bin \cup Dir, nbin \in Bin \cup {None}, Bin \cap Dir = {}
    PROVE  SilentInv'
<1>1. ASSUME NEW c, c.plugin \in Bin \cup Dir, InLoad(c)
      PROVE  InLoad(c)'
  BY <1>1 DEF InLoad
<1>2. \A t \in silent : /\ Registered(t)' /\ m_Commands'[t] = m_Commands[t]
                        /\ m_Commands[t].plugin \in Bin \cup Dir
  BY DEF SilentInv, Registered
<1>3. \A t \in silent : InLoad(m_Commands[t])' \/ Threw(m_Commands[t])'
  BY <1>1, <1>2 DEF SilentInv, Threw
<1> QED
  BY <1>2, <1>3 DEF SilentInv

\* Both at once, for the steps that leave the registry and its history alone.
LEMMA QuietStep ==
    ASSUME RegistryIInv, DiskInv',
           UNCHANGED <<m_Commands, shutDown, retired, silent, threw>>,
           \A d \in Dir : mtimeMap[d] <= mtimeMap'[d],
           ~Busy' \/ UNCHANGED <<spc, sdir, srest, mtimeMap>>,
           Busy => UNCHANGED <<spc, sdir, srest, mtimeMap>>,
           nbin \in Bin => UNCHANGED nbin
    PROVE  RetiredInv' /\ SilentInv'
<1>1. \A c \in AnyCommand : Older(c) => Older(c)'
  BY OlderKept DEF RegistryIInv, DiskInv
<1>2. RetiredInv'
  BY <1>1, RetiredKept DEF RegistryIInv, Busy
<1>3. SilentInv'
  BY SilentKept, ReloadAssumption DEF RegistryIInv, TypeOK, Busy
<1> QED
  BY <1>2, <1>3

-----------------------------------------------------------------------------
(* The plugins directory, and the steps that only move a thread            *)

LEMMA DeployKeeps ==
    ASSUME RegistryIInv, Deploy
    PROVE  RegistryIInv'
<1> USE DEF disk, conf, main, native, scripts
<1>1. TypeOK'
  BY DEF RegistryIInv, Deploy, TypeOK
<1>2. UNCHANGED mtimeMap /\ \A d \in Dir : script'[d] >= script[d]
  <2>1. CASE \E d \in Dir : SaveScript(d)
    BY <2>1 DEF SaveScript, Deploy, RegistryIInv, DiskInv
  <2>2. CASE UNCHANGED script
    BY <2>2 DEF Deploy, RegistryIInv, DiskInv
  <2> QED
    BY <2>1, <2>2 DEF Deploy, SaveManifest, CopyBinary
<1>3. DiskInv'
  <2>1. ASSUME NEW d \in Dir, SaveManifest(d)
        PROVE  DiskInv'
    <3>1. manifest[d] \in [state : {"absent", "partial", "good"}, stamp : Nat]
      BY DEF RegistryIInv, DiskInv
    <3>2. /\ manifest' \in [Dir -> [state : {"absent", "partial", "good"}, stamp : Nat]]
          /\ manifest'[d].stamp = manifest[d].stamp + 1
          /\ \A e \in Dir \ {d} : manifest'[e] = manifest[e]
      BY <2>1, <3>1 DEF SaveManifest, RegistryIInv, DiskInv
    <3>3. manifest'[d].stamp <= MaxStamp[d] /\ manifest'[d].stamp > 0
      BY <2>1, <3>1, <3>2, ReloadAssumption DEF SaveManifest
    <3>4. \A e \in Dir : manifest[e].stamp <= manifest'[e].stamp
      BY <3>1, <3>2 DEF RegistryIInv, DiskInv
    <3> QED
      BY <1>2, <2>1, <3>1, <3>2, <3>3, <3>4 DEF SaveManifest, RegistryIInv, DiskInv
  <2>2. ASSUME NEW d \in Dir, SaveScript(d)
        PROVE  DiskInv'
    <3>1. MaxVersion[d] \in Nat /\ script[d] \in Nat
      BY ReloadAssumption DEF RegistryIInv, DiskInv
    <3>2. /\ script' \in [Dir -> Nat] /\ script'[d] = script[d] + 1
          /\ \A e \in Dir \ {d} : script'[e] = script[e]
      BY <2>2 DEF SaveScript, RegistryIInv, DiskInv
    <3>3. script[d] < MaxVersion[d] /\ UNCHANGED manifest
      BY <2>2 DEF SaveScript
    <3>4. script'[d] <= MaxVersion[d]
      BY <3>1, <3>2, <3>3
    <3> QED
      BY <1>2, <3>2, <3>3, <3>4 DEF RegistryIInv, DiskInv
  <2>3. ASSUME NEW b \in Bin, CopyBinary(b)
        PROVE  DiskInv'
    BY <1>2, <2>3 DEF CopyBinary, RegistryIInv, DiskInv
  <2> QED
    BY <2>1, <2>2, <2>3 DEF Deploy
<1>4. ControlInv'
  <2>1. script' \in [Dir -> Nat]
    BY <1>3 DEF DiskInv
  <2>2. \A d \in Dir : script[d] > 0 => script'[d] > 0
    BY <1>2, <2>1 DEF RegistryIInv, DiskInv
  <2> QED
    BY <2>2 DEF Deploy, RegistryIInv, ControlInv, Busy
<1>5. RetiredInv' /\ SilentInv'
  <2>1. \A d \in Dir : mtimeMap[d] <= mtimeMap'[d]
    BY <1>2 DEF RegistryIInv, DiskInv
  <2> QED
    BY <1>3, <2>1, QuietStep DEF Deploy
<1> QED
  BY <1>1, <1>3, <1>4, <1>5 DEF RegistryIInv

\* A step that also leaves the directory, and what is known of it, alone.
LEMMA ThreadStep ==
    ASSUME RegistryIInv, TypeOK', ControlInv',
           UNCHANGED <<manifest, script, mtimeMap, m_Commands, shutDown, retired,
                       silent, threw>>,
           ~Busy' \/ UNCHANGED <<spc, sdir, srest>>,
           ~Busy \/ UNCHANGED <<spc, sdir, srest>>,
           nbin \in Bin => UNCHANGED nbin
    PROVE  RegistryIInv'
<1>1. DiskInv'
  BY DEF RegistryIInv, DiskInv
<1>2. \A d \in Dir : mtimeMap[d] <= mtimeMap'[d]
  BY DEF RegistryIInv, DiskInv
<1>3. RetiredInv' /\ SilentInv'
  BY <1>1, <1>2, QuietStep
<1> QED
  BY <1>1, <1>3 DEF RegistryIInv

LEMMA StopsKeep ==
    ASSUME RegistryIInv, StopScriptWatcher \/ StopNativeWatcher \/ ExitServer
    PROVE  RegistryIInv'
<1> USE DEF disk, conf, main, native, scripts
<1>1. UNCHANGED <<disk, native, scripts, todo, found, m_Commands, shutDown, retired, silent, threw>>
  BY DEF StopScriptWatcher, StopNativeWatcher, ExitServer
<1>2. /\ phase \in {"serving", "stopScript", "stopNative"}
      /\ phase' \in {"stopScript", "stopNative", "exited"}
  BY DEF StopScriptWatcher, StopNativeWatcher, ExitServer
<1>3. TypeOK'
  BY <1>1, <1>2 DEF RegistryIInv, TypeOK
<1>4. ControlInv'
  BY <1>1, <1>2 DEF RegistryIInv, ControlInv, Busy
<1> QED
  BY <1>1, <1>3, <1>4, ThreadStep

LEMMA NativeThreadKeeps ==
    ASSUME RegistryIInv,
           NativeWake \/ NativeScanned \/ \E b \in Bin : NativeVisit(b)
    PROVE  RegistryIInv'
<1> USE DEF disk, conf, main, native, scripts
<1>1. UNCHANGED <<disk, main, scripts, loaded, m_Commands, shutDown, retired, silent, threw>>
  BY DEF NativeWake, NativeScanned, NativeVisit
<1>2. CASE NativeWake \/ NativeScanned
  <2>1. UNCHANGED <<nbin, nrest>> /\ npc \in {"sleep", "scan"}
    BY <1>2 DEF NativeWake, NativeScanned
  <2>2. TypeOK' /\ npc' \in {"scan", "sleep", "exited"}
    BY <1>1, <1>2, <2>1 DEF RegistryIInv, TypeOK, NativeWake, NativeScanned
  <2>3. nbin = None
    BY <1>2 DEF NativeWake, NativeScanned, RegistryIInv, ControlInv
  <2>4. ControlInv'
    BY <1>1, <2>1, <2>2, <2>3 DEF RegistryIInv, ControlInv, Busy
  <2> QED
    BY <1>1, <2>1, <2>2, <2>4, ThreadStep
<1>3. ASSUME NEW b \in Bin, NativeVisit(b)
      PROVE  RegistryIInv'
  <2>1. npc = "scan" /\ UNCHANGED npc /\ nbin = None
    BY <1>3 DEF NativeVisit
  <2>2. TypeOK'
    BY <1>1, <1>3, ReloadAssumption DEF RegistryIInv, TypeOK, NativeVisit, BeginLoad
  <2>3. ControlInv'
    <3>1. nrest' \in Seq(Tool)
      BY <1>3, ReloadAssumption DEF NativeVisit, BeginLoad, RegistryIInv, ControlInv
    <3>2. nbin' # None => <<nbin', "canonical">> \notin loaded
      BY <1>3 DEF NativeVisit, BeginLoad
    <3> QED
      BY <1>1, <2>1, <3>1, <3>2 DEF RegistryIInv, ControlInv, Busy
  <2> QED
    BY <1>1, <2>1, <2>2, <2>3, ThreadStep, ReloadAssumption
<1> QED
  BY <1>2, <1>3

-----------------------------------------------------------------------------
(* Start-up                                                                *)

LEMMA StartupThreadKeeps ==
    ASSUME RegistryIInv,
           \/ \E b \in Bin : LoadAllNative(b)
           \/ \E d \in Dir : AwaitScript(d)
           \/ StartWatchers
    PROVE  RegistryIInv'
<1> USE DEF disk, conf, main, native, scripts
<1>1. UNCHANGED <<manifest, script, found, mtimeMap, loaded, srest, m_Commands, shutDown, retired,
                  silent, threw>>
  BY DEF LoadAllNative, AwaitScript, StartWatchers
<1>2. /\ phase \in {"native", "scripts"} /\ npc = "none" /\ spc = "none" /\ silent = {}
      /\ ~Busy
  BY DEF LoadAllNative, AwaitScript, StartWatchers, RegistryIInv, ControlInv, Busy
<1>3. ASSUME NEW b \in Bin, LoadAllNative(b)
      PROVE  RegistryIInv'
  <2>1. UNCHANGED <<phase, npc, spc, sdir>> /\ phase = "native" /\ nbin = None
    BY <1>3 DEF LoadAllNative
  <2>2. TypeOK'
    BY <1>1, <1>3 DEF LoadAllNative, BeginLoad, RegistryIInv, TypeOK
  <2>3. nrest' \in Seq(Tool)
    BY <1>3, ReloadAssumption DEF LoadAllNative, BeginLoad, RegistryIInv, ControlInv
  <2>4. ControlInv'
    BY <1>1, <1>2, <2>1, <2>3 DEF RegistryIInv, ControlInv, Busy
  <2> QED
    BY <1>1, <1>2, <2>1, <2>2, <2>4, ThreadStep, ReloadAssumption DEF Busy
<1>4. ASSUME NEW d \in Dir, AwaitScript(d)
      PROVE  RegistryIInv'
  <2>1. UNCHANGED <<phase, npc, nbin, nrest, spc>> /\ phase = "scripts" /\ sdir = None
    BY <1>4 DEF AwaitScript
  <2>2. TypeOK'
    BY <1>1, <1>4 DEF AwaitScript, RegistryIInv, TypeOK
  <2>3. ControlInv'
    BY <1>1, <1>2, <2>1 DEF RegistryIInv, ControlInv, Busy
  <2> QED
    BY <1>1, <1>2, <2>1, <2>2, <2>3, ThreadStep, ReloadAssumption DEF Busy
<1>5. ASSUME StartWatchers
      PROVE  RegistryIInv'
  <2>1. /\ UNCHANGED <<nbin, nrest, sdir>> /\ sdir = None /\ phase' = "serving"
        /\ npc' \in {"start", "none"} /\ spc' \in {"start", "none"}
    BY <1>5 DEF StartWatchers
  <2>2. TypeOK'
    BY <1>1, <1>5, <2>1 DEF StartWatchers, RegistryIInv, TypeOK
  <2>3. nbin = None
    BY <1>2, <1>5 DEF StartWatchers, RegistryIInv, ControlInv
  <2>4. ControlInv'
    BY <1>1, <1>2, <2>1, <2>3 DEF RegistryIInv, ControlInv, Busy
  <2> QED
    BY <1>1, <1>2, <2>1, <2>2, <2>4, ThreadStep DEF Busy
<1> QED
  BY <1>3, <1>4, <1>5

LEMMA CollectScriptsKeeps ==
    ASSUME RegistryIInv, CollectScripts
    PROVE  RegistryIInv'
<1> USE DEF disk, conf, main, native, scripts
<1>1. /\ UNCHANGED <<manifest, script, m_Commands, shutDown, native, spc, stodo, sdir, srest, retired,
                     silent, threw>>
      /\ phase = "native" /\ nbin = None /\ phase' = "scripts"
  BY DEF CollectScripts
<1>2. spc = "none" /\ ~Busy /\ ~Busy'
  BY <1>1 DEF RegistryIInv, ControlInv, Busy
<1>3. /\ mtimeMap' \in [Dir -> Nat]
      /\ \A d \in Dir : mtimeMap'[d] = manifest[d].stamp
  BY DEF CollectScripts, RegistryIInv, DiskInv
<1>4. \A d \in Dir : mtimeMap'[d] \in 0 .. MaxStamp[d]
  BY <1>3, ReloadAssumption DEF RegistryIInv, DiskInv
<1>5. TypeOK'
  BY <1>1, <1>4 DEF RegistryIInv, TypeOK
<1>6. \A d \in Dir : manifest[d].stamp \in Nat
  BY DEF RegistryIInv, DiskInv
<1>7. DiskInv' /\ \A d \in Dir : mtimeMap[d] <= mtimeMap'[d]
  BY <1>1, <1>3, <1>6 DEF RegistryIInv, DiskInv
<1>8. ControlInv'
  <2>1. <<>> \in Names
    BY DEF Names
  <2>2. \A d \in todo' : script[d] > 0
    BY DEF CollectScripts, Loadable
  <2>3. /\ found' \in [Dir -> Names \cup {<<"pending">>, <<"hung">>}]
        /\ \A d \in Dir : found'[d] = <<"pending">> => d \in todo'
    <3>1. <<>> # <<"pending">>
      OBVIOUS
    <3> QED
      BY <2>1, <3>1 DEF CollectScripts
  <2> QED
    BY <1>1, <1>2, <2>2, <2>3 DEF RegistryIInv, ControlInv, Busy
<1> QED
  BY <1>1, <1>2, <1>5, <1>7, <1>8, QuietStep DEF RegistryIInv

\* What an entrypoint that is there may be found to offer.
LEMMA OutcomesType ==
    ASSUME NEW d \in Dir, script[d] \in Nat, script[d] > 0, script[d] <= MaxVersion[d],
           NEW tools \in Outcomes(d)
    PROVE  tools \in Names \cup {<<"hung">>}
<1>1. script[d] \in 1 .. MaxVersion[d]
  BY ReloadAssumption
<1>2. Offers[d][script[d]] \in Names
  BY <1>1, ReloadAssumption DEF Names
<1>3. SelectSeq(Offers[d][script[d]], IsValidToolName) \in Names
  <2>1. SelectSeq(Offers[d][script[d]], IsValidToolName) \in Seq(Tool)
    BY <1>1, FilterAssumption
  <2>2. Seq(Tool) \subseteq Seq(Tool \cup {NoName})
    OBVIOUS
  <2> QED
    BY <2>1, <2>2 DEF Names
<1>4. <<>> \in Names
  BY DEF Names
<1> QED
  BY <1>2, <1>3, <1>4 DEF Outcomes, DiscoverScriptTools, DiscoverServerTools

LEMMA DiscoverScriptsKeeps ==
    ASSUME RegistryIInv, NEW d \in Dir, DiscoverScripts(d)
    PROVE  RegistryIInv'
<1> USE DEF disk, conf, main, native, scripts
<1>1. UNCHANGED <<disk, m_Commands, shutDown, phase, native, scripts, retired, silent, threw>>
  BY DEF DiscoverScripts
<1>2. TypeOK'
  BY <1>1 DEF RegistryIInv, TypeOK
<1>3. script[d] \in Nat /\ script[d] > 0 /\ script[d] <= MaxVersion[d]
  BY DEF DiscoverScripts, RegistryIInv, DiskInv, ControlInv
<1>4. PICK tools \in Outcomes(d) : found' = [found EXCEPT ![d] = tools]
  BY DEF DiscoverScripts
<1>5. tools \in Names \cup {<<"hung">>}
  BY <1>3, OutcomesType
<1>6. found' \in [Dir -> Names \cup {<<"pending">>, <<"hung">>}]
  BY <1>4, <1>5 DEF RegistryIInv, ControlInv
<1>7. \A e \in Dir : found'[e] = <<"pending">> => script[e] > 0
  BY <1>3, <1>4 DEF RegistryIInv, ControlInv
<1>8. ControlInv'
  BY <1>1, <1>6, <1>7 DEF RegistryIInv, ControlInv, Busy
<1> QED
  BY <1>1, <1>2, <1>8, ThreadStep

-----------------------------------------------------------------------------
(* The watchers take note of what is there                                 *)

LEMMA NativeStartKeeps ==
    ASSUME RegistryIInv, NativeStart
    PROVE  RegistryIInv'
<1> USE DEF disk, conf, main, native, scripts
<1>1. /\ UNCHANGED <<disk, m_Commands, shutDown, main, ntodo, nbin, nrest, scripts, retired, silent,
                     threw>>
      /\ npc = "start" /\ npc' = "sleep"
  BY DEF NativeStart
<1>2. TypeOK' /\ DiskInv'
  BY <1>1 DEF RegistryIInv, TypeOK, DiskInv
<1>3. ControlInv'
  BY <1>1 DEF RegistryIInv, ControlInv, Busy
<1>4. RetiredInv'
  BY <1>1 DEF RegistryIInv, RetiredInv, Older, Busy, Registered
<1>5. SilentInv'
  BY <1>1, SilentKept, ReloadAssumption DEF RegistryIInv, TypeOK, Busy
<1> QED
  BY <1>2, <1>3, <1>4, <1>5 DEF RegistryIInv

LEMMA ScriptStartKeeps ==
    ASSUME RegistryIInv, ScriptStart
    PROVE  RegistryIInv'
<1> USE DEF disk, conf, main, native, scripts
<1>1. /\ UNCHANGED <<disk, m_Commands, shutDown, main, native, stodo, sdir, srest, retired, silent,
                     threw>>
      /\ spc = "start" /\ spc' = "sleep" /\ ~Busy /\ ~Busy'
  BY DEF ScriptStart, Busy
<1>2. /\ mtimeMap' \in [Dir -> Nat]
      /\ \A d \in Dir : mtimeMap'[d] = manifest[d].stamp
  BY DEF ScriptStart, RegistryIInv, DiskInv
<1>3. \A d \in Dir : mtimeMap'[d] \in 0 .. MaxStamp[d]
  BY <1>2, ReloadAssumption DEF RegistryIInv, DiskInv
<1>4. TypeOK'
  BY <1>1, <1>3 DEF RegistryIInv, TypeOK
<1>5. \A d \in Dir : manifest[d].stamp \in Nat
  BY DEF RegistryIInv, DiskInv
<1>6. DiskInv' /\ \A d \in Dir : mtimeMap[d] <= mtimeMap'[d]
  BY <1>1, <1>2, <1>5 DEF RegistryIInv, DiskInv
<1>7. ControlInv'
  BY <1>1 DEF RegistryIInv, ControlInv
<1> QED
  BY <1>1, <1>4, <1>6, <1>7, QuietStep DEF RegistryIInv

LEMMA ScriptRestKeeps ==
    ASSUME RegistryIInv, ScriptWake \/ ScriptScanned
    PROVE  RegistryIInv'
<1> USE DEF disk, conf, main, native, scripts
<1>1. /\ UNCHANGED <<disk, m_Commands, shutDown, main, native, sdir, srest, mtimeMap, retired, silent,
                     threw>>
      /\ spc \in {"sleep", "scan"} /\ spc' \in {"sleep", "scan", "exited"}
      /\ stodo' \subseteq Dir
  BY DEF ScriptWake, ScriptScanned, RegistryIInv, TypeOK
<1>2. ~Busy /\ ~Busy'
  BY <1>1 DEF Busy
<1>3. TypeOK'
  BY <1>1 DEF RegistryIInv, TypeOK
<1>4. ControlInv'
  BY <1>1, <1>2 DEF RegistryIInv, ControlInv
<1> QED
  BY <1>1, <1>2, <1>3, <1>4, ThreadStep

\* A plugin is reloaded when its plugin.json is newer than at the last visit:
\* than anything registered from it, then.
LEMMA ScriptVisitKeeps ==
    ASSUME RegistryIInv, NEW d \in Dir, ScriptVisit(d)
    PROVE  RegistryIInv'
<1> USE DEF disk, conf, main, native, scripts
<1>1. /\ UNCHANGED <<disk, m_Commands, shutDown, main, native, srest, retired, silent, threw>>
      /\ spc = "scan" /\ ~Busy /\ stodo' \subseteq Dir
  BY DEF ScriptVisit, Busy, RegistryIInv, TypeOK
<1>2. phase \notin {"native", "scripts"} /\ sdir = None
  BY <1>1 DEF RegistryIInv, ControlInv
<1>3. /\ mtimeMap' \in [Dir -> Nat] /\ mtimeMap'[d] = manifest[d].stamp
      /\ \A e \in Dir \ {d} : mtimeMap'[e] = mtimeMap[e]
  BY DEF ScriptVisit, RegistryIInv, DiskInv
<1>4. /\ mtimeMap[d] \in Nat /\ manifest[d].stamp \in Nat /\ manifest[d].stamp <= MaxStamp[d]
      /\ mtimeMap[d] <= manifest[d].stamp
  BY DEF RegistryIInv, DiskInv
<1>5. ASSUME NEW e \in Dir
      PROVE  mtimeMap'[e] \in 0 .. MaxStamp[e]
  <2>1. MaxStamp[e] \in Nat /\ MaxStamp[d] \in Nat
    BY ReloadAssumption
  <2>2. e # d => mtimeMap'[e] \in 0 .. MaxStamp[e]
    BY <1>3 DEF RegistryIInv, TypeOK
  <2> QED
    BY <1>3, <1>4, <2>1, <2>2
<1>6. /\ spc' \in {"scan", "read"} /\ sdir' \in {d, None}
      /\ Busy' => sdir' = d /\ mtimeMap'[d] > mtimeMap[d]
      /\ ~Busy' => sdir' = None
  <2>1. CASE mtimeMap[d] = manifest[d].stamp
    BY <1>1, <1>2, <2>1 DEF ScriptVisit, Busy
  <2>2. CASE mtimeMap[d] # manifest[d].stamp
    <3>1. spc' = "read" /\ sdir' = d /\ Busy'
      BY <2>2 DEF ScriptVisit, Busy
    <3>2. mtimeMap[d] < manifest[d].stamp
      BY <1>4, <2>2
    <3> QED
      BY <1>3, <3>1, <3>2
  <2> QED
    BY <2>1, <2>2
<1>7. TypeOK'
  BY <1>1, <1>5, <1>6 DEF RegistryIInv, TypeOK
<1>8. DiskInv' /\ \A e \in Dir : mtimeMap[e] <= mtimeMap'[e]
  BY <1>1, <1>3, <1>4 DEF RegistryIInv, DiskInv
<1>9. ControlInv'
  <2>1. Busy' => sdir' \in Dir /\ mtimeMap'[sdir'] > 0
    BY <1>3, <1>4, <1>6
  <2> QED
    BY <1>1, <1>2, <1>6, <2>1 DEF RegistryIInv, ControlInv
<1>10. RetiredInv' /\ SilentInv'
  <2>1. ASSUME NEW c \in AnyCommand, Older(c)
        PROVE  Older(c)'
    <3>1. c.plugin \in Dir => c.stamp \in Nat /\ c.stamp <= mtimeMap[c.plugin]
      BY <2>1 DEF Older, AnyCommand
    <3>2. c.plugin \in Dir => c.stamp <= mtimeMap'[c.plugin]
      BY <1>8, <3>1 DEF RegistryIInv, DiskInv
    <3>3. Busy' /\ c.plugin \in Dir /\ c.plugin = sdir' => c.stamp # mtimeMap'[sdir']
      BY <1>4, <1>6, <1>8, <3>1 DEF DiskInv
    <3> QED
      BY <3>2, <3>3 DEF Older
  <2>2. RetiredInv'
    BY <1>1, <2>1, RetiredKept DEF RegistryIInv
  <2>3. SilentInv'
    BY <1>1, <1>2, SilentKept, ReloadAssumption DEF RegistryIInv, TypeOK
  <2> QED
    BY <2>2, <2>3
<1> QED
  BY <1>7, <1>8, <1>9, <1>10 DEF RegistryIInv

-----------------------------------------------------------------------------
(* The reload of a script plugin                                           *)

\* A reload that ends half way: the tools it has registered are those of a load
\* that threw, and one that does not throw has registered none.
LEMMA AbandonKeeps ==
    ASSUME RegistryIInv, Busy, spc # "shutdown", spc # "hung", Abandon,
           UNCHANGED <<disk, m_Commands, shutDown, main, native, stodo, mtimeMap, retired, silent>>,
           \/ spc = "replace" /\ threw' = threw \cup {<<sdir, mtimeMap[sdir]>>}
           \/ spc # "replace" /\ UNCHANGED threw
    PROVE  RegistryIInv'
<1> USE DEF disk, conf, main, native, scripts
<1>1. /\ sdir \in Dir /\ mtimeMap[sdir] > 0 /\ mtimeMap[sdir] \in Nat
      /\ phase \notin {"native", "scripts"}
  BY DEF RegistryIInv, ControlInv, DiskInv, Busy
<1>2. spc' = "scan" /\ sdir' = None /\ srest' = <<>> /\ ~Busy'
  BY DEF Abandon, Busy
<1>3. TypeOK' /\ DiskInv'
  BY <1>2 DEF RegistryIInv, TypeOK, DiskInv
<1>4. ControlInv'
  <2>1. srest' \in Names
    BY <1>2 DEF Names
  <2> QED
    BY <1>1, <1>2, <2>1 DEF RegistryIInv, ControlInv
<1>5. RetiredInv'
  <2>1. \A d \in Dir : mtimeMap[d] <= mtimeMap'[d]
    BY DEF RegistryIInv, DiskInv
  <2>2. \A c \in AnyCommand : Older(c) => Older(c)'
    BY <1>2, <1>3, <2>1, OlderKept DEF RegistryIInv, DiskInv
  <2> QED
    BY <2>2, RetiredKept DEF RegistryIInv
<1>6. ASSUME NEW t \in silent
      PROVE  /\ Registered(t)' /\ m_Commands[t].plugin \in Bin \cup Dir
             /\ InLoad(m_Commands[t])' \/ Threw(m_Commands[t])'
  <2>1. t \in Tool /\ Registered(t) /\ m_Commands[t].plugin \in Bin \cup Dir
    BY DEF RegistryIInv, SilentInv
  <2>2. Older(m_Commands[t])
    BY <2>1 DEF RegistryIInv, RetiredInv
  <2>3. CASE Threw(m_Commands[t])
    BY <2>1, <2>3 DEF Threw, Registered
  <2>4. CASE m_Commands[t].plugin = nbin /\ m_Commands[t].stamp = 0
    BY <2>1, <2>4 DEF InLoad, Registered
  <2>5. CASE m_Commands[t].plugin = sdir /\ m_Commands[t].stamp = mtimeMap[sdir]
    <3>1. spc = "replace"
      BY <1>1, <2>2, <2>5 DEF Older
    <3> QED
      BY <2>1, <2>5, <3>1 DEF Threw, Registered
  <2> QED
    BY <2>3, <2>4, <2>5 DEF RegistryIInv, SilentInv, InLoad
<1>7. SilentInv'
  BY <1>6 DEF RegistryIInv, SilentInv
<1> QED
  BY <1>3, <1>4, <1>5, <1>7 DEF RegistryIInv

LEMMA ScriptReadKeeps ==
    ASSUME RegistryIInv, ScriptRead
    PROVE  RegistryIInv'
<1> USE DEF disk, conf, main, native, scripts
<1>1. /\ UNCHANGED <<disk, m_Commands, shutDown, main, native, stodo, mtimeMap, retired, silent, threw>>
      /\ spc = "read" /\ Busy
  BY DEF ScriptRead, Busy
<1>2. CASE Loadable(sdir)
  <2>1. spc' = "discover" /\ UNCHANGED <<sdir, srest, threw>> /\ Busy' /\ script[sdir] > 0
    BY <1>2 DEF ScriptRead, Loadable, Busy
  <2>2. TypeOK' /\ DiskInv'
    BY <1>1, <2>1 DEF RegistryIInv, TypeOK, DiskInv
  <2>3. ControlInv'
    BY <1>1, <2>1 DEF RegistryIInv, ControlInv
  <2>4. \A c : Older(c) => Older(c)'
    BY <1>1, <2>1 DEF Older
  <2>5. RetiredInv'
    BY <1>1, <2>4, RetiredKept DEF RegistryIInv
  <2>6. SilentInv'
    BY <1>1, <2>1, SilentKept, ReloadAssumption DEF RegistryIInv, TypeOK
  <2> QED
    BY <2>2, <2>3, <2>5, <2>6 DEF RegistryIInv
<1>3. CASE ~Loadable(sdir)
  BY <1>1, <1>3, AbandonKeeps DEF ScriptRead
<1> QED
  BY <1>2, <1>3

LEMMA ScriptDiscoverKeeps ==
    ASSUME RegistryIInv, ScriptDiscover
    PROVE  RegistryIInv'
<1> USE DEF disk, conf, main, native, scripts
<1>1. /\ UNCHANGED <<disk, m_Commands, shutDown, main, native, stodo, mtimeMap, retired, silent, threw>>
      /\ spc = "discover" /\ Busy
  BY DEF ScriptDiscover, Busy
<1>2. /\ sdir \in Dir /\ script[sdir] \in Nat /\ script[sdir] > 0
      /\ script[sdir] <= MaxVersion[sdir]
  BY <1>1 DEF RegistryIInv, ControlInv, DiskInv
<1>3. PICK tools \in Outcomes(sdir) :
          \/ tools = <<>> /\ Abandon
          \/ tools = <<"hung">> /\ spc' = "hung" /\ UNCHANGED <<sdir, srest>>
          \/ /\ tools \notin {<<>>, <<"hung">>}
             /\ spc' = "replace" /\ srest' = tools /\ UNCHANGED sdir
  BY DEF ScriptDiscover
<1>4. CASE Abandon
  BY <1>1, <1>4, AbandonKeeps
<1>5. CASE ~Abandon
  <2>1. /\ spc' \in {"hung", "replace"} /\ UNCHANGED sdir /\ Busy'
        /\ srest' \in Names
    <3>1. tools \in Names \cup {<<"hung">>}
      BY <1>2, OutcomesType
    <3> QED
      BY <1>3, <1>5, <3>1 DEF Busy, RegistryIInv, ControlInv
  <2>2. TypeOK' /\ DiskInv'
    BY <1>1, <2>1 DEF RegistryIInv, TypeOK, DiskInv
  <2>3. ControlInv'
    BY <1>1, <2>1 DEF RegistryIInv, ControlInv
  <2>4. \A c : Older(c) => Older(c)'
    BY <1>1, <2>1 DEF Older
  <2>5. RetiredInv'
    BY <1>1, <2>4, RetiredKept DEF RegistryIInv
  <2>6. SilentInv'
    BY <1>1, <2>1, SilentKept, ReloadAssumption DEF RegistryIInv, TypeOK
  <2> QED
    BY <2>2, <2>3, <2>5, <2>6 DEF RegistryIInv
<1> QED
  BY <1>4, <1>5

LEMMA ReplaceThrowsKeeps ==
    ASSUME RegistryIInv, ReplaceThrows
    PROVE  RegistryIInv'
  BY AbandonKeeps DEF ReplaceThrows, Abandon, Busy

\* Between two steps of the loop in which the names are replaced: head of the
\* list or nothing, a tool, and what is left.
LEMMA ListTypes ==
    ASSUME srest \in Names, srest # <<>>
    PROVE  /\ Head(srest) \in Tool \cup {NoName} /\ Tail(srest) \in Names
           /\ Len(srest) \in Nat /\ Len(Tail(srest)) \in Nat
           /\ Len(Tail(srest)) < Len(srest)
  BY DEF Names

\* The command taken out is shut down, and with it all those retired before.
LEMMA ShutdownOldKeeps ==
    ASSUME RegistryIInv, ShutdownOld
    PROVE  RegistryIInv'
<1> USE DEF disk, conf, main, native, scripts
<1>1. /\ UNCHANGED <<disk, m_Commands, main, native, stodo, sdir, mtimeMap, retired, silent, threw>>
      /\ spc = "shutdown" /\ Busy /\ Busy'
      /\ \/ spc' = "replace" /\ srest' = Tail(srest)
         \/ spc' = "hung" /\ UNCHANGED srest
      /\ shutDown' = shutDown \cup {r \in retired : r[1] = Head(srest)}
  BY DEF ShutdownOld, Busy
<1>2. srest \in Names /\ srest # <<>>
  BY <1>1 DEF RegistryIInv, ControlInv
<1>3. TypeOK' /\ DiskInv'
  BY <1>1 DEF RegistryIInv, TypeOK, DiskInv
<1>4. ControlInv'
  BY <1>1, <1>2, ListTypes DEF RegistryIInv, ControlInv
<1>5. RetiredInv'
  <2>1. ASSUME NEW c \in AnyCommand, Older(c)
        PROVE  Older(c)'
    <3>1. c.left \in Nat
      BY DEF AnyCommand
    <3>2. c.left >= Len(srest) => c.left > Len(srest') \/ spc' = "hung"
      BY <1>1, <1>2, <3>1, ListTypes
    <3> QED
      BY <1>1, <2>1, <3>2 DEF Older
  <2>2. shutDown' = retired
    BY <1>1 DEF RegistryIInv, RetiredInv
  <2>3. /\ retired \subseteq Tool \X AnyCommand
        /\ \A t \in Tool : Registered(t) => m_Commands[t] \in AnyCommand
    BY DEF RegistryIInv, RetiredInv, TypeOK, Registered
  <2>4. \A t \in Tool : Registered(t)' => Older(m_Commands[t])'
    BY <1>1, <2>1, <2>3 DEF RegistryIInv, RetiredInv, Registered
  <2>5. \A r \in retired : Older(r[2])'
    BY <2>1, <2>3 DEF RegistryIInv, RetiredInv
  <2> QED
    BY <1>1, <2>2, <2>3, <2>4, <2>5 DEF RegistryIInv, RetiredInv, Registered
<1>6. SilentInv'
  BY <1>1, SilentKept, ReloadAssumption DEF RegistryIInv, TypeOK
<1> QED
  BY <1>3, <1>4, <1>5, <1>6 DEF RegistryIInv

LEMMA ScriptNotifiesKeeps ==
    ASSUME RegistryIInv, ScriptNotifies
    PROVE  RegistryIInv'
<1> USE DEF disk, conf, main, native, scripts
<1>1. /\ UNCHANGED <<disk, m_Commands, shutDown, main, native, stodo, srest, mtimeMap, retired, threw>>
      /\ spc = "replace" /\ spc' = "scan" /\ sdir' = None /\ ~Busy' /\ Busy
      /\ silent' = {t \in silent : m_Commands[t].plugin # sdir}
  BY DEF ScriptNotifies, Busy
<1>2. sdir \in Dir
  BY <1>1 DEF RegistryIInv, ControlInv
<1>3. TypeOK' /\ DiskInv'
  BY <1>1 DEF RegistryIInv, TypeOK, DiskInv
<1>4. ControlInv'
  BY <1>1 DEF RegistryIInv, ControlInv, Busy
<1>5. RetiredInv'
  <2>1. \A d \in Dir : mtimeMap[d] <= mtimeMap'[d]
    BY <1>1 DEF RegistryIInv, DiskInv
  <2>2. \A c \in AnyCommand : Older(c) => Older(c)'
    BY <1>1, <1>3, <2>1, OlderKept DEF RegistryIInv, DiskInv
  <2> QED
    BY <1>1, <2>2, RetiredKept DEF RegistryIInv
<1>6. SilentInv'
  BY <1>1, <1>2 DEF RegistryIInv, SilentInv, Registered, InLoad, Threw
<1> QED
  BY <1>3, <1>4, <1>5, <1>6 DEF RegistryIInv

\* What is registered is newer than what was there, so no command comes back.
LEMMA ReplaceCommandKeeps ==
    ASSUME RegistryIInv, ReplaceCommand
    PROVE  RegistryIInv'
<1> USE DEF disk, conf, main, native, scripts
<1>0. PICK t, c : t = Head(srest) /\ c = Command(sdir, mtimeMap[sdir], Len(srest))
  OBVIOUS
<1>1. /\ UNCHANGED <<disk, shutDown, main, native, stodo, sdir, mtimeMap, threw>>
      /\ spc = "replace" /\ srest # <<>> /\ t # NoName /\ Busy
      /\ silent' = silent \cup {t}
      /\ m_Commands' = [m_Commands EXCEPT ![t] = c]
  BY <1>0 DEF ReplaceCommand, Busy
<1>2. /\ Registered(t) => /\ spc' = "shutdown" /\ UNCHANGED srest
                          /\ retired' = retired \cup {<<t, m_Commands[t]>>}
      /\ ~Registered(t) => UNCHANGED <<spc, retired>> /\ srest' = Tail(srest)
  BY <1>0 DEF ReplaceCommand
<1>3. /\ sdir \in Dir /\ mtimeMap[sdir] \in Nat /\ mtimeMap[sdir] > 0 /\ srest \in Names
      /\ phase \notin {"native", "scripts"}
  BY <1>1 DEF RegistryIInv, ControlInv, DiskInv
<1>4. /\ t \in Tool /\ Len(srest) \in Nat /\ Tail(srest) \in Names /\ Len(Tail(srest)) \in Nat
      /\ Len(Tail(srest)) < Len(srest)
  BY <1>0, <1>1, <1>3, ListTypes
<1>5. /\ c \in AnyCommand /\ c # None /\ c.plugin = sdir /\ c.stamp = mtimeMap[sdir]
      /\ c.left = Len(srest)
  <2>1. sdir \in {"core"} \cup Bin \cup Dir
    BY <1>3
  <2> QED
    BY <1>0, <1>3, <1>4, <2>1, CommandTypes
<1>6. /\ m_Commands'[t] = c /\ \A u \in Tool \ {t} : m_Commands'[u] = m_Commands[u]
      /\ m_Commands' \in [Tool -> {None} \cup AnyCommand]
  BY <1>1, <1>4, <1>5 DEF RegistryIInv, TypeOK
<1>7. spc' \in {"replace", "shutdown"} /\ Busy' /\ srest' \in Names
  BY <1>1, <1>2, <1>3, <1>4 DEF Busy
<1>8. TypeOK' /\ DiskInv'
  BY <1>1, <1>6, <1>7 DEF RegistryIInv, TypeOK, DiskInv
<1>9. ControlInv'
  <2>1. spc' = "shutdown" => srest' # <<>>
    BY <1>1, <1>2
  <2> QED
    BY <1>1, <1>3, <1>7, <2>1 DEF RegistryIInv, ControlInv
<1>10. /\ \A u \in Tool \ {t} : Registered(u)' <=> Registered(u)
       /\ Registered(t)'
  BY <1>4, <1>5, <1>6 DEF Registered
<1>11. SilentInv'
  <2>1. silent \subseteq Tool /\ silent' \subseteq Tool
    BY <1>1, <1>4 DEF RegistryIInv, SilentInv
  <2>2. m_Commands'[t].plugin = sdir' /\ InLoad(m_Commands[t])'
    BY <1>1, <1>5, <1>6, <1>7 DEF InLoad
  <2>3. \A u \in silent : InLoad(m_Commands[u]) => InLoad(m_Commands[u])' \/ u = t
    BY <1>1, <1>6, <1>7, <2>1 DEF InLoad
  <2>4. \A u \in silent : Threw(m_Commands[u]) => Threw(m_Commands[u])' \/ u = t
    BY <1>1, <1>6, <2>1 DEF Threw
  <2>5. \A u \in silent \ {t} : m_Commands'[u] = m_Commands[u] /\ Registered(u)'
    BY <1>6, <1>10, <2>1 DEF RegistryIInv, SilentInv
  <2> QED
    BY <1>1, <1>3, <1>10, <2>1, <2>2, <2>3, <2>4, <2>5 DEF RegistryIInv, SilentInv
<1>12. ASSUME NEW e \in AnyCommand, Older(e)
       PROVE  Older(e)' /\ e # c
  <2>1. e.left \in Nat
    BY DEF AnyCommand
  <2>2. e.plugin \in Dir => e.stamp <= mtimeMap'[e.plugin]
    BY <1>1, <1>12 DEF Older
  <2>3. e.plugin = sdir /\ e.stamp = mtimeMap[sdir] => e.left > Len(srest)
    BY <1>1, <1>3, <1>12 DEF Older
  <2>4. e # c
    BY <1>4, <1>5, <2>1, <2>3
  <2>5. e.left > Len(srest) => \/ spc' = "replace" /\ e.left > Len(srest')
                               \/ spc' = "shutdown" /\ e.left >= Len(srest')
    BY <1>1, <1>2, <1>4, <2>1
  <2> QED
    BY <1>1, <2>2, <2>3, <2>4, <2>5 DEF Older
<1>13. Older(c)'
  <2>1. \/ spc' = "replace" /\ c.left > Len(srest')
        \/ spc' = "shutdown" /\ c.left >= Len(srest')
    BY <1>1, <1>2, <1>4, <1>5
  <2> QED
    BY <1>1, <1>3, <1>5, <2>1 DEF Older
<1>14. RetiredInv'
  <2>1. /\ retired \subseteq Tool \X AnyCommand
        /\ \A u \in Tool : Registered(u) => m_Commands[u] \in AnyCommand /\ Older(m_Commands[u])
    BY DEF RegistryIInv, RetiredInv, TypeOK, Registered
  <2>2. /\ retired' \subseteq Tool \X AnyCommand /\ retired \subseteq retired'
        /\ \A r \in retired' \ retired : r = <<t, m_Commands[t]>> /\ Registered(t)
    BY <1>2, <1>4, <2>1
  <2>3. \A u \in Tool : Registered(u)' => Older(m_Commands[u])'
    BY <1>6, <1>10, <1>12, <1>13, <2>1
  <2>4. ASSUME NEW r \in retired
        PROVE  /\ Older(r[2])' /\ Registered(r[1])' /\ m_Commands'[r[1]] # r[2]
               /\ r \in shutDown'
    <3>1. r[1] \in Tool /\ r[2] \in AnyCommand
      BY <2>1
    <3>2. Older(r[2]) /\ Registered(r[1]) /\ m_Commands[r[1]] # r[2] /\ r \in shutDown
      BY <1>1 DEF RegistryIInv, RetiredInv
    <3> QED
      BY <1>1, <1>6, <1>10, <1>12, <3>1, <3>2
  <2>5. ASSUME NEW r \in retired' \ retired
        PROVE  /\ Older(r[2])' /\ Registered(r[1])' /\ m_Commands'[r[1]] # r[2]
               /\ spc' = "shutdown" /\ r[1] = Head(srest')
    <3>1. r[1] = t /\ r[2] = m_Commands[t] /\ Registered(t)
      BY <2>2
    <3>2. spc' = "shutdown" /\ Head(srest') = t
      BY <1>0, <1>2, <3>1
    <3> QED
      BY <1>4, <1>6, <1>10, <1>12, <2>1, <3>1, <3>2
  <2> QED
    BY <1>1, <2>2, <2>3, <2>4, <2>5 DEF RegistryIInv, RetiredInv
<1> QED
  BY <1>8, <1>9, <1>11, <1>14 DEF RegistryIInv

-----------------------------------------------------------------------------
(* Registration, which never touches a name that is taken                  *)

\* A new command under a free name, by a thread that is not in a reload.
LEMMA RegisteredNew ==
    ASSUME RegistryIInv, NEW T \in SUBSET Tool, NEW c \in AnyCommand,
           m_Commands' = [t \in Tool |-> IF t \in T THEN c ELSE m_Commands[t]],
           \A t \in T : ~Registered(t),
           Older(c)', \A e \in AnyCommand : Older(e) => Older(e)',
           UNCHANGED <<shutDown, retired>>,
           spc = "shutdown" => UNCHANGED <<spc, srest>>
    PROVE  /\ m_Commands' \in [Tool -> {None} \cup AnyCommand] /\ RetiredInv'
           /\ \A t \in Tool \ T : m_Commands'[t] = m_Commands[t]
           /\ \A t \in T : m_Commands'[t] = c
<1>1. /\ m_Commands' \in [Tool -> {None} \cup AnyCommand]
      /\ \A t \in Tool \ T : m_Commands'[t] = m_Commands[t]
      /\ \A t \in T : m_Commands'[t] = c
  BY DEF RegistryIInv, TypeOK
<1>2. /\ retired \subseteq Tool \X AnyCommand
      /\ \A t \in Tool : Registered(t) => m_Commands[t] \in AnyCommand /\ Older(m_Commands[t])
  BY DEF RegistryIInv, RetiredInv, TypeOK, Registered
<1>3. \A t \in Tool \ T : Registered(t)' <=> Registered(t)
  BY <1>1 DEF Registered
<1>4. \A t \in Tool : Registered(t)' => Older(m_Commands[t])'
  BY <1>1, <1>2, <1>3
<1>5. ASSUME NEW r \in retired
      PROVE  /\ Older(r[2])' /\ Registered(r[1])' /\ m_Commands'[r[1]] # r[2]
             /\ r \in shutDown' \/ (spc' = "shutdown" /\ r[1] = Head(srest'))
  <2>1. r[1] \in Tool /\ r[2] \in AnyCommand
    BY <1>2
  <2>2. /\ Older(r[2]) /\ Registered(r[1]) /\ m_Commands[r[1]] # r[2]
        /\ r \in shutDown \/ (spc = "shutdown" /\ r[1] = Head(srest))
    BY DEF RegistryIInv, RetiredInv
  <2> QED
    BY <1>1, <1>3, <2>1, <2>2
<1> QED
  BY <1>1, <1>2, <1>4, <1>5 DEF RegistryIInv, RetiredInv

LEMMA LoadOneToolKeeps ==
    ASSUME RegistryIInv, LoadOneTool
    PROVE  RegistryIInv'
<1> USE DEF disk, conf, main, native, scripts
<1>0. PICK t, c : t = Head(nrest) /\ c = Command(nbin, 0, 0)
  OBVIOUS
<1>1. /\ UNCHANGED <<disk, shutDown, main, npc, ntodo, nbin, loaded, scripts, retired, threw>>
      /\ nbin # None /\ nrest # <<>> /\ nrest' = Tail(nrest)
      /\ ~Registered(t) /\ m_Commands' = [m_Commands EXCEPT ![t] = c]
      /\ silent' = IF Runtime THEN silent \cup {t} ELSE silent
  BY <1>0 DEF LoadOneTool, RegisterCommand, CanRegister
<1>2. /\ nbin \in Bin /\ nbin \notin Dir /\ t \in Tool /\ nrest' \in Seq(Tool)
      /\ Runtime => npc = "scan" /\ phase # "scripts"
  <2>1. nbin \in Bin /\ nbin \notin Dir
    BY <1>1, ReloadAssumption DEF RegistryIInv, TypeOK
  <2>2. nrest \in Seq(Tool)
    BY DEF RegistryIInv, ControlInv
  <2>3. t \in Tool /\ nrest' \in Seq(Tool)
    BY <1>0, <1>1, <2>2
  <2> QED
    BY <1>1, <2>1, <2>3 DEF RegistryIInv, ControlInv, Runtime
<1>3. c \in AnyCommand /\ c # None /\ c.plugin = nbin /\ c.stamp = 0
  <2>1. nbin \in {"core"} \cup Bin \cup Dir
    BY <1>2
  <2> QED
    BY <1>0, <2>1, CommandTypes
<1>4. /\ m_Commands' \in [Tool -> {None} \cup AnyCommand] /\ RetiredInv'
      /\ \A u \in Tool \ {t} : m_Commands'[u] = m_Commands[u]
      /\ m_Commands'[t] = c
  <2>1. {t} \in SUBSET Tool /\ \A u \in {t} : ~Registered(u)
    BY <1>1, <1>2
  <2>2. m_Commands' = [u \in Tool |-> IF u \in {t} THEN c ELSE m_Commands[u]]
    BY <1>1, <1>2 DEF RegistryIInv, TypeOK
  <2>3. Older(c)' /\ \A e \in AnyCommand : Older(e) => Older(e)'
    BY <1>1, <1>2, <1>3 DEF Older, Busy
  <2>4. spc = "shutdown" => UNCHANGED <<spc, srest>>
    BY <1>1
  <2> HIDE DEF scripts
  <2> QED
    BY <1>1, <1>3, <2>1, <2>2, <2>3, <2>4, RegisteredNew
<1>5. TypeOK' /\ DiskInv'
  BY <1>1, <1>4 DEF RegistryIInv, TypeOK, DiskInv
<1>6. ControlInv'
  BY <1>1, <1>2 DEF RegistryIInv, ControlInv, Busy, Runtime
<1>7. SilentInv'
  <2>1. /\ silent \subseteq Tool /\ silent' \subseteq Tool
        /\ \A u \in silent' \ silent : u = t /\ Runtime
        /\ \A u \in silent : Registered(u) /\ u # t
    BY <1>1, <1>2 DEF RegistryIInv, SilentInv
  <2>2. \A u \in silent : Registered(u)' /\ m_Commands'[u] = m_Commands[u]
    BY <1>4, <2>1 DEF Registered
  <2>3. \A u \in silent' \ silent : /\ Registered(u)' /\ m_Commands'[u].plugin \in Bin
                                    /\ InLoad(m_Commands[u])'
    BY <1>1, <1>2, <1>3, <1>4, <2>1 DEF Registered, InLoad
  <2>4. \A u \in silent : InLoad(m_Commands[u])' \/ Threw(m_Commands[u])'
    BY <1>1, <2>2 DEF RegistryIInv, SilentInv, InLoad, Threw, Busy
  <2> QED
    BY <1>1, <1>2, <2>1, <2>2, <2>3, <2>4 DEF RegistryIInv, SilentInv
<1> QED
  BY <1>4, <1>5, <1>6, <1>7 DEF RegistryIInv

LEMMA LoadOneEndKeeps ==
    ASSUME RegistryIInv, LoadOneThrows \/ LoadOneNotifies
    PROVE  RegistryIInv'
<1> USE DEF disk, conf, main, native, scripts
<1>1. /\ UNCHANGED <<disk, m_Commands, shutDown, todo, found, npc, ntodo, scripts, retired>>
      /\ nbin # None /\ nbin' = None /\ nrest' = <<>>
      /\ phase' = phase \/ (phase = "native" /\ phase' = "failed")
      /\ silent' \subseteq silent
  BY DEF LoadOneThrows, LoadOneNotifies, EndLoad, Runtime
<1>2. TypeOK' /\ DiskInv'
  BY <1>1 DEF RegistryIInv, TypeOK, DiskInv
<1>3. ControlInv'
  <2>1. nrest' \in Seq(Tool)
    BY <1>1
  <2> QED
    BY <1>1, <2>1 DEF RegistryIInv, ControlInv, Busy
<1>4. RetiredInv'
  <2>1. \A e \in AnyCommand : Older(e) => Older(e)'
    BY <1>1 DEF Older, Busy
  <2> QED
    BY <1>1, <2>1, RetiredKept DEF RegistryIInv
<1>5. SilentInv'
  <2>1. silent # {} => Runtime
    BY DEF RegistryIInv, ControlInv, Runtime
  <2>2. \/ silent' = silent /\ (silent # {} => threw' = threw \cup {<<nbin, 0>>})
        \/ silent' = {t \in silent : m_Commands[t].plugin # nbin} /\ UNCHANGED threw
    BY <2>1 DEF LoadOneThrows, LoadOneNotifies
  <2>3. ASSUME NEW t \in silent'
        PROVE  InLoad(m_Commands[t])' \/ Threw(m_Commands[t])'
    <3>1. t \in silent /\ (InLoad(m_Commands[t]) \/ Threw(m_Commands[t]))
      BY <1>1 DEF RegistryIInv, SilentInv
    <3>2. CASE Threw(m_Commands[t])
      BY <1>1, <2>2, <3>1, <3>2 DEF Threw
    <3>3. CASE Busy /\ m_Commands[t].plugin = sdir /\ m_Commands[t].stamp = mtimeMap[sdir]
      BY <1>1, <3>3 DEF InLoad, Busy
    <3>4. CASE m_Commands[t].plugin = nbin /\ m_Commands[t].stamp = 0
      BY <1>1, <2>2, <3>1, <3>4 DEF Threw
    <3> QED
      BY <3>1, <3>2, <3>3, <3>4 DEF InLoad
  <2> QED
    BY <1>1, <2>3 DEF RegistryIInv, SilentInv, Registered
<1> QED
  BY <1>2, <1>3, <1>4, <1>5 DEF RegistryIInv

LEMMA RegisterScriptsKeeps ==
    ASSUME RegistryIInv, RegisterScripts
    PROVE  RegistryIInv'
<1> USE DEF disk, conf, main, native, scripts
<1>0. PICK tools, c : tools = found[sdir] /\ c = Command(sdir, mtimeMap[sdir], 0)
  OBVIOUS
<1> DEFINE prefix == {i \in DOMAIN tools :
                         \A j \in 1 .. i : /\ CanRegister(tools[j])
                                           /\ \A k \in 1 .. j - 1 : tools[k] # tools[j]}
           T == {t \in Tool : \E i \in prefix : tools[i] = t}
<1>1. /\ UNCHANGED <<disk, shutDown, main, native, spc, stodo, srest, mtimeMap, retired, silent, threw>>
      /\ phase = "scripts" /\ sdir # None /\ sdir' = None
      /\ found[sdir] \notin {<<"pending">>, <<"hung">>}
      /\ m_Commands' = [t \in Tool |-> IF \E i \in prefix : tools[i] = t THEN c ELSE m_Commands[t]]
  BY <1>0 DEF RegisterScripts
<1>2. spc = "none" /\ ~Busy /\ ~Busy' /\ silent = {}
  BY <1>1 DEF RegistryIInv, ControlInv, Busy
<1>3. sdir \in Dir /\ mtimeMap[sdir] \in Nat /\ tools \in Names
  BY <1>0, <1>1 DEF RegistryIInv, TypeOK, DiskInv, ControlInv
<1>4. c \in AnyCommand /\ c # None /\ c.plugin = sdir /\ c.stamp = mtimeMap[sdir]
  <2>1. sdir \in {"core"} \cup Bin \cup Dir
    BY <1>3
  <2> QED
    BY <1>0, <1>3, <2>1, CommandTypes
<1>5. T \in SUBSET Tool /\ \A t \in T : ~Registered(t)
  <2>1. ASSUME NEW i \in prefix
        PROVE  CanRegister(tools[i])
    <3>1. i \in 1 .. i
      BY <1>3 DEF Names
    <3> QED
      BY <3>1
  <2> QED
    BY <2>1 DEF CanRegister
<1>6. m_Commands' = [t \in Tool |-> IF t \in T THEN c ELSE m_Commands[t]]
  BY <1>1
<1> HIDE DEF prefix, T
<1>7. m_Commands' \in [Tool -> {None} \cup AnyCommand] /\ RetiredInv'
  <2>1. Older(c)'
    BY <1>1, <1>2, <1>3, <1>4 DEF Older
  <2>2. \A e \in AnyCommand : Older(e) => Older(e)'
    BY <1>1, <1>2 DEF Older
  <2> QED
    BY <1>1, <1>2, <1>4, <1>5, <1>6, <2>1, <2>2, RegisteredNew
<1>8. TypeOK' /\ DiskInv'
  BY <1>1, <1>7 DEF RegistryIInv, TypeOK, DiskInv
<1>9. ControlInv'
  BY <1>1, <1>2 DEF RegistryIInv, ControlInv
<1>10. SilentInv'
  BY <1>1, <1>2 DEF SilentInv
<1> QED
  BY <1>7, <1>8, <1>9, <1>10 DEF RegistryIInv

-----------------------------------------------------------------------------
(* The invariant                                                           *)

LEMMA RegistryInit ==
    ASSUME Init
    PROVE  RegistryIInv
<1>1. /\ spc = "none" /\ npc = "none" /\ sdir = None /\ nbin = None /\ phase = "native"
      /\ retired = {} /\ silent = {} /\ shutDown = {} /\ ~Busy
  BY DEF Init, Busy
<1>2. Command("core", 0, 0) \in AnyCommand /\ Command("core", 0, 0).plugin = "core"
  BY CommandTypes
<1>3. m_Commands \in [Tool -> {None} \cup AnyCommand]
  BY <1>2 DEF Init
<1>4. TypeOK
  <2>1. \A d \in Dir : mtimeMap[d] \in 0 .. MaxStamp[d]
    BY ReloadAssumption DEF Init
  <2>2. ntodo = {} /\ stodo = {}
    BY DEF Init
  <2> QED
    BY <1>1, <1>3, <2>1, <2>2 DEF TypeOK
<1>5. DiskInv
  <2>1. PICK D \in Deployed :
           /\ manifest = [d \in Dir |-> IF d \in D.plugins THEN [state |-> "good", stamp |-> 1]
                                       ELSE [state |-> "absent", stamp |-> 0]]
           /\ script = [d \in Dir |-> IF d \in D.plugins THEN 1 ELSE 0]
    BY DEF Init
  <2>2. /\ manifest \in [Dir -> [state : {"absent", "partial", "good"}, stamp : Nat]]
        /\ script \in [Dir -> Nat]
        /\ \A d \in Dir : /\ manifest[d].stamp \in {0, 1} /\ script[d] \in {0, 1}
                          /\ manifest[d].state # "absent" => manifest[d].stamp > 0
    BY <2>1
  <2>3. mtimeMap \in [Dir -> Nat] /\ \A d \in Dir : mtimeMap[d] = 0
    BY DEF Init
  <2>4. \A d \in Dir : MaxStamp[d] \in Nat \ {0} /\ MaxVersion[d] \in Nat \ {0}
    BY ReloadAssumption
  <2>5. \A d \in Dir : manifest[d].stamp <= MaxStamp[d] /\ script[d] <= MaxVersion[d]
    BY <2>2, <2>4
  <2> QED
    BY <2>2, <2>3, <2>5 DEF DiskInv
<1>6. ControlInv
  <2>1. nrest \in Seq(Tool) /\ srest \in Names
    BY DEF Init, Names
  <2>2. /\ found \in [Dir -> Names \cup {<<"pending">>, <<"hung">>}]
        /\ \A d \in Dir : found[d] # <<"pending">>
    <3>1. <<>> \in Names /\ <<>> # <<"pending">>
      BY DEF Names
    <3> QED
      BY <3>1 DEF Init
  <2> QED
    BY <1>1, <2>1, <2>2 DEF ControlInv
<1>7. RetiredInv
  <2>1. \A t \in Tool : Registered(t) => m_Commands[t].plugin = "core" /\ m_Commands[t].stamp = 0
    BY <1>2, CommandTypes DEF Init, Registered
  <2>2. \A d \in Dir : 0 <= mtimeMap[d]
    BY DEF Init
  <2> QED
    BY <1>1, <2>1, <2>2 DEF RetiredInv, Older
<1>8. SilentInv
  BY <1>1 DEF SilentInv
<1> QED
  BY <1>4, <1>5, <1>6, <1>7, <1>8 DEF RegistryIInv

LEMMA RegistryStep ==
    ASSUME RegistryIInv, [Next]_vars
    PROVE  RegistryIInv'
<1>1. CASE Deploy
  BY <1>1, DeployKeeps
<1>2. CASE Startup
  BY <1>2, StartupThreadKeeps, CollectScriptsKeeps, RegisterScriptsKeeps DEF Startup
<1>3. CASE \E d \in Dir : DiscoverScripts(d)
  BY <1>3, DiscoverScriptsKeeps
<1>4. CASE LoadOneStep
  BY <1>4, LoadOneToolKeeps, LoadOneEndKeeps DEF LoadOneStep
<1>5. CASE NativeWatcher
  BY <1>5, NativeStartKeeps, NativeThreadKeeps DEF NativeWatcher
<1>6. CASE ScriptWatcher
  BY <1>6, ScriptStartKeeps, ScriptRestKeeps, ScriptVisitKeeps, ScriptReadKeeps,
     ScriptDiscoverKeeps, ReplaceCommandKeeps, ShutdownOldKeeps, ReplaceThrowsKeeps,
     ScriptNotifiesKeeps DEF ScriptWatcher
<1>7. CASE StopScriptWatcher \/ StopNativeWatcher \/ ExitServer
  BY <1>7, StopsKeep
<1>8. CASE UNCHANGED vars
  <2> USE <1>8 DEF vars, disk, conf, main, native, scripts
  <2>1. TypeOK' /\ DiskInv'
    BY DEF RegistryIInv, TypeOK, DiskInv
  <2>2. ControlInv'
    BY DEF RegistryIInv, ControlInv, Busy
  <2> QED
    BY <2>1, <2>2, ThreadStep
<1> QED
  BY <1>1, <1>2, <1>3, <1>4, <1>5, <1>6, <1>7, <1>8 DEF Next

LEMMA RegistryAlways == Spec => []RegistryIInv
<1>1. Init => RegistryIInv
  BY RegistryInit
<1>2. RegistryIInv /\ [Next]_vars => RegistryIInv'
  BY RegistryStep
<1> QED
  BY <1>1, <1>2, PTL DEF Spec

\* For any plugins and any saves of them while the server runs: Shutdown is
\* called for exactly the commands that a reload took out of the registry, none
\* of which can be resolved again, and what a watcher has put there is announced
\* unless the registration threw half way (CommandRegistry::ReplaceCommand and
\* the watcher loops of both loaders).
THEOREM RetiredAndAnnounced == Spec => []RegistryInv
<1>1. RegistryIInv => RegistryInv
  <2> SUFFICES ASSUME RegistryIInv
               PROVE  RegistryInv
    OBVIOUS
  <2>1. RetiredAreShutDown
    <3>1. \A t \in Tool : <<t, m_Commands[t]>> \notin retired
      BY DEF RegistryIInv, RetiredInv
    <3> QED
      BY <3>1 DEF RetiredAreShutDown, RegistryIInv, RetiredInv
  <2>2. AnnouncedUnlessThrown
    BY ReloadAssumption DEF AnnouncedUnlessThrown, RegistryIInv, SilentInv, InLoad, ControlInv, Busy
  <2> QED
    BY <2>1, <2>2 DEF RegistryInv, RegistryIInv
<1> QED
  BY <1>1, RegistryAlways, PTL

\* A taken name changes hands only in a reload.
LEMMA TakenStep ==
    ASSUME RegistryIInv, [Next]_vars, NEW t \in Tool, Registered(t),
           m_Commands'[t] # m_Commands[t]
    PROVE  spc = "replace" /\ m_Commands'[t] = Command(sdir, mtimeMap[sdir], Len(srest))
<1> USE DEF disk, conf, main, native, scripts
<1>1. m_Commands \in [Tool -> {None} \cup AnyCommand]
  BY DEF RegistryIInv, TypeOK
<1>2. CASE ReplaceCommand
  <2>1. /\ spc = "replace"
        /\ m_Commands' = [m_Commands EXCEPT ![Head(srest)] =
                              Command(sdir, mtimeMap[sdir], Len(srest))]
    BY <1>2 DEF ReplaceCommand
  <2> QED
    BY <1>1, <2>1
<1>3. CASE LoadOneTool
  BY <1>1, <1>3 DEF LoadOneTool, RegisterCommand, CanRegister
<1>4. CASE RegisterScripts
  <2>1. PICK tools : tools = found[sdir]
    OBVIOUS
  <2> DEFINE prefix == {i \in DOMAIN tools :
                           \A j \in 1 .. i : /\ CanRegister(tools[j])
                                             /\ \A k \in 1 .. j - 1 : tools[k] # tools[j]}
  <2>2. /\ tools \in Names
        /\ m_Commands' = [u \in Tool |-> IF \E i \in prefix : tools[i] = u
                                         THEN Command(sdir, mtimeMap[sdir], 0)
                                         ELSE m_Commands[u]]
    BY <1>4, <2>1 DEF RegisterScripts, RegistryIInv, ControlInv, TypeOK
  <2>3. PICK i \in prefix : tools[i] = t
    BY <2>2
  <2>4. i \in 1 .. i
    BY <2>2 DEF Names
  <2>5. CanRegister(tools[i])
    BY <2>4
  <2> QED
    BY <2>3, <2>5 DEF CanRegister
<1>5. CASE ~ReplaceCommand /\ ~LoadOneTool /\ ~RegisterScripts
  <2>1. UNCHANGED m_Commands
    BY <1>5 DEF Next, vars, Deploy, Startup, LoadAllNative, CollectScripts, AwaitScript,
       StartWatchers, DiscoverScripts, LoadOneStep, LoadOneThrows, LoadOneNotifies, NativeWatcher,
       NativeStart, NativeWake, NativeVisit, NativeScanned, ScriptWatcher, ScriptStart, ScriptWake,
       ScriptVisit, ScriptRead, ScriptDiscover, ShutdownOld, ReplaceThrows, ScriptNotifies,
       ScriptScanned, StopScriptWatcher, StopNativeWatcher, ExitServer
  <2> QED
    BY <2>1
<1> QED
  BY <1>2, <1>3, <1>4, <1>5

\* For any plugins: no step but ReplaceCommand in the script watcher's reload
\* changes what a taken name stands for, and none makes a name free again.
THEOREM NamesTakenOnlyByReload == Spec => TakenOnlyByReload
<1>1. RegistryIInv /\ [Next]_vars =>
          [\A t \in Tool :
              Registered(t) /\ m_Commands'[t] # m_Commands[t] =>
                 spc = "replace" /\ m_Commands'[t] = Command(sdir, mtimeMap[sdir], Len(srest))]_vars
  BY TakenStep
<1> QED
  BY <1>1, RegistryAlways, PTL DEF Spec, TakenOnlyByReload

-----------------------------------------------------------------------------
(* What becomes of a reload                                                *)

\* A reload that has tools left to register, or none but has registered one.
ReloadInv ==
    spc \in {"replace", "shutdown"} =>
        ServesNoted(sdir) \/ (spc = "replace" /\ srest # <<>>)

\* The steps that begin a reload, take it further or end it; all others leave it.
LEMMA ReloadSteps ==
    ASSUME RegistryIInv, [Next]_vars, ~ReplaceCommand, ~ScriptDiscover, ~ShutdownOld
    PROVE  \/ UNCHANGED <<spc, sdir, srest, mtimeMap>>
           \/ spc' \notin {"replace", "shutdown"}
<1> USE DEF disk, conf, main, native, scripts
<1>1. CASE ScriptWatcher
  BY <1>1 DEF ScriptWatcher, ScriptStart, ScriptWake, ScriptVisit, ScriptRead, Abandon,
     ReplaceThrows, ScriptNotifies, ScriptScanned
<1>2. CASE Startup
  BY <1>2 DEF Startup, LoadAllNative, CollectScripts, AwaitScript, RegisterScripts,
     StartWatchers, RegistryIInv, ControlInv
<1>3. CASE ~ScriptWatcher /\ ~Startup
  BY <1>3 DEF Next, vars, Deploy, DiscoverScripts, LoadOneStep, LoadOneTool, LoadOneThrows,
     LoadOneNotifies, NativeWatcher, NativeStart, NativeWake, NativeVisit, NativeScanned,
     StopScriptWatcher, StopNativeWatcher, ExitServer
<1> QED
  BY <1>1, <1>2, <1>3

\* What ReplaceCommand registers is a command of the plugin and the noted time.
LEMMA ReloadCommand ==
    ASSUME RegistryIInv, Busy
    PROVE  /\ Command(sdir, mtimeMap[sdir], Len(srest)) # None
           /\ Command(sdir, mtimeMap[sdir], Len(srest)).plugin = sdir
           /\ Command(sdir, mtimeMap[sdir], Len(srest)).stamp = mtimeMap[sdir]
<1>1. sdir \in {"core"} \cup Bin \cup Dir /\ mtimeMap[sdir] \in Nat /\ Len(srest) \in Nat
  BY DEF RegistryIInv, ControlInv, DiskInv, Names
<1> QED
  BY <1>1, CommandTypes

\* What a plugin has in the registry as of the noted time stays until a later
\* time is noted, unless a reload, its own one while it lasts, takes the name.
LEMMA ServedKept ==
    ASSUME RegistryIInv, [Next]_vars, spc \in {"replace", "shutdown"},
           UNCHANGED mtimeMap, ServesNoted(sdir)
    PROVE  ServesNoted(sdir)' \/ sdir' # sdir
<1> SUFFICES ASSUME UNCHANGED sdir PROVE ServesNoted(sdir)'
  OBVIOUS
<1>1. PICK t \in Tool : /\ Registered(t) /\ m_Commands[t].plugin = sdir
                        /\ m_Commands[t].stamp = mtimeMap[sdir]
  BY DEF ServesNoted
<1>2. CASE m_Commands'[t] = m_Commands[t]
  BY <1>1, <1>2 DEF ServesNoted, Registered
<1>3. CASE m_Commands'[t] # m_Commands[t]
  <2>1. m_Commands'[t] = Command(sdir, mtimeMap[sdir], Len(srest))
    BY <1>1, <1>3, TakenStep
  <2>2. /\ m_Commands'[t] # None /\ m_Commands'[t].plugin = sdir
        /\ m_Commands'[t].stamp = mtimeMap[sdir]
    BY <2>1, ReloadCommand DEF Busy
  <2> QED
    BY <2>2 DEF ServesNoted, Registered
<1> QED
  BY <1>2, <1>3

LEMMA ReloadStep ==
    ASSUME RegistryIInv, ReloadInv, [Next]_vars
    PROVE  ReloadInv'
<1> USE DEF scripts
<1>1. CASE ReplaceCommand
  <2>1. spc = "replace" /\ srest # <<>> /\ Head(srest) # NoName /\ UNCHANGED <<sdir, mtimeMap>>
    BY <1>1 DEF ReplaceCommand
  <2>2. /\ sdir \in Dir /\ mtimeMap[sdir] \in Nat /\ srest \in Names
        /\ m_Commands \in [Tool -> {None} \cup AnyCommand]
    BY <2>1 DEF RegistryIInv, ControlInv, DiskInv, Busy, TypeOK
  <2>3. Head(srest) \in Tool /\ Len(srest) \in Nat
    BY <2>1, <2>2 DEF Names
  <2>4. m_Commands'[Head(srest)] = Command(sdir, mtimeMap[sdir], Len(srest))
    BY <1>1, <2>2, <2>3 DEF ReplaceCommand
  <2>5. /\ m_Commands'[Head(srest)] # None /\ m_Commands'[Head(srest)].plugin = sdir
        /\ m_Commands'[Head(srest)].stamp = mtimeMap[sdir]
    BY <2>1, <2>4, ReloadCommand DEF Busy
  <2>6. ServesNoted(sdir)'
    BY <2>1, <2>3, <2>5 DEF ServesNoted, Registered
  <2> QED
    BY <2>6 DEF ReloadInv
<1>2. CASE ScriptDiscover
  BY <1>2 DEF ScriptDiscover, Abandon, ReloadInv
<1>3. CASE ShutdownOld
  <2>1. spc = "shutdown" /\ ServesNoted(sdir) /\ UNCHANGED <<sdir, mtimeMap>>
    BY <1>3 DEF ShutdownOld, ReloadInv
  <2> QED
    BY <2>1, ServedKept DEF ReloadInv
<1>4. CASE ~ReplaceCommand /\ ~ScriptDiscover /\ ~ShutdownOld
  <2>1. CASE UNCHANGED <<spc, sdir, srest, mtimeMap>>
    BY <2>1, ServedKept DEF ReloadInv
  <2>2. CASE spc' \notin {"replace", "shutdown"}
    BY <2>2 DEF ReloadInv
  <2> QED
    BY <1>4, <2>1, <2>2, ReloadSteps
<1> QED
  BY <1>1, <1>2, <1>3, <1>4

\* For any plugins, lists of tools and saves: the script watcher notes a new time
\* only to reload the plugin at once, and a reload ends only with a tool of that
\* time in the registry or with the plugin given up.  It is what
\* SavedPluginServed rests on (ScriptPluginLoader::StartWatcher).
THEOREM ReloadsServeOrGiveUp == Spec => NotedIsReloaded
<1> DEFINE Noted(d) ==
        spc \notin {"none", "start"} /\ mtimeMap'[d] # mtimeMap[d] =>
            spc' = "read" /\ sdir' = d
<1> DEFINE Ended(d) ==
        spc # "none" /\ sdir = d /\ sdir' # d =>
            ServesNoted(d)' \/ gaveUp' = <<d, mtimeMap[d]>>
<1>1. ASSUME RegistryIInv, [Next]_vars, NEW d \in Dir PROVE Noted(d)
  <2> USE DEF disk, conf, main, native, scripts
  <2>1. CASE ScriptVisit(d)
    BY <2>1 DEF ScriptVisit
  <2>2. ASSUME NEW e \in Dir, ScriptVisit(e), e # d PROVE Noted(d)
    <3>1. mtimeMap' = [mtimeMap EXCEPT ![e] = manifest[e].stamp]
      BY <2>2 DEF ScriptVisit
    <3>2. mtimeMap \in [Dir -> Nat]
      BY <1>1 DEF RegistryIInv, DiskInv
    <3>3. mtimeMap'[d] = mtimeMap[d]
      BY <2>2, <3>1, <3>2
    <3> QED
      BY <3>3
  <2>3. CASE CollectScripts \/ ScriptStart
    BY <1>1, <2>3 DEF CollectScripts, ScriptStart, RegistryIInv, ControlInv
  <2>4. CASE ~CollectScripts /\ ~ScriptStart /\ \A e \in Dir : ~ScriptVisit(e)
    <3>1. UNCHANGED mtimeMap
      BY <1>1, <2>4 DEF Next, vars, Deploy, Startup, LoadAllNative, AwaitScript, RegisterScripts,
         StartWatchers, DiscoverScripts, LoadOneStep, LoadOneTool, LoadOneThrows, LoadOneNotifies,
         NativeWatcher, NativeStart, NativeWake, NativeVisit, NativeScanned, ScriptWatcher,
         ScriptWake, ScriptRead, ScriptDiscover, ReplaceCommand, ShutdownOld, ReplaceThrows,
         ScriptNotifies, ScriptScanned, StopScriptWatcher, StopNativeWatcher, ExitServer
    <3> QED
      BY <3>1
  <2> QED
    BY <2>1, <2>2, <2>3, <2>4
<1>2. ASSUME RegistryIInv, ReloadInv, [Next]_vars, NEW d \in Dir PROVE Ended(d)
  <2> USE DEF disk, conf, main, native, scripts
  <2> SUFFICES ASSUME spc # "none", sdir = d, sdir' # d
               PROVE  ServesNoted(d)' \/ gaveUp' = <<d, mtimeMap[d]>>
    OBVIOUS
  <2>1. phase \notin {"native", "scripts"} /\ Busy /\ d # None
    BY <1>2, ReloadAssumption DEF RegistryIInv, ControlInv
  <2>2. \/ Abandon /\ UNCHANGED mtimeMap
        \/ ScriptNotifies
    BY <1>2, <2>1 DEF Next, vars, Deploy, Startup, LoadAllNative, CollectScripts, AwaitScript,
       RegisterScripts, StartWatchers, DiscoverScripts, LoadOneStep, LoadOneTool, LoadOneThrows,
       LoadOneNotifies, NativeWatcher, NativeStart, NativeWake, NativeVisit, NativeScanned,
       ScriptWatcher, ScriptStart, ScriptWake, ScriptVisit, ScriptRead, ScriptDiscover,
       ReplaceCommand, ShutdownOld, ReplaceThrows, ScriptScanned, StopScriptWatcher,
       StopNativeWatcher, ExitServer, Busy
  <2>3. CASE Abandon /\ UNCHANGED mtimeMap
    BY <1>2, <2>3 DEF Abandon, RegistryIInv, ControlInv
  <2>4. CASE ScriptNotifies
    <3>1. ServesNoted(d) /\ UNCHANGED <<m_Commands, mtimeMap>>
      BY <1>2, <2>4 DEF ScriptNotifies, ReloadInv
    <3> QED
      BY <3>1 DEF ServesNoted, Registered
  <2> QED
    BY <2>2, <2>3, <2>4
<1>3. RegistryIInv /\ ReloadInv /\ [Next]_vars =>
          [\A d \in Dir :
              /\ spc \notin {"none", "start"} /\ mtimeMap'[d] # mtimeMap[d] =>
                    spc' = "read" /\ sdir' = d
              /\ spc # "none" /\ sdir = d /\ sdir' # d =>
                    ServesNoted(d)' \/ gaveUp' = <<d, mtimeMap[d]>>]_vars
  BY <1>1, <1>2
<1>4. Init => ReloadInv
  BY DEF Init, ReloadInv
<1>5. RegistryIInv /\ ReloadInv /\ [Next]_vars => ReloadInv'
  BY ReloadStep
<1> QED
  BY <1>3, <1>4, <1>5, RegistryAlways, PTL DEF Spec, NotedIsReloaded

\* LawfulReload: both, for any plugins and saves.
THEOREM ReloadsAreLawful == Spec => LawfulReload
  BY NamesTakenOnlyByReload, ReloadsServeOrGiveUp DEF LawfulReload

=============================================================================
