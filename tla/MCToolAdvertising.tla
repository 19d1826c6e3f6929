------------------------- MODULE MCToolAdvertising -------------------------
(* Every kind of start-up setting, two threads calling activate and          *)
(* deactivate.                                                               *)
EXTENDS ToolAdvertising

Plugins == {[kind |-> "native", packs |-> {"cpp"}, tools |-> {"native_tool"}],
            [kind |-> "script", packs |-> {"jira"}, tools |-> {"jira_issue"}],
            [kind |-> "skill", packs |-> {}, tools |-> {"json_skill"}]}

\* Known, detected and unknown profiles; packs with tools, without tools and
\* unknown; pins the profile has, has not, cannot have, and no name at all.
Configs ==
    [profile  : {"", "core", "all", "nonsense"},
     markers  : {{}, {"cpp"}, {"cpp", "csharp"}},
     enable   : {{}, {"skills", "llm"}, {"jira"}, {"no_pack"}},
     disable  : {{}, {"skills"}},
     pinTools : {{}, {"read", "git"}, {"echo", "skill"}, {"jira_issue"}, {""}}]

\* The default settings and profile all.
PlainConfigs ==
    [profile : {"", "all"}, markers : {{"cpp"}}, enable : {{}}, disable : {{}},
     pinTools : {{}}]

Packs == {"skills", "git", "read", "core", ""}
ToolNames == {"skill", "git", "read", "llm"}
=============================================================================
