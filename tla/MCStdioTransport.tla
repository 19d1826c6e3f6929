-------------------------- MODULE MCStdioTransport --------------------------
(* The stdio transport with two pool threads and a client that may send the *)
(* lines of one session in any order, each at most once.                    *)
EXTENDS StdioTransport

CONSTANTS a, b, c, k1, k2, null

Line(n, method, hasId, key, tool, target, params) ==
    [n |-> n, method |-> method, hasId |-> hasId, key |-> key, tool |-> tool,
     target |-> target, params |-> params]

Initialize == Line(1, "initialize", TRUE, null, NoTool, NoKey, "good")
CallA      == Line(2, "tools/call", TRUE, k1, a, NoKey, "good")
CallB      == Line(3, "tools/call", TRUE, k2, b, NoKey, "good")
CancelA    == Line(4, "notifications/cancelled", FALSE, null, NoTool, k1, "good")
NotifyCall == Line(5, "tools/call", FALSE, null, a, NoKey, "good")
Batch      == Line(6, "tools/call_batch", TRUE, null, a, NoKey, "good")
Garbage    == Line(7, "garbage", FALSE, null, NoTool, NoKey, "good")
BadCall    == Line(8, "tools/call", TRUE, k2, a, NoKey, "badArguments")
CallBAgain == Line(9, "tools/call", TRUE, k2, a, NoKey, "good")
CancelB    == Line(10, "notifications/cancelled", FALSE, null, NoTool, k2, "good")
ListTools  == Line(11, "tools/list", TRUE, null, NoTool, NoKey, "good")
NoSuchTool == Line(12, "tools/call", TRUE, k1, c, NoKey, "good")

NotString  == Line(13, "notString", TRUE, null, NoTool, NoKey, "good")
NotifyBad  == Line(14, "tools/call", FALSE, null, a, NoKey, "badArguments")
ListFiles  == Line(16, "resources/list", FALSE, null, NoTool, NoKey, "good")
HeldBatch  == Line(15, "tools/call_batch", TRUE, null, b, NoKey, "badArguments")

Lines == {Initialize, CallA, CallB, CancelA, NotifyCall, Batch, Garbage, BadCall,
          CallBAgain, CancelB, ListTools, NoSuchTool,
          NotString, NotifyBad, HeldBatch, ListFiles}

\* A cancelled call beside another one; three calls for two workers; CallB and
\* CallBAgain under one id, as 1 and "1" are; a call the reader executes and
\* calls that are refused; lines the reader answers while the pool works; lines
\* that make the reader throw; a batch whose tool may not return.
ClientSessions ==
    {{Initialize, CallA, CallB, CancelA},
     {Initialize, CallA, CallB, CallBAgain},
     {Initialize, CallB, CallBAgain, CancelB},
     {Initialize, CallA, NotifyCall, CancelA, Garbage},
     {Initialize, CallA, Batch, ListTools, CancelA},
     {Initialize, BadCall, CallA, NoSuchTool},
     {Initialize, CallA, NotString, ListFiles},
     {Initialize, CallA, NotifyBad},
     {Initialize, CallA, HeldBatch}}

Keys == {k1, k2, null}
Tools == {a, b, c}
RegisteredTools == {a, b}

=============================================================================
