---------------------------- MODULE MCHttpServer ----------------------------
(* One client and two handler threads, with every kind of request.  A        *)
(* minute of three seconds of two ticks makes a refill round down.           *)
EXTENDS HttpServer

CONSTANTS alice, key, a1, a2

Plain(body, arg) ==
    [client |-> alice, route |-> "POST", size |-> 1, depth |-> 1,
     header |-> [scheme |-> "Bearer", key |-> key], body |-> body, args |-> arg]

MCRequest ==
    {Plain(body, a1) : body \in {"garbage", "invalid", "unknown", "oddId", "tool"}}
    \cup {Plain("tool", a2),
          [Plain("tool", a1) EXCEPT !.size = 2],
          [Plain("tool", a1) EXCEPT !.depth = 2],
          [Plain("tool", a1) EXCEPT !.header.key = EmptyKey],
          [Plain("garbage", a1) EXCEPT !.route = "GET", !.header.key = EmptyKey]}
=============================================================================
