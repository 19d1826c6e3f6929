------------------------- MODULE MCResourceWatcher -------------------------
(* Two files, each modified at most twice. *)
EXTENDS ResourceWatcher
=============================================================================
