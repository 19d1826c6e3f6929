---------------------------- MODULE MCThreadPool ----------------------------
(* The thread pool with a few tasks and workers. *)
EXTENDS ThreadPool
=============================================================================
