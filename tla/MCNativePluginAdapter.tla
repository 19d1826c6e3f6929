----------------------- MODULE MCNativePluginAdapter -----------------------
(* Three threads and room for two: the tool is full, and the breaker opens   *)
(* with calls still inside. *)
EXTENDS NativePluginAdapter
=============================================================================
