-------------------------- MODULE MCStdioMCPAdapter --------------------------
(* Three calls, one too large for the pipe, and three children: the retries *)
(* run out, and a call finds the remains of an earlier one's exchange.      *)
EXTENDS StdioMCPAdapter
=============================================================================
