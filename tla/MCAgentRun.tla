----------------------------- MODULE MCAgentRun -----------------------------
(* Caps of two and four, small enough that both are reached within the turns *)
(* and within one batch.                                                     *)
EXTENDS AgentRun
=============================================================================
