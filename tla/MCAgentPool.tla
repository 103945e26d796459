----------------------------- MODULE MCAgentPool -----------------------------
(* Instance of AgentPool for TLC. *)
EXTENDS AgentPool
=============================================================================
