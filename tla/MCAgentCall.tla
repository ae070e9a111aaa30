----------------------------- MODULE MCAgentCall -----------------------------
(* Small instances of AgentCall. *)
EXTENDS AgentCall
=============================================================================
