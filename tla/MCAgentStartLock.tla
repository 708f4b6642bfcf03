--------------------------- MODULE MCAgentStartLock ---------------------------
(* Five calls for the start lock of one agent. *)
EXTENDS AgentStartLock
===============================================================================
