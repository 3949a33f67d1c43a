-------------------------- MODULE MCAgentExecution --------------------------
(***************************************************************************)
(* Instances of AgentExecution for TLC: two or three successive claims of  *)
(* one job, with or without the workflow engine's sweep.                   *)
(***************************************************************************)
EXTENDS AgentExecution

CONSTANTS e1, e2, e3, s1
=============================================================================
