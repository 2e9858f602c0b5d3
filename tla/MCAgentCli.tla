----------------------------- MODULE MCAgentCli -----------------------------
(***************************************************************************)
(* Model checking instances of AgentCli.                                   *)
(***************************************************************************)
EXTENDS AgentCli
=============================================================================
