---------------------------- MODULE MCPingCommand ----------------------------
(***************************************************************************)
(* Model checking instances of PingCommand.                                *)
(***************************************************************************)
EXTENDS PingCommand, TLC

\* Commands are interchangeable (not used with the liveness property).
Symmetry == Permutations(Commands)
=============================================================================
