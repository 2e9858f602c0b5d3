----------------------------- MODULE MCPresence -----------------------------
(***************************************************************************)
(* Model checking instances of Presence.                                   *)
(***************************************************************************)
EXTENDS Presence
=============================================================================
