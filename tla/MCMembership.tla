---------------------------- MODULE MCMembership ----------------------------
(***************************************************************************)
(* Model checking instances of Membership.                                 *)
(***************************************************************************)
EXTENDS Membership, TLC

\* Accounts and concurrent requests are interchangeable.
Symmetry == Permutations(Users) \cup Permutations(Sessions)
=============================================================================
