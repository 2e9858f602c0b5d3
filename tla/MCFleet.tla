------------------------------- MODULE MCFleet -------------------------------
(***************************************************************************)
(* Model checking instances of Fleet.                                      *)
(***************************************************************************)
EXTENDS Fleet, TLC

\* Rows of the tables are interchangeable.
Symmetry == Permutations(DeviceIds)
=============================================================================
