--------------------------- MODULE MCRegistration ---------------------------
(***************************************************************************)
(* Model checking instances of Registration: the sets of identities and of *)
(* interchangeable values.                                                 *)
(***************************************************************************)
EXTENDS Registration, TLC

\* Rows of the tables and concurrent requests are interchangeable.
Symmetry == Permutations(DeviceIds) \cup Permutations(Workers)
                \cup Permutations(Tokens)
=============================================================================
