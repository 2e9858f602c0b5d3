---------------------------- MODULE MCEnrollment ----------------------------
(***************************************************************************)
(* Model checking instances of Enrollment.                                 *)
(***************************************************************************)
EXTENDS Enrollment, TLC

\* Rows of the tables and concurrent requests are interchangeable.
Symmetry ==
    UNION {Permutations(S) : S \in {DeviceIds, Requests, Reviews, Polls}}
=============================================================================
