---------------------------- MODULE MCInstaller ----------------------------
(***************************************************************************)
(* Model checking instances of Installer.                                  *)
(***************************************************************************)
EXTENDS Installer, TLC

\* Process ids are interchangeable.
Symmetry == Permutations(Processes)
=============================================================================
