-------------------------- MODULE MCHarnessProcess --------------------------
(***************************************************************************)
(* Instances of HarnessProcess for TLC.                                    *)
(***************************************************************************)
EXTENDS HarnessProcess, TLC

Symmetric == Permutations(Cancellers)
=============================================================================
