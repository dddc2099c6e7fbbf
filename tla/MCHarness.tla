------------------------------ MODULE MCHarness ------------------------------
(***************************************************************************)
(* Harness on small instances; calls are interchangeable.                  *)
(***************************************************************************)
EXTENDS Harness, TLC

Symmetry == Permutations(Calls)
=============================================================================
