------------------------------ MODULE MCWrite ------------------------------
(***************************************************************************)
(* SessionWrite on small instances; requests are interchangeable.          *)
(***************************************************************************)
EXTENDS SessionWrite, TLC

Symmetry == Permutations(Requests)
=============================================================================
