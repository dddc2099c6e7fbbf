------------------------------ MODULE MCPolicy ------------------------------
(***************************************************************************)
(* Policy on small instances; calls and updates are interchangeable.       *)
(***************************************************************************)
EXTENDS Policy, TLC

Symmetry == Permutations(ToolCalls) \cup Permutations(Updates)
=============================================================================
