------------------------------- MODULE MCChat -------------------------------
(***************************************************************************)
(* ChatPipeline on small instances.  Requests and slot values are          *)
(* interchangeable: tasks and tokens are named after requests, and nothing *)
(* orders either set.                                                      *)
(***************************************************************************)
EXTENDS ChatPipeline, TLC

RequestSymmetry == Permutations(Requests)
Symmetry == RequestSymmetry \cup Permutations(BookingSlots) \cup Permutations(OtherSlots)
=============================================================================
