------------------------------ MODULE MCStores ------------------------------
(***************************************************************************)
(* The session write and the client of the booking server on small         *)
(* instances: what several coroutines do to one key and to one server.     *)
(* They share no state and no step, so each behaviour moves one of them,   *)
(* which `part` picks: what holds of a component alone holds of it beside  *)
(* the other.  Requests are interchangeable.                               *)
(***************************************************************************)
EXTENDS SessionWrite, Upstream, TLC

VARIABLE part

\* A session write that does not move is there in one form only.
StoresInit ==
  /\ part \in {"write", "upstream"}
  /\ Init /\ UpstreamInit
  /\ part # "write" => session.active.turns = 0 /\ op = [r \in Requests |-> "append"]

StoresNext ==
  /\ UNCHANGED part
  /\ \/ part = "write" /\ Next /\ UNCHANGED upstreamVars
     \/ part = "upstream" /\ UpstreamNext /\ UNCHANGED vars

StoresSpec == StoresInit /\ [][StoresNext]_<<part, vars, upstreamVars>>

Symmetry == Permutations(Requests) \cup Permutations(ApiRequests)
=============================================================================
