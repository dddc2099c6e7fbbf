------------------------------- MODULE Ledger -------------------------------
(***************************************************************************)
(* What a client of the booking server expects: a request to book or to    *)
(* cancel takes effect at most once, whatever becomes of its answer.  The  *)
(* server keeps its bookings in memory: a restart leaves its first ones.   *)
(***************************************************************************)
CONSTANT Seeds        \* the bookings the server starts with

VARIABLES owed,      \* requests that may still take effect
          entries,   \* the bookings made
          cancelled  \* those that were cancelled

Init == entries = Seeds /\ cancelled = {}

Settle(r) == r \in owed /\ owed' = owed \ {r}

Book(r, e) ==
  /\ Settle(r)
  /\ entries' = entries \cup {e}
  /\ UNCHANGED cancelled

Cancel(r, e) ==
  /\ Settle(r)
  /\ e \in entries
  /\ cancelled' = cancelled \cup {e}
  /\ UNCHANGED entries

\* A request that changes nothing.
Read(r) == Settle(r) /\ UNCHANGED <<entries, cancelled>>

Forget ==
  /\ entries' = Seeds /\ cancelled' = {}
  /\ UNCHANGED owed
=============================================================================
