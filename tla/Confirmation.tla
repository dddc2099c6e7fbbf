---------------------------- MODULE Confirmation ----------------------------
(***************************************************************************)
(* What the user of the assistant is promised about a confirmation: it is  *)
(* asked for once; it is then released by one request, or withdrawn; once  *)
(* released it is executed at most once, or given up.  A confirmation that *)
(* has left its set never returns to it.                                   *)
(***************************************************************************)
CONSTANT Tokens

VARIABLES unasked,   \* confirmations that may still be asked for
          pending,   \* asked for, and waiting for the user
          released,  \* taken by a request, to be executed
          executed   \* executed

confirmationVars == <<unasked, pending, released, executed>>

Init == unasked = Tokens /\ pending = {} /\ released = {} /\ executed = {}

\* Asking for one confirmation may replace one other.
Issue(t) ==
  /\ t \in unasked /\ unasked' = unasked \ {t}
  /\ t \in pending' /\ pending' \subseteq pending \cup {t}
  /\ \A u, v \in pending \ pending' : u = v
  /\ UNCHANGED <<released, executed>>

\* Rejected, expired, made obsolete, lost with its task or its session, or
\* never asked for.
Withdraw ==
  /\ unasked' \subseteq unasked /\ pending' \subseteq pending
  /\ UNCHANGED <<released, executed>>

Release(t) ==
  /\ t \in pending /\ pending' = pending \ {t}
  /\ released' = released \cup {t}
  /\ UNCHANGED <<unasked, executed>>

Execute(t) ==
  /\ t \in released /\ released' = released \ {t}
  /\ executed' = executed \cup {t}
  /\ UNCHANGED <<unasked, pending>>

Abandon(t) ==
  /\ t \in released /\ released' = released \ {t}
  /\ UNCHANGED <<unasked, pending, executed>>

Next == Withdraw \/ \E t \in Tokens : Issue(t) \/ Release(t) \/ Execute(t) \/ Abandon(t)

Spec == Init /\ [][Next]_confirmationVars
=============================================================================
