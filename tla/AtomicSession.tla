--------------------------- MODULE AtomicSession ---------------------------
(***************************************************************************)
(* What StateManager._atomic_session_write promises its callers: a call    *)
(* applies its modifier to the stored session in one step, or raises and   *)
(* leaves the session alone.  ChatPipeline is written against this.        *)
(***************************************************************************)
CONSTANTS Requests,        \* the callers
          None,            \* no session
          Initial,         \* the sessions it may start from
          Ops,             \* the operations
          Refuses(_, _),   \* Refuses(o, s): o's modifier raises on s
          Modified(_, _)   \* Modified(o, s): what o's modifier makes of s

VARIABLES session,  \* session:{id} in Redis, None once it has expired
          aged,     \* the session is past SESSION_HARD_TTL
          op,       \* the operation of each request
          outcome   \* how each call ended

absVars == <<session, aged, op, outcome>>

\* How a call may end without a write.
Raises == {"refused",   \* the modifier raised
           "notfound",  \* SessionNotFoundError
           "conflict"}  \* ConcurrentWriteError

Init ==
  /\ session \in Initial
  /\ aged = FALSE
  /\ op \in [Requests -> Ops]
  /\ outcome = [r \in Requests |-> "none"]

Return(r, how) == outcome[r] = "none" /\ outcome' = [outcome EXCEPT ![r] = how]

Apply(r) ==
  /\ session # None
  /\ ~Refuses(op[r], session)
  /\ session' = Modified(op[r], session)
  /\ Return(r, "written")
  /\ UNCHANGED <<aged, op>>

Refuse(r) ==
  /\ session # None /\ Refuses(op[r], session)
  /\ Return(r, "refused")
  /\ UNCHANGED <<session, aged, op>>

NotFound(r) ==
  /\ session = None \/ aged
  /\ Return(r, "notfound")
  /\ UNCHANGED <<session, aged, op>>

GiveUp(r) ==
  /\ Return(r, "conflict")
  /\ UNCHANGED <<session, aged, op>>

\* The key's TTL, SESSION_INACTIVITY_TTL after the last write.
Expire == session # None /\ session' = None /\ UNCHANGED <<aged, op, outcome>>

\* SESSION_HARD_TTL after created_at.
Age == ~aged /\ aged' = TRUE /\ UNCHANGED <<session, op, outcome>>

Next ==
  \/ \E r \in Requests : Apply(r) \/ Refuse(r) \/ NotFound(r) \/ GiveUp(r)
  \/ Expire \/ Age

Spec == Init /\ [][Next]_absVars
=============================================================================
