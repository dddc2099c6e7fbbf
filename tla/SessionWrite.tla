---------------------------- MODULE SessionWrite ----------------------------
(***************************************************************************)
(* StateManager._atomic_session_write, one action per Redis round trip:    *)
(* WATCH, GET, and MULTI/EXEC, which Redis refuses when the watched key    *)
(* was touched meanwhile; a refused call starts over, MaxRetries times at  *)
(* most.  The modifier runs between the GET and the EXEC, once per         *)
(* attempt, and what it leaves in a variable of the enclosing method is    *)
(* still there on the next attempt.                                        *)
(***************************************************************************)
EXTENDS SessionState, FiniteSets

CONSTANT MaxRetries  \* 3: max_retries

ASSUME MaxRetriesAssumption == MaxRetries \in Nat \ {0}
ASSUME RequestsAssumption == IsFiniteSet(Requests)

(***************************************************************************)
(* What is called.                                                         *)
(***************************************************************************)
\* The modifiers without arguments stand for all: two that read what they
\* change, two that move tasks, one that drops and one that adds.
Ops == {"bump", "release", "suspend", "restore", "clear", "append"}

\* release_confirmation finds nothing pending.
Refuses(o, s) == o = "release" /\ ~Awaiting(s.active)

Modified(o, s) == CASE o = "bump" -> BumpConfirmationTurns(s)
                    [] o = "release" -> DropConfirmation(s)
                    [] o = "suspend" -> SuspendTask(s)
                    [] o = "restore" -> RestoreLatestTask(s)
                    [] o = "clear" -> ClearTask(s)
                    [] o = "append" -> AppendMessages(s)

\* A session whose active task waits for a confirmation.
Waiting(id, slots, turns) ==
  [EmptySession EXCEPT !.active =
     [NewTask(id, slots) EXCEPT
        !.pending = [token |-> id, task |-> id, booking |-> slots.booking],
        !.turns = turns]]

Initial == {Waiting(id, slots, n) :
              id \in Requests, slots \in Slots, n \in 0 .. ConfirmationTimeoutTurns - 1}

-----------------------------------------------------------------------------
VARIABLES session,  \* session:{id} in Redis, None once it has expired
          aged,     \* the session is past SESSION_HARD_TTL
          op,       \* the operation each request calls
          pc,       \* the next round trip of each request, or how it ended
          raw,      \* what its last GET returned
          dirty,    \* requests whose watched key was touched (Redis's CLIENT_DIRTY_CAS)
          tries,    \* attempts that ended in a WatchError
          expired   \* `expired` of bump_confirmation_turns

vars == <<session, aged, op, pc, raw, dirty, tries, expired>>

\* How a call ended, as its caller sees it.
Outcome == [r \in Requests |->
              IF pc[r] \in {"watch", "get", "exec"} THEN "none" ELSE pc[r]]

Atomic == INSTANCE AtomicSession WITH outcome <- Outcome

Watching == {r \in Requests : pc[r] \in {"get", "exec"}}

TypeOK ==
  /\ session \in Session \cup {None}
  /\ session # None => Len(session.suspended) <= SuspendedDepth
  /\ aged \in BOOLEAN
  /\ op \in [Requests -> Ops]
  /\ pc \in [Requests -> {"watch", "get", "exec", "written"} \cup Atomic!Raises]
  /\ raw \in [Requests -> Session \cup {None}]
  /\ dirty \subseteq Requests
  /\ tries \in [Requests -> 0 .. MaxRetries]
  /\ expired \in [Requests -> BOOLEAN]

Init ==
  /\ session \in Initial
  /\ aged = FALSE
  /\ op \in [Requests -> Ops]
  /\ pc = [r \in Requests |-> "watch"]
  /\ raw = [r \in Requests |-> None]
  /\ dirty = {}
  /\ tries = [r \in Requests |-> 0]
  /\ expired = [r \in Requests |-> FALSE]

Goto(r, next) == pc' = [pc EXCEPT ![r] = next]

\* Mutant: one connection for all attempts, and the key is not watched anew.
WatchOnce(r) ==
  /\ pc[r] = "watch"
  /\ Goto(r, "get")
  /\ UNCHANGED <<session, aged, op, raw, dirty, tries, expired>>

Watch(r) ==
  /\ pc[r] = "watch"
  /\ dirty' = dirty \ {r}
  /\ Goto(r, "get")
  /\ UNCHANGED <<session, aged, op, raw, tries, expired>>

\* No session: SessionNotFoundError.
GetNothing(r) ==
  /\ pc[r] = "get"
  /\ session = None \/ aged
  /\ Goto(r, "notfound")
  /\ UNCHANGED <<session, aged, op, raw, dirty, tries, expired>>

\* The modifier raises, and so does the call.
GetRefused(r) ==
  /\ pc[r] = "get"
  /\ session # None /\ ~aged
  /\ Refuses(op[r], session)
  /\ Goto(r, "refused")
  /\ UNCHANGED <<session, aged, op, raw, dirty, tries, expired>>

\* The modifier runs on the session it was given.
Get(r) ==
  /\ pc[r] = "get"
  /\ session # None /\ ~aged
  /\ ~Refuses(op[r], session)
  /\ raw' = [raw EXCEPT ![r] = session]
  /\ expired' = [expired EXCEPT ![r] = @ \/ (op[r] = "bump" /\ BumpExpires(session))]
  /\ Goto(r, "exec")
  /\ UNCHANGED <<session, aged, op, dirty, tries>>

\* Mutant: the write is not conditional.
ExecUnwatched(r) ==
  /\ pc[r] = "exec"
  /\ session' = Modified(op[r], raw[r])
  /\ Goto(r, "written")
  /\ UNCHANGED <<aged, op, raw, dirty, tries, expired>>

Exec(r) ==
  /\ pc[r] = "exec"
  /\ r \notin dirty
  /\ session' = Modified(op[r], raw[r])
  /\ dirty' = dirty \cup (Watching \ {r})
  /\ Goto(r, "written")
  /\ UNCHANGED <<aged, op, raw, tries, expired>>

\* Mutant: one attempt too many.
RetryOnceMore(r) ==
  /\ pc[r] = "exec"
  /\ r \in dirty
  /\ tries' = [tries EXCEPT ![r] = @ + 1]
  /\ Goto(r, IF tries'[r] > MaxRetries THEN "conflict" ELSE "watch")
  /\ UNCHANGED <<session, aged, op, raw, dirty, expired>>

\* WatchError: again, or ConcurrentWriteError.
Retry(r) ==
  /\ pc[r] = "exec"
  /\ r \in dirty
  /\ tries' = [tries EXCEPT ![r] = @ + 1]
  /\ Goto(r, IF tries'[r] = MaxRetries THEN "conflict" ELSE "watch")
  /\ UNCHANGED <<session, aged, op, raw, dirty, expired>>

\* The key's TTL runs out, which touches it.
Expire ==
  /\ session # None
  /\ session' = None
  /\ dirty' = dirty \cup Watching
  /\ UNCHANGED <<aged, op, pc, raw, tries, expired>>

\* The session passes SESSION_HARD_TTL, which touches nothing.
Age ==
  /\ ~aged
  /\ aged' = TRUE
  /\ UNCHANGED <<session, op, pc, raw, dirty, tries, expired>>

Step(r) == \/ Watch(r) \/ GetNothing(r) \/ GetRefused(r) \/ Get(r)
           \/ Exec(r) \/ Retry(r)

Next == (\E r \in Requests : Step(r)) \/ Expire \/ Age

Spec == Init /\ [][Next]_vars

-----------------------------------------------------------------------------
(***************************************************************************)
(* Correctness.                                                            *)
(***************************************************************************)
\* A call applies its modifier to the session in one step or not at all,
\* whatever the other calls do between its WATCH and its EXEC.
ImplementsAtomic == Atomic!Spec

\* A call is refused by Redis only when another write got in: as long as
\* fewer than MaxRetries others write, no ConcurrentWriteError is raised.
Rivals(r) == Cardinality({q \in Requests \ {r} : pc[q] = "written"})
               + (IF session = None THEN 1 ELSE 0)

RetriesHaveRivals ==
  \A r \in Requests :
    tries[r] + (IF r \in dirty /\ r \in Watching THEN 1 ELSE 0) <= Rivals(r)

\* README.md:71: pending confirmations are cancelled after two unrelated
\* turns.  One that bump_confirmation_turns reports as cancelled
\* (chat.py:116 tells the user so) was not handed out for execution.
ExpiredNotReleased ==
  \A r, q \in Requests :
    op[r] = "bump" /\ pc[r] = "written" /\ expired[r] =>
      ~(op[q] = "release" /\ pc[q] = "written")
=============================================================================
