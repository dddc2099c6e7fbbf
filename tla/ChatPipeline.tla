---------------------------- MODULE ChatPipeline ----------------------------
(***************************************************************************)
(* _process_message of routers/chat.py: the background task behind every   *)
(* POST /chat/message.  Requests on one session run concurrently; a        *)
(* request gives up control at every await, so between two of its steps    *)
(* any other request may rewrite the session.                              *)
(*                                                                         *)
(* One action is one Redis access of one request.  _atomic_session_write   *)
(* is one atomic step here (SessionWrite shows why it may be); the LLM and *)
(* the booking server are nondeterministic, and their calls, which touch   *)
(* nothing shared, belong to the step that follows them.                   *)
(***************************************************************************)
EXTENDS SessionState, FiniteSets

CONSTANTS MaxInFlight,  \* bound: requests of the session processed at once
          Faults        \* which of the faults below can happen

FaultKinds == {"error",   \* an await raises: Redis, Postgres, write retries
               "crash",   \* the process dies, or Redis refuses the result
               "expire"}  \* the session reaches a TTL

ASSUME MaxInFlightAssumption == MaxInFlight \in Nat \ {0}
ASSUME FaultsAssumption == Faults \subseteq FaultKinds

VARIABLES
  session,  \* session:{id} in Redis, None once it has expired
  marker,   \* pending_confirmation:{user} in Redis: the token it records
  result,   \* request:{id} in Redis, per request
  pc,       \* where each request is in _process_message
  intent,   \* decision.intent_class of each request
  view,     \* the active task each request last read (its `task`)
  call,     \* the tool call each request released (its `pending_call`)
  ran,      \* history: the token of the call each request executed
  ignored,  \* history: unrelated requests that saw the token pending
  lapsed,   \* history: the token pending when the session expired at rest
  prompt    \* the recovery_message of the login after the expiry

redis == <<session, marker, result>>
local == <<pc, intent, view, call>>
history == <<ran, ignored, lapsed, prompt>>
vars == <<redis, local, history>>

Intents == {"new_task", "continue_task", "switch_task", "cancel_task",
            "resume_task", "side_question", "confirmation", "rejection",
            "small_talk", "unclear"}

Answers == {"confirmation", "rejection"}

(***************************************************************************)
(* Program points, each named for the step the request takes next.         *)
(***************************************************************************)
Raising == {"begin", "bump", "unclear", "release", "refetch", "clear",
            "reject", "init", "update", "read", "suspend", "stash",
            "restore", "unstash", "plan", "persist", "append", "reply"}
Unmarking == {"unmarkPlan", "unmarkRefetch", "unmarkAppend"}
Running == Raising \cup Unmarking \cup {"execute", "mark"}
Over == {"done", "lost"}
PCs == {"idle"} \cup Running \cup Over

InFlight == {r \in Requests : pc[r] \in Running}

TypeOK ==
  /\ session \in Session \cup {None}
  /\ session # None => Len(session.suspended) <= SuspendedDepth
  /\ marker \in Requests \cup {None}
  /\ result \in [Requests -> {"none", "processing", "done", "error"}]
  /\ pc \in [Requests -> PCs]
  /\ intent \in [Requests -> Intents \cup {None}]
  /\ view \in [Requests -> Task \cup {None}]
  /\ call \in [Requests -> Pending \cup {None}]
  /\ ran \in [Requests -> Requests \cup {None}]
  /\ ignored \in [Requests -> 0 .. ConfirmationTimeoutTurns]
  /\ lapsed \in Requests \cup {None}
  /\ prompt \in {"none", "shown", "silent"}

Init ==
  /\ session = EmptySession
  /\ marker = None
  /\ result = [r \in Requests |-> "none"]
  /\ pc = [r \in Requests |-> "idle"]
  /\ intent = [r \in Requests |-> None]
  /\ view = [r \in Requests |-> None]
  /\ call = [r \in Requests |-> None]
  /\ ran = [r \in Requests |-> None]
  /\ ignored = [r \in Requests |-> 0]
  /\ lapsed = None
  /\ prompt = "none"

Goto(r, next) == pc' = [pc EXCEPT ![r] = next]

(***************************************************************************)
(* The branch _process_message takes for an intent, given its `task`.      *)
(* continue_task goes to update_slots when the router extracted slots.     *)
(***************************************************************************)
Branches(class, task) ==
  CASE class = "small_talk" -> {"append"}
    [] class = "unclear" -> {"unclear"}
    [] class = "confirmation" -> {IF Awaiting(task) THEN "release" ELSE "append"}
    [] class = "rejection" -> {IF Awaiting(task) THEN "reject" ELSE "append"}
    [] class = "new_task" -> {"init"}
    [] class = "continue_task" -> {"update", "read"}
    [] class = "side_question" -> {IF task = None THEN "unstash" ELSE "stash"}
    [] class = "switch_task" -> {IF task = None THEN "init" ELSE "suspend"}
    [] class = "cancel_task" -> {"clear"}
    [] class = "resume_task" -> {"restore"}

-----------------------------------------------------------------------------
(***************************************************************************)
(* Accepting and classifying a message.                                    *)
(***************************************************************************)
\* post_message: the result key is written, the background task scheduled.
Post(r) ==
  /\ pc[r] = "idle"
  /\ Cardinality(InFlight) < MaxInFlight
  /\ prompt = "none"
  /\ result' = [result EXCEPT ![r] = "processing"]
  /\ Goto(r, "begin")
  /\ UNCHANGED <<session, marker, intent, view, call, history>>

\* get_session, then the router's classification of the message.  A message
\* that is no answer to the pending confirmation counts against it first.
Begin(r) ==
  /\ pc[r] = "begin"
  /\ session # None
  /\ LET task == session.active
     IN \E class \in Intents :
          LET unrelated == Awaiting(task) /\ class \notin Answers
          IN /\ \E next \in IF unrelated THEN {"bump"} ELSE Branches(class, task) :
                  Goto(r, next)
             /\ intent' = [intent EXCEPT ![r] = class]
             /\ view' = [view EXCEPT ![r] = task]
             /\ ignored' =
                  IF unrelated /\ ignored[task.pending.token] < ConfirmationTimeoutTurns
                  THEN [ignored EXCEPT ![task.pending.token] = @ + 1]
                  ELSE ignored
  /\ UNCHANGED <<redis, call, ran, lapsed, prompt>>

\* bump_confirmation_turns; when it expires the confirmation the user is told
\* so and the message goes no further.  An attempt that lost a race may have
\* counted the last turn before it did (SessionWrite!ExpiredNotReleased).
Bump(r) ==
  /\ pc[r] = "bump"
  /\ session # None
  /\ session' = BumpConfirmationTurns(session)
  /\ view' = [view EXCEPT ![r] = session'.active]
  /\ \/ /\ BumpExpires(session) \/ InFlight # {r}
        /\ Goto(r, "unmarkAppend")
     \/ /\ ~BumpExpires(session)
        /\ \E next \in Branches(intent[r], session'.active) : Goto(r, next)
  /\ UNCHANGED <<marker, result, intent, call, history>>

Unclear(r) ==
  /\ pc[r] = "unclear"
  /\ session # None
  /\ session' = BumpUnclear(session)
  /\ Goto(r, "append")
  /\ UNCHANGED <<marker, result, intent, view, call, history>>

-----------------------------------------------------------------------------
(***************************************************************************)
(* The pending confirmation: released and executed, or rejected.           *)
(***************************************************************************)
\* Mutant: whatever is pending will do.
AnyPending(r) == Awaiting(session.active)

TokenMatches(r) == /\ Awaiting(session.active)
                   /\ session.active.pending.token = view[r].pending.token

\* release_confirmation with the token of the task read at the beginning.
Release(r) ==
  /\ pc[r] = "release"
  /\ session # None
  /\ TokenMatches(r)
  /\ call' = [call EXCEPT ![r] = session.active.pending]
  /\ session' = DropConfirmation(session)
  /\ Goto(r, "unmarkRefetch")
  /\ UNCHANGED <<marker, result, intent, view, history>>

\* Its KeyError or PermissionError, or the session's own: "I couldn't find a
\* pending action to confirm."
ReleaseRefused(r) ==
  /\ \/ pc[r] = "release" /\ session = None
     \/ pc[r] = "release" /\ session # None /\ ~TokenMatches(r)
     \/ pc[r] = "refetch" /\ session = None
     \/ pc[r] = "clear" /\ intent[r] = "confirmation" /\ session = None
  /\ Goto(r, "append")
  /\ UNCHANGED <<redis, intent, view, call, history>>

\* The delete of pending_confirmation:{user} after a session write.
AfterUnmark(point) == CASE point = "unmarkPlan" -> "plan"
                        [] point = "unmarkRefetch" -> "refetch"
                        [] point = "unmarkAppend" -> "append"

Unmark(r) ==
  /\ pc[r] \in Unmarking
  /\ marker' = None
  /\ Goto(r, AfterUnmark(pc[r]))
  /\ UNCHANGED <<session, result, intent, view, call, history>>

Refetch(r) ==
  /\ pc[r] = "refetch"
  /\ session # None
  /\ Goto(r, "execute")
  /\ UNCHANGED <<redis, intent, view, call, history>>

\* harness.execute(pending_call, pre_confirmed=True): SUCCESS clears the task
\* next, any other status only words the answer.
Execute(r) ==
  /\ pc[r] = "execute"
  /\ ran' = [ran EXCEPT ![r] = call[r].token]
  /\ \E next \in {"clear", "append"} : Goto(r, next)
  /\ UNCHANGED <<redis, intent, view, call, ignored, lapsed, prompt>>

\* clear_task, after a success and for cancel_task.
Clear(r) ==
  /\ pc[r] = "clear"
  /\ session # None
  /\ session' = ClearTask(session)
  /\ Goto(r, "unmarkAppend")
  /\ UNCHANGED <<marker, result, intent, view, call, history>>

\* reject_confirmation drops whatever the active task is waiting for.
Reject(r) ==
  /\ pc[r] = "reject"
  /\ session # None /\ session.active # None
  /\ session' = DropConfirmation(session)
  /\ view' = [view EXCEPT ![r] = session'.active]
  /\ Goto(r, "unmarkPlan")
  /\ UNCHANGED <<marker, result, intent, call, history>>

-----------------------------------------------------------------------------
(***************************************************************************)
(* Starting, correcting, suspending and restoring tasks.                   *)
(***************************************************************************)
\* Mutant: the harness context and the planner keep an earlier task.
CreateKeepingContext(r) ==
  /\ pc[r] = "init"
  /\ session # None
  /\ \E slots \in Slots : session' = InitTask(session, r, slots)
  /\ view' = [view EXCEPT ![r] = IF @ = None THEN session'.active ELSE @]
  /\ Goto(r, "plan")
  /\ UNCHANGED <<marker, result, intent, call, history>>

\* init_task replaces whatever is active.
Create(r) ==
  /\ pc[r] = "init"
  /\ session # None
  /\ \E slots \in Slots : session' = InitTask(session, r, slots)
  /\ view' = [view EXCEPT ![r] = session'.active]
  /\ Goto(r, "plan")
  /\ UNCHANGED <<marker, result, intent, call, history>>

\* update_slots; the marker goes when nothing is left to confirm.
Update(r) ==
  /\ pc[r] = "update"
  /\ session # None /\ session.active # None
  /\ \E slots \in Slots : session' = UpdateSlots(session, slots)
  /\ view' = [view EXCEPT ![r] = session'.active]
  /\ Goto(r, IF Awaiting(session'.active) THEN "plan" ELSE "unmarkPlan")
  /\ UNCHANGED <<marker, result, intent, call, history>>

\* continue_task without slots re-reads the session, and starts a task if
\* there is none.
Read(r) ==
  /\ pc[r] = "read"
  /\ session # None
  /\ view' = [view EXCEPT ![r] = session.active]
  /\ Goto(r, IF session.active = None THEN "init" ELSE "plan")
  /\ UNCHANGED <<redis, intent, call, history>>

Suspend(r) ==
  /\ pc[r] = "suspend"
  /\ session # None
  /\ session' = SuspendTask(session)
  /\ Goto(r, "init")
  /\ UNCHANGED <<marker, result, intent, view, call, history>>

\* Mutant: the task read at the beginning is written back.
StashSnapshot(r) ==
  /\ pc[r] = "stash"
  /\ session # None
  /\ session' = [session EXCEPT !.stashed = view[r], !.active = None]
  /\ Goto(r, "unstash")
  /\ UNCHANGED <<marker, result, intent, view, call, history>>

\* stash_task; _answer_side_question comes before the next step.
Stash(r) ==
  /\ pc[r] = "stash"
  /\ session # None
  /\ session' = StashTask(session)
  /\ Goto(r, "unstash")
  /\ UNCHANGED <<marker, result, intent, view, call, history>>

\* restore_latest_task after a side question.
Unstash(r) ==
  /\ pc[r] = "unstash"
  /\ session # None
  /\ session' = RestoreLatestTask(session)
  /\ Goto(r, "append")
  /\ UNCHANGED <<marker, result, intent, view, call, history>>

\* restore_latest_task for resume_task.
Restore(r) ==
  /\ pc[r] = "restore"
  /\ session # None
  /\ session' = RestoreLatestTask(session)
  /\ view' = [view EXCEPT ![r] = session'.active]
  /\ Goto(r, IF session'.active = None THEN "append" ELSE "plan")
  /\ UNCHANGED <<marker, result, intent, call, history>>

-----------------------------------------------------------------------------
(***************************************************************************)
(* The planner run, given the task in view[r].  The harness holds back a   *)
(* call that needs confirmation and makes the token; the planner then      *)
(* attaches both to whatever task is active.                               *)
(***************************************************************************)
ProposedCall(r) == [token |-> r, task |-> view[r].id,
                    booking |-> view[r].slots.booking]

Propose(r) ==
  /\ pc[r] = "plan"
  /\ session # None /\ session.active # None
  /\ session' = SetAwaitingConfirmation(session, ProposedCall(r))
  /\ Goto(r, "mark")
  /\ UNCHANGED <<marker, result, intent, view, call, history>>

\* The rest of set_awaiting_confirmation: the recovery marker.
Mark(r) ==
  /\ pc[r] = "mark"
  /\ marker' = r
  /\ Goto(r, "persist")
  /\ UNCHANGED <<session, result, intent, view, call, history>>

\* A question, a final answer or the iteration cap; an LLM error returns
\* without persisting the planner's memory.
Answer(r) ==
  /\ pc[r] = "plan"
  /\ \E next \in {"persist", "append"} : Goto(r, next)
  /\ UNCHANGED <<redis, intent, view, call, history>>

\* _persist_memory logs and swallows whatever update_planner_memory raises.
Persist(r) ==
  /\ pc[r] = "persist"
  /\ LET active == session # None /\ session.active # None
     IN \/ active /\ session' = UpdatePlannerMemory(session, view[r].id)
        \/ (~active \/ "error" \in Faults) /\ UNCHANGED session
  /\ Goto(r, "append")
  /\ UNCHANGED <<marker, result, intent, view, call, history>>

-----------------------------------------------------------------------------
(***************************************************************************)
(* The end of a request.                                                   *)
(***************************************************************************)
\* _append_messages.
AppendTurn(r) ==
  /\ pc[r] = "append"
  /\ session # None
  /\ session' = AppendMessages(session)
  /\ Goto(r, "reply")
  /\ UNCHANGED <<marker, result, intent, view, call, history>>

\* The request's locals go out of scope.
Finish(r, end) ==
  /\ Goto(r, end)
  /\ intent' = [intent EXCEPT ![r] = None]
  /\ view' = [view EXCEPT ![r] = None]
  /\ call' = [call EXCEPT ![r] = None]
  /\ UNCHANGED <<session, marker, history>>

\* The last get_session, the UI hints and the result.
Reply(r) ==
  /\ pc[r] = "reply"
  /\ session # None
  /\ result' = [result EXCEPT ![r] = "done"]
  /\ Finish(r, "done")

\* Mutant: a vanished session is not caught.
RaiseForTaskOnly(r) ==
  /\ pc[r] \in {"update", "reject", "plan"}
  /\ session # None /\ session.active = None
  /\ result' = [result EXCEPT ![r] = "error"]
  /\ Finish(r, "done")

\* Exceptions of the code's own that reach the outer handler: the session is
\* gone, or a modifier finds no active task to work on.
Raise(r) ==
  /\ \/ /\ pc[r] \in Raising \ {"release", "refetch", "persist"}
        /\ ~(pc[r] = "clear" /\ intent[r] = "confirmation")
        /\ session = None
     \/ /\ pc[r] \in {"update", "reject", "plan"}
        /\ session # None /\ session.active = None
  /\ result' = [result EXCEPT ![r] = "error"]
  /\ Finish(r, "done")

\* A failing await: the outer handler stores the error result.
Error(r) ==
  /\ "error" \in Faults
  /\ pc[r] \in Running \ {"persist"}
  /\ result' = [result EXCEPT ![r] = "error"]
  /\ Finish(r, "done")

\* The process dies, or storing the error result fails as well.
Crash(r) ==
  /\ "crash" \in Faults
  /\ pc[r] \in Running
  /\ Finish(r, "lost")
  /\ UNCHANGED result

\* SESSION_INACTIVITY_TTL or SESSION_HARD_TTL.
Expire ==
  /\ "expire" \in Faults
  /\ session # None
  /\ session' = None
  /\ lapsed' = IF InFlight = {} /\ Awaiting(session.active)
               THEN session.active.pending.token ELSE None
  /\ UNCHANGED <<marker, result, local, ran, ignored, prompt>>

\* get_expired_confirmation_recovery as login calls it once the session is
\* gone.  The session the login creates is not followed.
Login ==
  /\ session = None
  /\ prompt = "none"
  /\ prompt' = IF marker = None THEN "silent" ELSE "shown"
  /\ marker' = None
  /\ UNCHANGED <<session, result, local, ran, ignored, lapsed>>

\* Every message has been dealt with, and no more will be posted.
Quiet ==
  /\ InFlight = {}
  /\ prompt = "none" => \A r \in Requests : pc[r] \in Over
  /\ UNCHANGED vars

Step(r) ==
  \/ Begin(r) \/ Bump(r) \/ Unclear(r)
  \/ Release(r) \/ ReleaseRefused(r) \/ Unmark(r) \/ Refetch(r) \/ Execute(r)
  \/ Clear(r) \/ Reject(r)
  \/ Create(r) \/ Update(r) \/ Read(r) \/ Suspend(r) \/ Stash(r)
  \/ Unstash(r) \/ Restore(r)
  \/ Propose(r) \/ Mark(r) \/ Answer(r) \/ Persist(r)
  \/ AppendTurn(r) \/ Reply(r) \/ Raise(r)

Next ==
  \/ \E r \in Requests : Post(r) \/ Step(r) \/ Error(r) \/ Crash(r)
  \/ Expire \/ Login \/ Quiet

Spec == Init /\ [][Next]_vars

\* The event loop resumes every coroutine whose await has completed.  That
\* every await completes, with an answer or an exception, is an assumption
\* where the code sets no timeout: the LLM client and Redis.
Fairness == \A r \in Requests : WF_vars(Step(r))

-----------------------------------------------------------------------------
(***************************************************************************)
(* Correctness, whatever the interleaving and the faults.                  *)
(***************************************************************************)
\* A task is in one place: stashing, suspending, restoring and replacing
\* tasks never leave two copies of one, which would be worked on, confirmed
\* and cleared apart.
OneHome == session # None => DistinctTasks(session)

\* The tool call behind a confirmation token runs at most once, however many
\* requests saw the token and confirmed it.
ExecutedOnce ==
  \A r, q \in Requests : r # q /\ ran[r] # None => ran[r] # ran[q]

\* What a confirmation executes is the call the user was shown: the one that
\* was pending when the confirming request read the session.
ExecutedAsSeen ==
  \A r \in Requests :
    pc[r] \in {"unmarkRefetch", "refetch", "execute"} =>
      call[r].token = view[r].pending.token

\* The points a request passes before it can have created its task.
BeforeInit == {"idle", "begin", "bump", "read", "suspend", "init"}

\* The points a request passes before it can have issued its token.
BeforePlan == {"idle", "begin", "bump", "reject", "init", "update", "read",
               "suspend", "restore", "unmarkPlan", "plan"}

\* A confirmation that was released, rejected, expired or replaced never
\* becomes pending again, in any task, on any stack.
DeadTokensStayDead ==
  [][\A t \in Requests :
       /\ session # None /\ session' # None
       /\ pc[t] \notin BeforePlan
       /\ t \notin LiveTokens(session)
       => t \notin LiveTokens(session')]_vars

\* Every accepted message gets an answer, be it an error.
Answered ==
  \A r \in Requests :
    result[r] = "processing" ~> result[r] \in {"done", "error"}

-----------------------------------------------------------------------------
(***************************************************************************)
(* Why the above holds: tasks and tokens are fresh when they are created,  *)
(* kept in one place while they are pending, and in one request's hands    *)
(* once they are released.                                                 *)
(***************************************************************************)
\* The tokens of the calls request r released or executed.
Spent(r) == {t \in Requests : \/ call[r] # None /\ call[r].token = t
                              \/ ran[r] = t}

TokensFlow ==
  /\ session # None => /\ DistinctTasks(session)
                       /\ DistinctTokens(session)
  /\ \A r \in Requests :
       /\ pc[r] \in BeforeInit /\ session # None => r \notin TaskIds(session)
       /\ pc[r] \in BeforePlan /\ session # None => r \notin LiveTokens(session)
       /\ pc[r] \in BeforePlan => \A q \in Requests : r \notin Spent(q)
       /\ session # None => Spent(r) \cap LiveTokens(session) = {}
       /\ \A q \in Requests \ {r} : Spent(r) \cap Spent(q) = {}

-----------------------------------------------------------------------------
(***************************************************************************)
(* The life of a confirmation, whatever requests, tasks and session do.    *)
(***************************************************************************)
Unasked == {t \in Requests : pc[t] \in BeforePlan}
Waiting == IF session = None THEN {} ELSE LiveTokens(session)
Executed == {t \in Requests : \E r \in Requests : ran[r] = t}
Released == {t \in Requests : \E r \in Requests : call[r] # None /\ call[r].token = t}

Confirmations == INSTANCE Confirmation
  WITH Tokens <- Requests, unasked <- Unasked, pending <- Waiting,
       released <- Released \ Executed, executed <- Executed

\* Every step of the pipeline moves the confirmations as the abstract
\* specification allows, or not at all: each is asked for once, released by
\* one request, executed at most once, and never comes back, although it is
\* stored in a task that requests move, replace and copy into their locals.
ImplementsConfirmation == Confirmations!Spec

-----------------------------------------------------------------------------
(***************************************************************************)
(* Correctness of one message at a time, as the embedded UI sends them.    *)
(***************************************************************************)
AtRest == InFlight = {}

\* A pending call sits in the task it was planned for.
PendingBelongsToTask ==
  session # None =>
    \A p \in Places(session) :
      LET task == TaskAt(session, p)
      IN Awaiting(task) => task.pending.task = task.id

\* A pending call was planned from the booking slots its task has now: a
\* correction of the facility, the date, the time or the duration takes back
\* the confirmation of the call it makes obsolete.  One of the other slots,
\* facility_id and end_time among them, does not (_apply_slot_cascade).
PendingFollowsSlots ==
  session # None =>
    \A p \in Places(session) :
      LET task == TaskAt(session, p)
      IN Awaiting(task) => task.pending.booking = task.slots.booking

\* A task's planner memory is its own.
MemoryBelongsToTask ==
  session # None =>
    \A p \in Places(session) :
      LET task == TaskAt(session, p)
      IN task # None => task.memory = task.id

\* A side question asked in the middle of a task leaves that task active and
\* unchanged, its pending confirmation included, if the session still lives.
SideQuestionTransparent ==
  \A r \in Requests :
    /\ pc[r] = "append" /\ intent[r] = "side_question" /\ view[r] # None
    /\ session # None
    => session.active = view[r]

\* The router's definition of a side question (router_agent.py:62): it is
\* answered "without changing the active task", be there one or not.
SideQuestionKeepsActive ==
  [][\A r \in Requests :
       pc[r] = "unstash" /\ view[r] = None /\ session # None /\ session' # None
       => session'.active = session.active]_vars

\* The promise of README.md:72: when the session expires with a pending
\* confirmation, the next login shows the recovery prompt.
RecoveryPromised == prompt = "silent" => lapsed = None

\* Between messages nothing is left stashed: only suspended tasks wait.
NothingStashedAtRest ==
  session # None /\ AtRest => session.stashed = None

\* The turns of a pending confirmation are the unrelated messages that saw
\* it, so none survives CONFIRMATION_TIMEOUT_TURNS of them.
UnansweredExpires ==
  session # None /\ AtRest =>
    \A p \in Places(session) :
      LET task == TaskAt(session, p)
      IN Awaiting(task) => /\ task.turns = ignored[task.pending.token]
                           /\ task.turns < ConfirmationTimeoutTurns
=============================================================================
