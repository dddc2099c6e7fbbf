---------------------------- MODULE SessionState ----------------------------
(***************************************************************************)
(* The conversation session kept in Redis under session:{id}, and what     *)
(* each StateManager operation does to it.  Every operator below is the    *)
(* `modifier` closure of one StateManager method: a session in, a session  *)
(* out.  Which of them run atomically, and what is read or written around  *)
(* them, is the business of the modules that use them.                     *)
(*                                                                         *)
(* A chat request creates at most one task and at most one confirmation    *)
(* token (both are uuid4 values), so tasks and tokens carry the name of    *)
(* the request that created them: freshness needs no counter.              *)
(***************************************************************************)
EXTENDS Integers, Sequences

CONSTANTS Requests,                 \* chat requests; also task ids and tokens
          BookingSlots,             \* facility_name, date, start_time, duration
          OtherSlots,               \* facility_id, end_time, open and close_time
          None,                     \* Python's None
          SuspendedDepth,           \* 3: suspend_task keeps [-3:]
          ConfirmationTimeoutTurns  \* 2: CONFIRMATION_TIMEOUT_TURNS

ASSUME NoneAssumption == None \notin Requests
ASSUME SlotsAssumption == BookingSlots # {} /\ OtherSlots # {}
ASSUME DepthAssumption == SuspendedDepth \in Nat \ {0}
ASSUME TimeoutAssumption == ConfirmationTimeoutTurns \in Nat \ {0}

\* SlotState: the slots the cascade compares, and the rest.
Slots == [booking : BookingSlots, other : OtherSlots]

(***************************************************************************)
(* A pending tool call.  awaiting_confirmation, pending_tool_call and      *)
(* confirmation_token are always set together and cleared together, so a   *)
(* task has one field for the three.  `booking` are the booking slots the  *)
(* planner worked from when it produced the call's parameters.             *)
(***************************************************************************)
Pending == [token : Requests, task : Requests, booking : BookingSlots]

(***************************************************************************)
(* A task.  `memory` names the task whose planner run produced the entries *)
(* in planner_memory.                                                      *)
(***************************************************************************)
Task == [id : Requests, slots : Slots, memory : Requests,
         pending : Pending \cup {None},
         turns : 0 .. ConfirmationTimeoutTurns]

Session == [active : Task \cup {None}, stashed : Task \cup {None},
            suspended : Seq(Task), unclear : Nat]

\* Python's None is no session, no task and no tool call.
ASSUME NoRecordAssumption == None \notin Session \cup Task \cup Pending

EmptySession == [active |-> None, stashed |-> None, suspended |-> <<>>,
                 unclear |-> 0]

NewTask(id, slots) == [id |-> id, slots |-> slots, memory |-> id,
                       pending |-> None, turns |-> 0]

Awaiting(task) == task # None /\ task.pending # None

ClearConfirmation(task) == [task EXCEPT !.pending = None, !.turns = 0]

(***************************************************************************)
(* The tasks of a session by place: 0 is the active task, -1 the stashed   *)
(* one, and i >= 1 the i-th suspended one, the oldest first.               *)
(***************************************************************************)
Places(s) == -1 .. Len(s.suspended)
TaskAt(s, p) == IF p = 0 THEN s.active
                ELSE IF p = -1 THEN s.stashed
                ELSE s.suspended[p]

TaskIds(s) == {TaskAt(s, p).id : p \in {q \in Places(s) : TaskAt(s, q) # None}}
LiveTokens(s) == {TaskAt(s, p).pending.token :
                    p \in {q \in Places(s) : Awaiting(TaskAt(s, q))}}

\* No task is in two places.
DistinctTasks(s) ==
  \A p, q \in Places(s) :
    p # q /\ TaskAt(s, p) # None /\ TaskAt(s, q) # None =>
      TaskAt(s, p).id # TaskAt(s, q).id

\* No confirmation token is pending in two places.
DistinctTokens(s) ==
  \A p, q \in Places(s) :
    p # q /\ Awaiting(TaskAt(s, p)) /\ Awaiting(TaskAt(s, q)) =>
      TaskAt(s, p).pending.token # TaskAt(s, q).pending.token

(***************************************************************************)
(* The modifiers.                                                          *)
(***************************************************************************)
InitTask(s, id, slots) == [s EXCEPT !.active = NewTask(id, slots)]

\* Mutant: the stack is never cut.
LastNUncut(seq, n) == seq

\* The last n elements of a sequence: Python's seq[-n:].
LastN(seq, n) == IF Len(seq) <= n THEN seq
                 ELSE SubSeq(seq, Len(seq) - n + 1, Len(seq))

SuspendTask(s) ==
  IF s.active = None THEN s
  ELSE [s EXCEPT !.suspended = LastN(Append(@, s.active), SuspendedDepth),
                 !.active = None]

\* Mutant: the active task stays active.
StashTaskCopy(s) == [s EXCEPT !.stashed = s.active]

StashTask(s) == [s EXCEPT !.stashed = s.active, !.active = None]

\* Mutant: the suspended stack comes before the stash.
RestoreSuspendedFirst(s) ==
  IF s.suspended # <<>>
  THEN [s EXCEPT !.active = s.suspended[Len(s.suspended)],
                 !.suspended = SubSeq(@, 1, Len(@) - 1)]
  ELSE [s EXCEPT !.active = s.stashed, !.stashed = None]

\* Mutant: the stash is not emptied.
RestoreKeepingStash(s) ==
  IF s.stashed # None
  THEN [s EXCEPT !.active = s.stashed]
  ELSE RestoreSuspendedFirst(s)

RestoreLatestTask(s) ==
  IF s.stashed # None
  THEN [s EXCEPT !.active = s.stashed, !.stashed = None]
  ELSE IF s.suspended # <<>>
  THEN [s EXCEPT !.active = s.suspended[Len(s.suspended)],
                 !.suspended = SubSeq(@, 1, Len(@) - 1)]
  ELSE [s EXCEPT !.active = None]

ClearTask(s) == [s EXCEPT !.active = None]

\* The pending confirmation stays.
UpdateSlotsOnly(s, slots) == [s EXCEPT !.active.slots = slots]

\* _apply_slot_cascade: a changed booking slot drops the pending confirmation;
\* the other slots are set, or reset with the booking slots they depend on.
UpdateSlots(s, slots) ==
  IF slots.booking = s.active.slots.booking
  THEN UpdateSlotsOnly(s, slots)
  ELSE [s EXCEPT !.active = ClearConfirmation([@ EXCEPT !.slots = slots])]

SetAwaitingConfirmation(s, call) ==
  [s EXCEPT !.active = [@ EXCEPT !.pending = call, !.turns = 0]]

\* Mutant: the call is handed out and stays pending.
KeepConfirmation(s) == [s EXCEPT !.active.turns = 0]

\* release_confirmation and reject_confirmation change the same fields.
DropConfirmation(s) == [s EXCEPT !.active = ClearConfirmation(@)]

\* Mutant: one turn late.
BumpExpiresLate(s) == /\ Awaiting(s.active)
                      /\ s.active.turns + 1 > ConfirmationTimeoutTurns

BumpExpires(s) == /\ Awaiting(s.active)
                  /\ s.active.turns + 1 >= ConfirmationTimeoutTurns

BumpConfirmationTurns(s) ==
  IF ~Awaiting(s.active) THEN s
  ELSE IF BumpExpires(s) THEN DropConfirmation(s)
  ELSE [s EXCEPT !.active.turns = @ + 1]

UpdatePlannerMemory(s, owner) == [s EXCEPT !.active.memory = owner]

BumpUnclear(s) == [s EXCEPT !.unclear = @ + 1]

\* _append_messages: the history grows and the unclear streak ends.
AppendMessages(s) == [s EXCEPT !.unclear = 0]
=============================================================================
