------------------------ MODULE SessionStateProofs ------------------------
(***************************************************************************)
(* What the StateManager modifiers of SessionState do to the places tasks  *)
(* are kept in: each of them moves, changes or drops tasks, and none       *)
(* copies one.                                                             *)
(***************************************************************************)
EXTENDS SessionState, TLAPS

\* A session with a suspended stack within bounds.
WellFormed(s) == s \in Session /\ Len(s.suspended) <= SuspendedDepth

\* The task at place p of t is the one at place f[p] of s, and so is the
\* token it waits for, if it waits.
SameTask(t, p, s, q) ==
  /\ TaskAt(s, q) # None
  /\ TaskAt(t, p).id = TaskAt(s, q).id
  /\ Awaiting(TaskAt(t, p)) =>
       /\ Awaiting(TaskAt(s, q))
       /\ TaskAt(t, p).pending.token = TaskAt(s, q).pending.token

\* The tasks of a session, wherever they are.
Tasks(s) == {TaskAt(s, p) : p \in Places(s)} \ {None}

\* Session t holds tasks of session s only, unchanged and each of them once.
Rearranged(t, s) ==
  \E f \in [Places(t) -> Places(s)] :
    /\ \A p \in Places(t) : TaskAt(t, p) # None => TaskAt(t, p) = TaskAt(s, f[p])
    /\ \A p, q \in Places(t) :
         p # q /\ TaskAt(t, p) # None /\ TaskAt(t, q) # None => f[p] # f[q]

\* The same, but for fields of theirs that neither name a task nor a token.
Comes(t, s) ==
  \E f \in [Places(t) -> Places(s)] :
    /\ \A p \in Places(t) : TaskAt(t, p) # None => SameTask(t, p, s, f[p])
    /\ \A p, q \in Places(t) :
         p # q /\ TaskAt(t, p) # None /\ TaskAt(t, q) # None => f[p] # f[q]

-----------------------------------------------------------------------------
(***************************************************************************)
(* Types.                                                                  *)
(***************************************************************************)
\* The slice [-3:] keeps a suffix no longer than its bound.
LEMMA LastNFacts ==
  ASSUME NEW S, NEW seq \in Seq(S), NEW n \in Nat \ {0}
  PROVE  /\ LastN(seq, n) \in Seq(S)
         /\ Len(LastN(seq, n)) <= n
         /\ Len(LastN(seq, n)) <= Len(seq)
         /\ \A i \in 1 .. Len(LastN(seq, n)) :
              LastN(seq, n)[i] = seq[i + Len(seq) - Len(LastN(seq, n))]
<1>1. CASE Len(seq) <= n
  BY <1>1 DEF LastN
<1>2. CASE ~(Len(seq) <= n)
  <2> DEFINE cut == SubSeq(seq, Len(seq) - n + 1, Len(seq))
  <2>1. LastN(seq, n) = cut
    BY <1>2 DEF LastN
  <2>2. /\ Len(seq) - n + 1 \in 1 .. Len(seq)
        /\ Len(seq) \in Nat
    BY <1>2
  <2>3. cut \in Seq(S) /\ Len(cut) = n
    BY <2>2
  <2>4. \A i \in 1 .. n : cut[i] = seq[i + Len(seq) - n]
    BY <2>2
  <2> HIDE DEF cut
  <2>5. Len(LastN(seq, n)) <= Len(seq)
    BY <1>2, <2>1, <2>2, <2>3
  <2> QED  BY <2>1, <2>3, <2>4, <2>5
<1> QED  BY <1>1, <1>2

\* Replacing the active task by a task or by None.
LEMMA SetActiveType ==
  ASSUME NEW s, WellFormed(s), NEW t \in Task \cup {None}
  PROVE  /\ WellFormed([s EXCEPT !.active = t])
         /\ [s EXCEPT !.active = t].active = t
  BY DEF WellFormed, Session

LEMMA ClearConfirmationType ==
  ASSUME NEW t \in Task
  PROVE  ClearConfirmation(t) \in Task
<1>1. 0 \in 0 .. ConfirmationTimeoutTurns
  BY TimeoutAssumption
<1> QED  BY <1>1 DEF ClearConfirmation, Task

(***************************************************************************)
(* The modifiers that change the active task and nothing else: what they   *)
(* make of it.                                                             *)
(***************************************************************************)
LEMMA DropConfirmationActive ==
  ASSUME NEW s, WellFormed(s), s.active # None
  PROVE  \E a \in Task :
           /\ DropConfirmation(s) = [s EXCEPT !.active = a]
           /\ a.id = s.active.id /\ a.slots = s.active.slots
           /\ a.memory = s.active.memory /\ a.pending = None
<1>1. s \in Session /\ s.active \in Task
  BY DEF WellFormed, Session
<1>2. DropConfirmation(s) = [s EXCEPT !.active = ClearConfirmation(s.active)]
  BY <1>1 DEF DropConfirmation, Session
<1>3. LET a == ClearConfirmation(s.active)
      IN /\ a.id = s.active.id /\ a.slots = s.active.slots
         /\ a.memory = s.active.memory /\ a.pending = None
  BY <1>1 DEF ClearConfirmation, Task
<1> QED  BY <1>1, <1>2, <1>3, ClearConfirmationType

\* A correction of a booking slot takes back the pending confirmation, one of
\* another slot leaves it as it is.
LEMMA UpdateSlotsActive ==
  ASSUME NEW s, WellFormed(s), s.active # None, NEW slots \in Slots
  PROVE  \E a \in Task :
           /\ UpdateSlots(s, slots) = [s EXCEPT !.active = a]
           /\ a.id = s.active.id /\ a.memory = s.active.memory
           /\ \/ /\ a.slots.booking = s.active.slots.booking
                 /\ a.pending = s.active.pending /\ a.turns = s.active.turns
              \/ a.pending = None
<1> DEFINE moved == [s.active EXCEPT !.slots = slots]
<1>1. s \in Session /\ s.active \in Task
  BY DEF WellFormed, Session
<1>2. /\ moved \in Task /\ moved.slots = slots
      /\ moved.id = s.active.id /\ moved.memory = s.active.memory
      /\ moved.pending = s.active.pending /\ moved.turns = s.active.turns
  BY <1>1 DEF Task
<1>3. CASE slots.booking = s.active.slots.booking
  <2>1. UpdateSlots(s, slots) = [s EXCEPT !.active = moved]
    BY <1>1, <1>3 DEF UpdateSlots, UpdateSlotsOnly, Session
  <2> HIDE DEF moved
  <2> QED  BY <1>2, <1>3, <2>1
<1>4. CASE slots.booking # s.active.slots.booking
  <2> DEFINE a == ClearConfirmation(moved)
  <2>1. UpdateSlots(s, slots) = [s EXCEPT !.active = a]
    BY <1>1, <1>4 DEF UpdateSlots, Session
  <2> HIDE DEF moved
  <2>2. a.id = moved.id /\ a.memory = moved.memory /\ a.pending = None
    BY <1>2 DEF ClearConfirmation, Task
  <2> QED  BY <1>2, <2>1, <2>2, ClearConfirmationType
<1> QED  BY <1>3, <1>4

LEMMA SetAwaitingConfirmationActive ==
  ASSUME NEW s, WellFormed(s), s.active # None, NEW c \in Pending
  PROVE  \E a \in Task :
           /\ SetAwaitingConfirmation(s, c) = [s EXCEPT !.active = a]
           /\ a.id = s.active.id /\ a.slots = s.active.slots
           /\ a.memory = s.active.memory /\ a.pending = c /\ a.turns = 0
<1>1. s \in Session /\ s.active \in Task
  BY DEF WellFormed, Session
<1>2. 0 \in 0 .. ConfirmationTimeoutTurns
  BY TimeoutAssumption
<1>3. LET a == [s.active EXCEPT !.pending = c, !.turns = 0]
      IN /\ a \in Task
         /\ a.id = s.active.id /\ a.slots = s.active.slots
         /\ a.memory = s.active.memory /\ a.pending = c /\ a.turns = 0
  BY <1>1, <1>2 DEF Task
<1>4. SetAwaitingConfirmation(s, c) =
        [s EXCEPT !.active = [s.active EXCEPT !.pending = c, !.turns = 0]]
  BY <1>1 DEF SetAwaitingConfirmation, Session
<1> QED  BY <1>3, <1>4

\* A counted turn leaves the confirmation pending below the timeout.
LEMMA BumpConfirmationTurnsActive ==
  ASSUME NEW s, WellFormed(s), Awaiting(s.active)
  PROVE  \E a \in Task :
           /\ BumpConfirmationTurns(s) = [s EXCEPT !.active = a]
           /\ a.id = s.active.id /\ a.slots = s.active.slots
           /\ a.memory = s.active.memory
           /\ \/ BumpExpires(s) /\ a.pending = None
              \/ /\ ~BumpExpires(s) /\ a.pending = s.active.pending
                 /\ a.turns = s.active.turns + 1
                 /\ a.turns < ConfirmationTimeoutTurns
<1>1. CASE BumpExpires(s)
  <2>1. BumpConfirmationTurns(s) = DropConfirmation(s) /\ s.active # None
    BY <1>1 DEF BumpConfirmationTurns, Awaiting
  <2> QED  BY <1>1, <2>1, DropConfirmationActive
<1>2. CASE ~BumpExpires(s)
  <2>1. s \in Session /\ s.active \in Task
    BY DEF WellFormed, Session, Awaiting
  <2> DEFINE a == [s.active EXCEPT !.turns = @ + 1]
  <2>2. /\ s.active.turns + 1 \in 0 .. ConfirmationTimeoutTurns
        /\ s.active.turns + 1 < ConfirmationTimeoutTurns
    BY <1>2, <2>1, TimeoutAssumption DEF BumpExpires, Task
  <2>3. /\ a \in Task
        /\ a.id = s.active.id /\ a.slots = s.active.slots
        /\ a.memory = s.active.memory /\ a.pending = s.active.pending
        /\ a.turns = s.active.turns + 1
    BY <2>1, <2>2 DEF Task
  <2>4. BumpConfirmationTurns(s) = [s EXCEPT !.active = a]
    BY <1>2, <2>1 DEF BumpConfirmationTurns, Session, Task
  <2> HIDE DEF a
  <2> QED  BY <1>2, <2>2, <2>3, <2>4
<1> QED  BY <1>1, <1>2

LEMMA UpdatePlannerMemoryActive ==
  ASSUME NEW s, WellFormed(s), s.active # None, NEW owner \in Requests
  PROVE  \E a \in Task :
           /\ UpdatePlannerMemory(s, owner) = [s EXCEPT !.active = a]
           /\ a.id = s.active.id /\ a.slots = s.active.slots
           /\ a.memory = owner /\ a.pending = s.active.pending
           /\ a.turns = s.active.turns
<1>1. s \in Session /\ s.active \in Task
  BY DEF WellFormed, Session
<1>2. UpdatePlannerMemory(s, owner) =
        [s EXCEPT !.active = [s.active EXCEPT !.memory = owner]]
  BY <1>1 DEF UpdatePlannerMemory, Session, Task
<1>3. LET a == [s.active EXCEPT !.memory = owner]
      IN /\ a \in Task
         /\ a.id = s.active.id /\ a.slots = s.active.slots
         /\ a.memory = owner /\ a.pending = s.active.pending
         /\ a.turns = s.active.turns
  BY <1>1 DEF Task
<1> QED  BY <1>2, <1>3

-----------------------------------------------------------------------------
LEMMA EmptySessionType == WellFormed(EmptySession)
  BY DepthAssumption DEF WellFormed, EmptySession, Session

LEMMA InitTaskType ==
  ASSUME NEW s, WellFormed(s), NEW id \in Requests, NEW slots \in Slots
  PROVE  /\ WellFormed(InitTask(s, id, slots))
         /\ InitTask(s, id, slots).active \in Task
<1>1. NewTask(id, slots) \in Task
  BY TimeoutAssumption DEF NewTask, Task
<1> QED  BY <1>1, SetActiveType DEF InitTask

LEMMA SuspendTaskType ==
  ASSUME NEW s, WellFormed(s)
  PROVE  WellFormed(SuspendTask(s))
<1>1. CASE s.active = None
  BY <1>1 DEF SuspendTask
<1>2. CASE s.active # None
  <2> DEFINE more == Append(s.suspended, s.active)
  <2>1. s \in Session /\ s.active \in Task /\ s.suspended \in Seq(Task)
    BY <1>2 DEF WellFormed, Session
  <2>2. more \in Seq(Task)
    BY <2>1
  <2>3. /\ LastN(more, SuspendedDepth) \in Seq(Task)
        /\ Len(LastN(more, SuspendedDepth)) <= SuspendedDepth
    BY <2>2, LastNFacts, DepthAssumption
  <2>4. SuspendTask(s) = [s EXCEPT !.suspended = LastN(more, SuspendedDepth),
                                   !.active = None]
    BY <1>2, <2>1 DEF SuspendTask, Session
  <2> QED  BY <2>1, <2>3, <2>4 DEF WellFormed, Session
<1> QED  BY <1>1, <1>2

LEMMA StashTaskType ==
  ASSUME NEW s, WellFormed(s)
  PROVE  WellFormed(StashTask(s))
  BY DEF WellFormed, StashTask, Session

LEMMA RestoreLatestTaskType ==
  ASSUME NEW s, WellFormed(s)
  PROVE  WellFormed(RestoreLatestTask(s))
<1>0. s \in Session /\ s.suspended \in Seq(Task)
  BY DEF WellFormed, Session
<1>1. CASE s.stashed # None
  BY <1>1 DEF RestoreLatestTask, WellFormed, Session
<1>2. CASE s.stashed = None /\ s.suspended # <<>>
  <2> DEFINE n == Len(s.suspended)
  <2>1. n \in Nat \ {0}
    BY <1>0, <1>2
  <2>2. /\ s.suspended[n] \in Task
        /\ SubSeq(s.suspended, 1, n - 1) \in Seq(Task)
        /\ Len(SubSeq(s.suspended, 1, n - 1)) = n - 1
    BY <1>0, <2>1
  <2>3. RestoreLatestTask(s) =
          [s EXCEPT !.active = s.suspended[n],
                    !.suspended = SubSeq(s.suspended, 1, n - 1)]
    BY <1>0, <1>2 DEF RestoreLatestTask, Session
  <2>4. n - 1 <= SuspendedDepth
    BY <2>1, DepthAssumption DEF WellFormed
  <2> HIDE DEF n
  <2> QED  BY <1>0, <2>2, <2>3, <2>4 DEF WellFormed, Session
<1>3. CASE s.stashed = None /\ s.suspended = <<>>
  BY <1>3, SetActiveType DEF RestoreLatestTask
<1> QED  BY <1>1, <1>2, <1>3

LEMMA ClearTaskType ==
  ASSUME NEW s, WellFormed(s)
  PROVE  WellFormed(ClearTask(s))
  BY SetActiveType DEF ClearTask

LEMMA DropConfirmationType ==
  ASSUME NEW s, WellFormed(s), s.active # None
  PROVE  /\ WellFormed(DropConfirmation(s))
         /\ DropConfirmation(s).active \in Task
<1>1. PICK a \in Task : DropConfirmation(s) = [s EXCEPT !.active = a]
  BY DropConfirmationActive
<1>2. WellFormed([s EXCEPT !.active = a]) /\ [s EXCEPT !.active = a].active = a
  BY SetActiveType
<1> QED  BY <1>1, <1>2

LEMMA UpdateSlotsType ==
  ASSUME NEW s, WellFormed(s), s.active # None, NEW slots \in Slots
  PROVE  /\ WellFormed(UpdateSlots(s, slots))
         /\ UpdateSlots(s, slots).active \in Task
<1>1. PICK a \in Task : UpdateSlots(s, slots) = [s EXCEPT !.active = a]
  BY UpdateSlotsActive
<1>2. WellFormed([s EXCEPT !.active = a]) /\ [s EXCEPT !.active = a].active = a
  BY SetActiveType
<1> QED  BY <1>1, <1>2

LEMMA SetAwaitingConfirmationType ==
  ASSUME NEW s, WellFormed(s), s.active # None, NEW c \in Pending
  PROVE  WellFormed(SetAwaitingConfirmation(s, c))
<1>1. PICK a \in Task : SetAwaitingConfirmation(s, c) = [s EXCEPT !.active = a]
  BY SetAwaitingConfirmationActive
<1>2. WellFormed([s EXCEPT !.active = a])
  BY SetActiveType
<1> QED  BY <1>1, <1>2

LEMMA BumpConfirmationTurnsType ==
  ASSUME NEW s, WellFormed(s)
  PROVE  WellFormed(BumpConfirmationTurns(s))
<1>1. CASE ~Awaiting(s.active)
  BY <1>1 DEF BumpConfirmationTurns
<1>2. CASE Awaiting(s.active)
  BY <1>2, BumpConfirmationTurnsActive, SetActiveType
<1> QED  BY <1>1, <1>2

LEMMA UpdatePlannerMemoryType ==
  ASSUME NEW s, WellFormed(s), s.active # None, NEW owner \in Requests
  PROVE  WellFormed(UpdatePlannerMemory(s, owner))
<1>1. PICK a \in Task : UpdatePlannerMemory(s, owner) = [s EXCEPT !.active = a]
  BY UpdatePlannerMemoryActive
<1>2. WellFormed([s EXCEPT !.active = a])
  BY SetActiveType
<1> QED  BY <1>1, <1>2

LEMMA UnclearType ==
  ASSUME NEW s, WellFormed(s)
  PROVE  WellFormed(BumpUnclear(s)) /\ WellFormed(AppendMessages(s))
  BY DEF WellFormed, BumpUnclear, AppendMessages, Session

-----------------------------------------------------------------------------
(***************************************************************************)
(* Tasks move and are dropped; they are not copied.                        *)
(***************************************************************************)
LEMMA PlacesFacts ==
  ASSUME NEW s, WellFormed(s)
  PROVE  /\ Len(s.suspended) \in Nat
         /\ 0 \in Places(s) /\ -1 \in Places(s)
         /\ \A p \in Places(s) : p \in Int
         /\ \A p \in Places(s) : p # 0 /\ p # -1 => p \in 1 .. Len(s.suspended)
         /\ \A p \in Places(s) : TaskAt(s, p) \in Task \cup {None}
<1>1. /\ s.suspended \in Seq(Task)
      /\ s.active \in Task \cup {None}
      /\ s.stashed \in Task \cup {None}
      /\ Len(s.suspended) \in Nat
  BY DEF WellFormed, Session
<1>2. \A p \in Places(s) : p # 0 /\ p # -1 => p \in 1 .. Len(s.suspended)
  BY <1>1 DEF Places
<1>3. \A p \in 1 .. Len(s.suspended) : s.suspended[p] \in Task
  BY <1>1
<1> QED  BY <1>1, <1>2, <1>3 DEF Places, TaskAt

\* What is true of the places of a session is true of one that comes from it.
LEMMA ComesKeeps ==
  ASSUME NEW s, NEW t, Comes(t, s)
  PROVE  /\ TaskIds(t) \subseteq TaskIds(s)
         /\ LiveTokens(t) \subseteq LiveTokens(s)
         /\ DistinctTasks(s) => DistinctTasks(t)
         /\ DistinctTokens(s) => DistinctTokens(t)
<1>1. PICK f \in [Places(t) -> Places(s)] :
        /\ \A p \in Places(t) : TaskAt(t, p) # None => SameTask(t, p, s, f[p])
        /\ \A p, q \in Places(t) :
             p # q /\ TaskAt(t, p) # None /\ TaskAt(t, q) # None => f[p] # f[q]
  BY DEF Comes
<1>2. \A p \in Places(t) : f[p] \in Places(s)
  BY <1>1
<1>3. TaskIds(t) \subseteq TaskIds(s)
  BY <1>1, <1>2 DEF TaskIds, SameTask
<1>4. LiveTokens(t) \subseteq LiveTokens(s)
  BY <1>1, <1>2 DEF LiveTokens, SameTask, Awaiting
<1>5. DistinctTasks(s) => DistinctTasks(t)
  BY <1>1, <1>2 DEF DistinctTasks, SameTask
<1>6. DistinctTokens(s) => DistinctTokens(t)
  BY <1>1, <1>2 DEF DistinctTokens, SameTask, Awaiting
<1> QED  BY <1>3, <1>4, <1>5, <1>6

LEMMA RearrangedFacts ==
  ASSUME NEW s, NEW t, Rearranged(t, s)
  PROVE  Comes(t, s) /\ Tasks(t) \subseteq Tasks(s)
<1>1. PICK f \in [Places(t) -> Places(s)] :
        /\ \A p \in Places(t) : TaskAt(t, p) # None => TaskAt(t, p) = TaskAt(s, f[p])
        /\ \A p, q \in Places(t) :
             p # q /\ TaskAt(t, p) # None /\ TaskAt(t, q) # None => f[p] # f[q]
  BY DEF Rearranged
<1>2. \A p \in Places(t) : TaskAt(t, p) # None => SameTask(t, p, s, f[p])
  BY <1>1 DEF SameTask
<1>3. Comes(t, s)
  BY <1>1, <1>2 DEF Comes
<1>4. \A p \in Places(t) : f[p] \in Places(s)
  BY <1>1
<1>5. Tasks(t) \subseteq Tasks(s)
  BY <1>1, <1>4 DEF Tasks
<1> QED  BY <1>3, <1>5

\* Replacing the active task leaves the other places alone.
LEMMA SetActivePlaces ==
  ASSUME NEW s, WellFormed(s), NEW a, NEW t, t = [s EXCEPT !.active = a]
  PROVE  /\ t.active = a /\ t.stashed = s.stashed
         /\ Places(t) = Places(s)
         /\ TaskAt(t, 0) = a
         /\ \A p \in Places(s) : p # 0 => TaskAt(t, p) = TaskAt(s, p)
         /\ Tasks(t) \subseteq Tasks(s) \cup {a}
<1>1. t.active = a /\ t.stashed = s.stashed /\ t.suspended = s.suspended
  BY DEF WellFormed, Session
<1>2. /\ Places(t) = Places(s)
      /\ TaskAt(t, 0) = a
      /\ \A p \in Places(s) : p # 0 => TaskAt(t, p) = TaskAt(s, p)
  BY <1>1 DEF Places, TaskAt
<1>3. Tasks(t) \subseteq Tasks(s) \cup {a}
  BY <1>2 DEF Tasks
<1> QED  BY <1>1, <1>2, <1>3

LEMMA DropActiveRearranges ==
  ASSUME NEW s, WellFormed(s)
  PROVE  Rearranged([s EXCEPT !.active = None], s)
<1> DEFINE t == [s EXCEPT !.active = None]
           f == [p \in Places(t) |-> p]
<1>1. /\ Places(t) = Places(s)
      /\ TaskAt(t, 0) = None
      /\ \A p \in Places(s) : p # 0 => TaskAt(t, p) = TaskAt(s, p)
  BY SetActivePlaces
<1>2. f \in [Places(t) -> Places(s)]
  BY <1>1
<1>3. \A p \in Places(t) : TaskAt(t, p) # None => TaskAt(t, p) = TaskAt(s, f[p])
  BY <1>1
<1>4. \A p, q \in Places(t) : p # q => f[p] # f[q]
  OBVIOUS
<1> HIDE DEF f, t
<1>5. Rearranged(t, s)
  BY <1>2, <1>3, <1>4 DEF Rearranged
<1> QED  BY <1>5 DEF t

\* An active task that keeps its name and gains no token stays itself.
LEMMA SetActiveComes ==
  ASSUME NEW s, WellFormed(s), NEW a \in Task \cup {None},
         a # None => /\ s.active # None
                     /\ a.id = s.active.id
                     /\ a.pending # None => /\ s.active.pending # None
                                            /\ a.pending.token = s.active.pending.token
  PROVE  Comes([s EXCEPT !.active = a], s)
<1> DEFINE t == [s EXCEPT !.active = a]
           f == [p \in Places(t) |-> p]
<1>1. t.active = a /\ t.stashed = s.stashed /\ t.suspended = s.suspended
  BY DEF WellFormed, Session
<1>2. Places(t) = Places(s)
  BY <1>1 DEF Places
<1>3. f \in [Places(t) -> Places(s)]
  BY <1>2
<1>4. \A p \in Places(t) : TaskAt(t, p) # None => SameTask(t, p, s, f[p])
  <2> SUFFICES ASSUME NEW p \in Places(t), TaskAt(t, p) # None
               PROVE  SameTask(t, p, s, p)
    OBVIOUS
  <2>1. CASE p = 0
    BY <1>1, <2>1 DEF TaskAt, SameTask, Awaiting
  <2>2. CASE p # 0
    BY <1>1, <2>2 DEF TaskAt, SameTask, Awaiting
  <2> QED  BY <2>1, <2>2
<1>5. \A p, q \in Places(t) :
        p # q /\ TaskAt(t, p) # None /\ TaskAt(t, q) # None => f[p] # f[q]
  OBVIOUS
<1> HIDE DEF f, t
<1>6. Comes(t, s)
  BY <1>3, <1>4, <1>5 DEF Comes
<1> QED  BY <1>6 DEF t

LEMMA UnclearRearranges ==
  ASSUME NEW s, WellFormed(s), NEW n
  PROVE  Rearranged([s EXCEPT !.unclear = n], s)
<1> DEFINE t == [s EXCEPT !.unclear = n]
           f == [p \in Places(t) |-> p]
<1>1. t.active = s.active /\ t.stashed = s.stashed /\ t.suspended = s.suspended
  BY DEF WellFormed, Session
<1>2. Places(t) = Places(s) /\ \A p : TaskAt(t, p) = TaskAt(s, p)
  BY <1>1 DEF Places, TaskAt
<1>3. f \in [Places(t) -> Places(s)]
  BY <1>2
<1>4. \A p \in Places(t) : TaskAt(t, p) # None => TaskAt(t, p) = TaskAt(s, f[p])
  BY <1>2
<1>5. \A p, q \in Places(t) :
        p # q /\ TaskAt(t, p) # None /\ TaskAt(t, q) # None => f[p] # f[q]
  OBVIOUS
<1> HIDE DEF f, t
<1>6. Rearranged(t, s)
  BY <1>3, <1>4, <1>5 DEF Rearranged
<1> QED  BY <1>6 DEF t

LEMMA StashTaskRearranges ==
  ASSUME NEW s, WellFormed(s)
  PROVE  Rearranged(StashTask(s), s)
<1> DEFINE t == StashTask(s)
           f == [p \in Places(t) |-> IF p = -1 THEN 0 ELSE IF p = 0 THEN -1 ELSE p]
<1>1. t.active = None /\ t.stashed = s.active /\ t.suspended = s.suspended
  BY DEF WellFormed, Session, StashTask
<1>2. Places(t) = Places(s)
  BY <1>1 DEF Places
<1>3. f \in [Places(t) -> Places(s)]
  BY <1>2, PlacesFacts
<1>4. \A p \in Places(t) : TaskAt(t, p) # None => TaskAt(t, p) = TaskAt(s, f[p])
  BY <1>1, <1>2, PlacesFacts DEF TaskAt
<1>5. \A p, q \in Places(t) :
        p # q /\ TaskAt(t, p) # None /\ TaskAt(t, q) # None => f[p] # f[q]
  BY <1>2, PlacesFacts
<1> HIDE DEF f, t
<1>6. Rearranged(t, s)
  BY <1>3, <1>4, <1>5 DEF Rearranged
<1> QED  BY <1>6 DEF t

LEMMA SuspendTaskRearranges ==
  ASSUME NEW s, WellFormed(s)
  PROVE  Rearranged(SuspendTask(s), s)
<1>1. CASE s.active = None
  <2>1. [s EXCEPT !.active = None] = s
    BY <1>1 DEF WellFormed, Session
  <2> QED  BY <1>1, <2>1, DropActiveRearranges DEF SuspendTask
<1>2. CASE s.active # None
  <2> DEFINE more == Append(s.suspended, s.active)
             kept == LastN(more, SuspendedDepth)
             t == SuspendTask(s)
             n == Len(s.suspended)
             cut == n + 1 - Len(kept)
             f == [p \in Places(t) |->
                     IF p <= 0 THEN p ELSE IF p + cut = n + 1 THEN 0 ELSE p + cut]
  <2>1. s \in Session /\ s.active \in Task /\ s.suspended \in Seq(Task) /\ n \in Nat
    BY <1>2 DEF WellFormed, Session
  <2>2. /\ more \in Seq(Task)
        /\ Len(more) = n + 1
        /\ \A i \in 1 .. n : more[i] = s.suspended[i]
        /\ more[n + 1] = s.active
    BY <2>1
  <2>3. /\ Len(kept) \in Nat
        /\ Len(kept) <= n + 1
        /\ \A i \in 1 .. Len(kept) : kept[i] = more[i + cut]
    <3> HIDE DEF more
    <3>1. /\ kept \in Seq(Task)
          /\ Len(kept) <= Len(more)
          /\ \A i \in 1 .. Len(kept) : kept[i] = more[i + Len(more) - Len(kept)]
      BY <2>2, LastNFacts, DepthAssumption
    <3>2. Len(kept) \in Nat
      BY <3>1
    <3>3. \A i \in 1 .. Len(kept) : i + Len(more) - Len(kept) = i + cut
      BY <2>1, <2>2, <3>2
    <3> QED  BY <2>2, <3>1, <3>2, <3>3
  <2>4. t.active = None /\ t.stashed = s.stashed /\ t.suspended = kept
    BY <1>2, <2>1 DEF SuspendTask, Session
  <2>5. cut \in Nat
    BY <2>1, <2>3
  <2> HIDE DEF more, kept, cut, n, t
  <2>6. Places(t) = -1 .. Len(kept) /\ Places(s) = -1 .. n
    BY <2>4 DEF Places, n
  <2>7. cut = n + 1 - Len(kept)
    BY DEF cut
  <2>8. f \in [Places(t) -> Places(s)]
    <3>1. ASSUME NEW p \in Places(t)
          PROVE  (IF p <= 0 THEN p ELSE IF p + cut = n + 1 THEN 0 ELSE p + cut)
                   \in Places(s)
      <4>1. n \in Nat /\ Len(kept) \in Nat /\ cut \in Nat /\ p \in Int
        BY <2>1, <2>3, <2>5, <2>6
      <4>2. p <= Len(kept) /\ -1 <= p
        BY <2>6, <4>1
      <4>3. CASE p <= 0
        BY <2>6, <4>1, <4>2, <4>3
      <4>4. CASE ~(p <= 0) /\ p + cut = n + 1
        BY <2>6, <4>1, <4>4
      <4>5. CASE ~(p <= 0) /\ p + cut # n + 1
        <5>1. p + cut \in -1 .. n
          BY <2>7, <4>1, <4>2, <4>5
        <5> QED  BY <2>6, <4>5, <5>1
      <4> QED  BY <4>3, <4>4, <4>5
    <3> QED  BY <3>1
  <2>9. \A p \in Places(t) : TaskAt(t, p) # None => TaskAt(t, p) = TaskAt(s, f[p])
    <3> SUFFICES ASSUME NEW p \in Places(t), TaskAt(t, p) # None
                 PROVE  TaskAt(t, p) = TaskAt(s, f[p])
      OBVIOUS
    <3>1. CASE p = -1
      BY <2>4, <3>1 DEF TaskAt
    <3>2. CASE p = 0
      BY <2>4, <3>2 DEF TaskAt
    <3>3. CASE p >= 1
      <4>1. p \in 1 .. Len(kept) /\ p + cut \in 1 .. n + 1
        BY <2>1, <2>3, <2>5, <2>6, <2>7, <3>3
      <4>2. TaskAt(t, p) = more[p + cut]
        BY <2>3, <2>4, <3>3, <4>1 DEF TaskAt
      <4>3. CASE p + cut = n + 1
        <5>1. ~(p <= 0)
          BY <2>3, <4>1
        <5>2. f[p] = 0
          BY <4>3, <5>1
        <5> QED  BY <2>2, <4>2, <4>3, <5>2 DEF TaskAt
      <4>4. CASE p + cut # n + 1
        <5>1. p + cut \in 1 .. n
          BY <2>1, <4>1, <4>4
        <5>2. ~(p <= 0)
          BY <2>3, <4>1
        <5>3. f[p] = p + cut
          BY <4>4, <5>2
        <5> QED  BY <2>1, <2>2, <4>2, <5>1, <5>3 DEF TaskAt
      <4> QED  BY <4>3, <4>4
    <3> QED  BY <2>3, <2>6, <3>1, <3>2, <3>3
  <2>10. \A p, q \in Places(t) :
           p # q /\ TaskAt(t, p) # None /\ TaskAt(t, q) # None => f[p] # f[q]
    <3>1. TaskAt(t, 0) = None
      BY <2>4 DEF TaskAt
    <3>2. \A p \in Places(t) : TaskAt(t, p) # None => p = -1 \/ p \in 1 .. Len(kept)
      BY <2>3, <2>6, <3>1
    <3> QED  BY <2>1, <2>3, <2>5, <2>6, <2>7, <3>2
  <2> HIDE DEF f
  <2>11. Rearranged(t, s)
    BY <2>8, <2>9, <2>10 DEF Rearranged
  <2> QED  BY <2>11 DEF t
<1> QED  BY <1>1, <1>2

LEMMA ClearTaskRearranges ==
  ASSUME NEW s, WellFormed(s)
  PROVE  Rearranged(ClearTask(s), s)
  BY DropActiveRearranges DEF ClearTask

LEMMA RestoreLatestTaskRearranges ==
  ASSUME NEW s, WellFormed(s)
  PROVE  Rearranged(RestoreLatestTask(s), s)
<1> DEFINE t == RestoreLatestTask(s)
           n == Len(s.suspended)
<1>0. s \in Session /\ s.suspended \in Seq(Task) /\ n \in Nat
  BY DEF WellFormed, Session
<1>1. CASE s.stashed # None
  <2> DEFINE f == [p \in Places(t) |-> IF p = 0 THEN -1 ELSE IF p = -1 THEN 0 ELSE p]
  <2>1. t.active = s.stashed /\ t.stashed = None /\ t.suspended = s.suspended
    BY <1>0, <1>1 DEF RestoreLatestTask, Session
  <2>2. Places(t) = Places(s)
    BY <2>1 DEF Places
  <2>3. f \in [Places(t) -> Places(s)]
    BY <2>2, PlacesFacts
  <2>4. \A p \in Places(t) : TaskAt(t, p) # None => TaskAt(t, p) = TaskAt(s, f[p])
    BY <2>1, <2>2, PlacesFacts DEF TaskAt
  <2>5. \A p, q \in Places(t) :
          p # q /\ TaskAt(t, p) # None /\ TaskAt(t, q) # None => f[p] # f[q]
    BY <2>2, PlacesFacts
  <2> HIDE DEF f, t
  <2>6. Rearranged(t, s)
    BY <2>3, <2>4, <2>5 DEF Rearranged
  <2> QED  BY <2>6 DEF t
<1>2. CASE s.stashed = None /\ s.suspended # <<>>
  <2> DEFINE f == [p \in Places(t) |-> IF p = 0 THEN n ELSE p]
             left == SubSeq(s.suspended, 1, n - 1)
  <2>1. n \in Nat \ {0}
    BY <1>0, <1>2
  <2>2. /\ Len(left) = n - 1
        /\ \A i \in 1 .. n - 1 : left[i] = s.suspended[i]
    BY <1>0, <2>1
  <2>3. t.active = s.suspended[n] /\ t.stashed = None /\ t.suspended = left
    BY <1>0, <1>2 DEF RestoreLatestTask, Session
  <2> HIDE DEF left, n, t
  <2>4. Places(t) = -1 .. n - 1 /\ Places(s) = -1 .. n
    BY <2>2, <2>3 DEF Places, n
  <2>5. f \in [Places(t) -> Places(s)]
    BY <2>1, <2>4
  <2>6. \A p \in Places(t) : TaskAt(t, p) # None => TaskAt(t, p) = TaskAt(s, f[p])
    <3> SUFFICES ASSUME NEW p \in Places(t), TaskAt(t, p) # None
                 PROVE  TaskAt(t, p) = TaskAt(s, f[p])
      OBVIOUS
    <3>1. p # -1
      BY <2>3 DEF TaskAt
    <3>2. CASE p = 0
      BY <2>1, <2>3, <3>2 DEF TaskAt
    <3>3. CASE p # 0
      <4>1. p \in 1 .. n - 1
        BY <2>1, <2>4, <3>1, <3>3
      <4> QED  BY <2>2, <2>3, <3>1, <3>3, <4>1 DEF TaskAt
    <3> QED  BY <3>2, <3>3
  <2>7. \A p, q \in Places(t) :
          p # q /\ TaskAt(t, p) # None /\ TaskAt(t, q) # None => f[p] # f[q]
    BY <2>1, <2>4
  <2> HIDE DEF f
  <2>8. Rearranged(t, s)
    BY <2>5, <2>6, <2>7 DEF Rearranged
  <2> QED  BY <2>8 DEF t
<1>3. CASE s.stashed = None /\ s.suspended = <<>>
  BY <1>3, DropActiveRearranges DEF RestoreLatestTask
<1> QED  BY <1>1, <1>2, <1>3

LEMMA DropConfirmationComes ==
  ASSUME NEW s, WellFormed(s), s.active # None
  PROVE  Comes(DropConfirmation(s), s)
  BY DropConfirmationActive, SetActiveComes

LEMMA UpdateSlotsComes ==
  ASSUME NEW s, WellFormed(s), s.active # None, NEW slots \in Slots
  PROVE  Comes(UpdateSlots(s, slots), s)
  BY UpdateSlotsActive, SetActiveComes

LEMMA BumpConfirmationTurnsComes ==
  ASSUME NEW s, WellFormed(s)
  PROVE  Comes(BumpConfirmationTurns(s), s)
<1>1. CASE ~Awaiting(s.active)
  <2>1. s = [s EXCEPT !.active = s.active] /\ s.active \in Task \cup {None}
    BY DEF WellFormed, Session
  <2> QED  BY <1>1, <2>1, SetActiveComes DEF BumpConfirmationTurns
<1>2. CASE Awaiting(s.active)
  BY <1>2, BumpConfirmationTurnsActive, SetActiveComes DEF Awaiting
<1> QED  BY <1>1, <1>2

LEMMA UpdatePlannerMemoryComes ==
  ASSUME NEW s, WellFormed(s), s.active # None, NEW owner \in Requests
  PROVE  Comes(UpdatePlannerMemory(s, owner), s)
<1>1. PICK a \in Task : /\ UpdatePlannerMemory(s, owner) = [s EXCEPT !.active = a]
                        /\ a.id = s.active.id /\ a.pending = s.active.pending
  BY UpdatePlannerMemoryActive
<1>2. Comes([s EXCEPT !.active = a], s)
  BY <1>1, SetActiveComes
<1> QED  BY <1>1, <1>2

-----------------------------------------------------------------------------
(***************************************************************************)
(* New tasks, new tokens, released tokens.                                 *)
(***************************************************************************)
LEMMA InitTaskAdds ==
  ASSUME NEW s, WellFormed(s), NEW id \in Requests, NEW slots \in Slots
  PROVE  /\ TaskIds(InitTask(s, id, slots)) \subseteq TaskIds(s) \cup {id}
         /\ LiveTokens(InitTask(s, id, slots)) \subseteq LiveTokens(s)
         /\ DistinctTasks(s) /\ id \notin TaskIds(s)
              => DistinctTasks(InitTask(s, id, slots))
         /\ DistinctTokens(s) => DistinctTokens(InitTask(s, id, slots))
<1> DEFINE t == InitTask(s, id, slots)
<1>1. /\ t.active = NewTask(id, slots)
      /\ t.stashed = s.stashed
      /\ t.suspended = s.suspended
  BY DEF InitTask, WellFormed, Session
<1>2. t.active.id = id /\ t.active.pending = None
  BY <1>1 DEF NewTask
<1>3. Places(t) = Places(s)
  BY <1>1 DEF Places
<1>4. TaskAt(t, 0).id = id /\ ~Awaiting(TaskAt(t, 0))
  BY <1>2 DEF TaskAt, Awaiting
<1>5. \A p \in Places(s) : p # 0 => TaskAt(t, p) = TaskAt(s, p)
  BY <1>1 DEF TaskAt
<1> HIDE DEF t
<1>6. TaskIds(t) \subseteq TaskIds(s) \cup {id}
  BY <1>3, <1>4, <1>5 DEF TaskIds
<1>7. LiveTokens(t) \subseteq LiveTokens(s)
  BY <1>3, <1>4, <1>5 DEF LiveTokens
<1>8. DistinctTasks(s) /\ id \notin TaskIds(s) => DistinctTasks(t)
  BY <1>3, <1>4, <1>5 DEF DistinctTasks, TaskIds
<1>9. DistinctTokens(s) => DistinctTokens(t)
  BY <1>3, <1>4, <1>5 DEF DistinctTokens
<1> QED  BY <1>6, <1>7, <1>8, <1>9 DEF t

LEMMA SetAwaitingConfirmationAdds ==
  ASSUME NEW s, WellFormed(s), s.active # None, NEW c \in Pending
  PROVE  /\ TaskIds(SetAwaitingConfirmation(s, c)) \subseteq TaskIds(s)
         /\ LiveTokens(SetAwaitingConfirmation(s, c)) \subseteq LiveTokens(s) \cup {c.token}
         /\ DistinctTasks(s) => DistinctTasks(SetAwaitingConfirmation(s, c))
         /\ DistinctTokens(s) /\ c.token \notin LiveTokens(s)
              => DistinctTokens(SetAwaitingConfirmation(s, c))
<1> DEFINE t == SetAwaitingConfirmation(s, c)
<1>1. s \in Session /\ s.active \in Task
  BY DEF WellFormed, Session
<1>2. /\ t.active = [s.active EXCEPT !.pending = c, !.turns = 0]
      /\ t.stashed = s.stashed
      /\ t.suspended = s.suspended
  BY <1>1 DEF SetAwaitingConfirmation, Session
<1>3. t.active.id = s.active.id /\ t.active.pending = c
  BY <1>1, <1>2 DEF Task
<1>4. Places(t) = Places(s)
  BY <1>2 DEF Places
<1>5. /\ TaskAt(t, 0).id = TaskAt(s, 0).id
      /\ TaskAt(s, 0) # None
      /\ TaskAt(t, 0).pending.token = c.token
  BY <1>3 DEF TaskAt
<1>6. \A p \in Places(s) : p # 0 => TaskAt(t, p) = TaskAt(s, p)
  BY <1>2 DEF TaskAt
<1>7. \A p \in Places(s) : p # 0 /\ Awaiting(TaskAt(t, p))
        => TaskAt(t, p).pending.token \in LiveTokens(s)
  BY <1>6 DEF LiveTokens
<1> HIDE DEF t
<1>8. TaskIds(t) \subseteq TaskIds(s)
  BY <1>4, <1>5, <1>6, PlacesFacts DEF TaskIds
<1>9. LiveTokens(t) \subseteq LiveTokens(s) \cup {c.token}
  BY <1>4, <1>5, <1>7 DEF LiveTokens
<1>10. DistinctTasks(s) => DistinctTasks(t)
  BY <1>4, <1>5, <1>6, PlacesFacts DEF DistinctTasks
<1>11. DistinctTokens(s) /\ c.token \notin LiveTokens(s) => DistinctTokens(t)
  BY <1>4, <1>5, <1>6, <1>7 DEF DistinctTokens
<1> QED  BY <1>8, <1>9, <1>10, <1>11 DEF t

\* A dropped confirmation is pending nowhere any more.
LEMMA DropConfirmationRemoves ==
  ASSUME NEW s, WellFormed(s), Awaiting(s.active), DistinctTokens(s)
  PROVE  s.active.pending.token \notin LiveTokens(DropConfirmation(s))
<1> DEFINE t == DropConfirmation(s)
<1>1. s \in Session /\ s.active \in Task
  BY DEF WellFormed, Session, Awaiting
<1>2. /\ t.active = ClearConfirmation(s.active)
      /\ t.stashed = s.stashed
      /\ t.suspended = s.suspended
  BY <1>1 DEF DropConfirmation, Session
<1>3. ~Awaiting(TaskAt(t, 0))
  BY <1>1, <1>2 DEF ClearConfirmation, Task, TaskAt, Awaiting
<1>4. Places(t) = Places(s)
  BY <1>2 DEF Places
<1>5. \A p \in Places(s) : p # 0 => TaskAt(t, p) = TaskAt(s, p)
  BY <1>2 DEF TaskAt
<1>6. TaskAt(s, 0) = s.active /\ 0 \in Places(s)
  BY PlacesFacts DEF TaskAt
<1> HIDE DEF t
<1>7. s.active.pending.token \notin LiveTokens(t)
  BY <1>3, <1>4, <1>5, <1>6 DEF LiveTokens, DistinctTokens
<1> QED  BY <1>7 DEF t

\* Replacing the active task takes no other task's token away.
LEMMA SetActiveTokens ==
  ASSUME NEW s, WellFormed(s), NEW a, NEW t, t = [s EXCEPT !.active = a]
  PROVE  /\ \A k \in LiveTokens(s) :
              \/ k \in LiveTokens(t)
              \/ Awaiting(s.active) /\ k = s.active.pending.token
         /\ Awaiting(a) => a.pending.token \in LiveTokens(t)
<1>1. /\ Places(t) = Places(s)
      /\ TaskAt(t, 0) = a
      /\ \A p \in Places(s) : p # 0 => TaskAt(t, p) = TaskAt(s, p)
  BY SetActivePlaces
<1>2. 0 \in Places(s) /\ TaskAt(s, 0) = s.active
  BY PlacesFacts DEF TaskAt
<1>3. ASSUME NEW k \in LiveTokens(s), k \notin LiveTokens(t)
      PROVE  Awaiting(s.active) /\ k = s.active.pending.token
  <2>1. PICK p \in Places(s) : Awaiting(TaskAt(s, p)) /\ k = TaskAt(s, p).pending.token
    BY DEF LiveTokens
  <2>2. p = 0
    BY <1>1, <1>3, <2>1 DEF LiveTokens
  <2> QED  BY <1>2, <2>1, <2>2
<1>4. Awaiting(a) => a.pending.token \in LiveTokens(t)
  BY <1>1, <1>2 DEF LiveTokens
<1> QED  BY <1>3, <1>4
=============================================================================
