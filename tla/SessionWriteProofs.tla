------------------------ MODULE SessionWriteProofs ------------------------
(***************************************************************************)
(* _atomic_session_write is atomic, for any number of requests and any     *)
(* number of retries.                                                      *)
(***************************************************************************)
EXTENDS SessionWrite, SessionStateProofs, FiniteSetTheorems

\* The session a GET returned is still the stored one unless the key was
\* touched: then EXEC writes what the modifier makes of the session there is.
Fresh ==
  \A r \in Requests :
    pc[r] = "exec" /\ r \notin dirty =>
      /\ session # None
      /\ raw[r] = session
      /\ ~Refuses(op[r], session)

\* A call under way has an attempt left.
AttemptsLeft ==
  \A r \in Requests : pc[r] \in {"watch", "get", "exec"} => tries[r] < MaxRetries

LEMMA WaitingType ==
  ASSUME NEW id \in Requests, NEW slots \in Slots,
         NEW n \in 0 .. ConfirmationTimeoutTurns - 1
  PROVE  WellFormed(Waiting(id, slots, n))
<1> DEFINE task == [NewTask(id, slots) EXCEPT
                      !.pending = [token |-> id, task |-> id, booking |-> slots.booking],
                      !.turns = n]
<1>1. n \in 0 .. ConfirmationTimeoutTurns
  BY TimeoutAssumption
<1>2. task \in Task
  BY <1>1 DEF NewTask, Task, Pending, Slots
<1>3. Waiting(id, slots, n) = [EmptySession EXCEPT !.active = task]
  BY DEF Waiting
<1> HIDE DEF task
<1> QED  BY <1>2, <1>3, EmptySessionType, SetActiveType

LEMMA ModifiedType ==
  ASSUME NEW o \in Ops, NEW s, WellFormed(s), ~Refuses(o, s)
  PROVE  WellFormed(Modified(o, s))
<1>1. CASE o = "bump"
  BY <1>1, BumpConfirmationTurnsType DEF Modified
<1>2. CASE o = "release"
  <2>1. s.active # None
    BY <1>2 DEF Refuses, Awaiting
  <2> QED  BY <1>2, <2>1, DropConfirmationType DEF Modified
<1>3. CASE o = "suspend"
  BY <1>3, SuspendTaskType DEF Modified
<1>4. CASE o = "restore"
  BY <1>4, RestoreLatestTaskType DEF Modified
<1>5. CASE o = "clear"
  BY <1>5, ClearTaskType DEF Modified
<1>6. CASE o = "append"
  BY <1>6, UnclearType DEF Modified
<1> QED  BY <1>1, <1>2, <1>3, <1>4, <1>5, <1>6 DEF Ops

LEMMA WriteInit == Init => TypeOK /\ Fresh /\ AttemptsLeft
<1> SUFFICES ASSUME Init PROVE TypeOK /\ Fresh /\ AttemptsLeft
  OBVIOUS
<1>1. WellFormed(session)
  BY WaitingType DEF Init, Initial
<1>2. 0 \in 0 .. MaxRetries /\ 0 < MaxRetries
  BY MaxRetriesAssumption
<1>3. TypeOK
  BY <1>1, <1>2 DEF Init, TypeOK, WellFormed
<1>4. Fresh /\ AttemptsLeft
  BY <1>2 DEF Init, Fresh, AttemptsLeft
<1> QED  BY <1>3, <1>4

LEMMA WriteStep ==
  ASSUME TypeOK, Fresh, AttemptsLeft, [Next]_vars
  PROVE  TypeOK' /\ Fresh' /\ AttemptsLeft'
<1> USE DEF Goto
<1>1. ASSUME NEW r \in Requests, Watch(r) \/ GetNothing(r) \/ GetRefused(r)
      PROVE  TypeOK' /\ Fresh' /\ AttemptsLeft'
  <2>1. TypeOK'
    BY <1>1 DEF Watch, GetNothing, GetRefused, TypeOK, Atomic!Raises
  <2>2. Fresh'
    BY <1>1 DEF Watch, GetNothing, GetRefused, TypeOK, Fresh
  <2>3. AttemptsLeft'
    BY <1>1 DEF Watch, GetNothing, GetRefused, TypeOK, AttemptsLeft
  <2> QED  BY <2>1, <2>2, <2>3
<1>2. ASSUME NEW r \in Requests, Get(r) PROVE TypeOK' /\ Fresh' /\ AttemptsLeft'
  <2>1. BumpExpires(session) \in BOOLEAN
    BY DEF BumpExpires
  <2>2. (expired[r] \/ (op[r] = "bump" /\ BumpExpires(session))) \in BOOLEAN
    BY <2>1 DEF TypeOK
  <2>3. TypeOK'
    BY <1>2, <2>2 DEF Get, TypeOK
  <2>4. Fresh'
    BY <1>2 DEF Get, TypeOK, Fresh
  <2>5. AttemptsLeft'
    BY <1>2 DEF Get, TypeOK, AttemptsLeft
  <2> QED  BY <2>3, <2>4, <2>5
<1>3. ASSUME NEW r \in Requests, Exec(r) PROVE TypeOK' /\ Fresh' /\ AttemptsLeft'
  <2>1. WellFormed(session) /\ ~Refuses(op[r], session) /\ raw[r] = session
    BY <1>3 DEF Exec, Fresh, TypeOK, WellFormed
  <2>2. op[r] \in Ops
    BY DEF TypeOK
  <2>3. WellFormed(session')
    BY <1>3, <2>1, <2>2, ModifiedType DEF Exec
  <2>4. TypeOK'
    BY <1>3, <2>3 DEF Exec, TypeOK, Watching, WellFormed
  <2>5. Fresh'
    BY <1>3 DEF Exec, TypeOK, Fresh, Watching
  <2>6. AttemptsLeft'
    BY <1>3 DEF Exec, TypeOK, AttemptsLeft
  <2> QED  BY <2>4, <2>5, <2>6
<1>4. ASSUME NEW r \in Requests, Retry(r) PROVE TypeOK' /\ Fresh' /\ AttemptsLeft'
  <2>1. /\ tries[r] + 1 \in 0 .. MaxRetries
        /\ tries[r] + 1 # MaxRetries => tries[r] + 1 < MaxRetries
    BY <1>4, MaxRetriesAssumption DEF Retry, TypeOK, AttemptsLeft
  <2>2. tries' = [tries EXCEPT ![r] = tries[r] + 1]
    BY <1>4 DEF Retry
  <2>3. tries' \in [Requests -> 0 .. MaxRetries] /\ tries'[r] = tries[r] + 1
    BY <2>1, <2>2 DEF TypeOK
  <2>4. TypeOK'
    BY <1>4, <2>3 DEF Retry, TypeOK, Atomic!Raises
  <2>5. Fresh'
    BY <1>4 DEF Retry, TypeOK, Fresh
  <2>6. AttemptsLeft'
    BY <1>4, <2>1, <2>2, <2>3 DEF Retry, TypeOK, AttemptsLeft
  <2> QED  BY <2>4, <2>5, <2>6
<1>5. ASSUME Expire PROVE TypeOK' /\ Fresh' /\ AttemptsLeft'
  <2>1. TypeOK'
    BY <1>5 DEF Expire, TypeOK, Watching
  <2>2. Fresh'
    BY <1>5 DEF Expire, TypeOK, Fresh, Watching
  <2>3. AttemptsLeft'
    BY <1>5 DEF Expire, AttemptsLeft
  <2> QED  BY <2>1, <2>2, <2>3
<1>6. ASSUME Age \/ UNCHANGED vars PROVE TypeOK' /\ Fresh' /\ AttemptsLeft'
  <2>1. TypeOK'
    BY <1>6 DEF Age, vars, TypeOK
  <2>2. Fresh'
    BY <1>6 DEF Age, vars, Fresh
  <2>3. AttemptsLeft'
    BY <1>6 DEF Age, vars, AttemptsLeft
  <2> QED  BY <2>1, <2>2, <2>3
<1> QED  BY <1>1, <1>2, <1>3, <1>4, <1>5, <1>6 DEF Next, Step

\* Every variable keeps its type, and no call is tried more than MaxRetries
\* times.
THEOREM WriteTypeCorrect == Spec => []TypeOK
<1> QED  BY WriteInit, WriteStep, PTL DEF Spec

-----------------------------------------------------------------------------
(***************************************************************************)
(* Refinement: an attempt that succeeds, and a call that raises, is one    *)
(* step of AtomicSession; everything else is a stuttering step of it.      *)
(***************************************************************************)
\* How a call's next point shows in its outcome.
LEMMA OutcomeStep ==
  ASSUME TypeOK, NEW r \in Requests, NEW next, Goto(r, next),
         pc[r] \in {"watch", "get", "exec"}
  PROVE  /\ next \in {"watch", "get", "exec"} => Outcome' = Outcome
         /\ next \notin {"watch", "get", "exec"} =>
              Outcome[r] = "none" /\ Outcome' = [Outcome EXCEPT ![r] = next]
<1>1. pc' = [pc EXCEPT ![r] = next] /\ pc \in [Requests -> {pc[q] : q \in Requests}]
  BY DEF Goto, TypeOK
<1> QED  BY <1>1 DEF Outcome

LEMMA AtomicStep ==
  ASSUME TypeOK, Fresh, [Next]_vars
  PROVE  [Atomic!Next]_<<session, aged, op, Outcome>>
<1> DEFINE Mapped == [Atomic!Next]_<<session, aged, op, Outcome>>
<1>1. ASSUME NEW r \in Requests, Watch(r) \/ Get(r) PROVE Mapped
  BY <1>1, OutcomeStep DEF Watch, Get
<1>2. ASSUME NEW r \in Requests, GetNothing(r) PROVE Mapped
  <2>1. Atomic!NotFound(r)
    BY <1>2, OutcomeStep DEF GetNothing, Atomic!NotFound, Atomic!Return
  <2> QED  BY <2>1 DEF Atomic!Next
<1>3. ASSUME NEW r \in Requests, GetRefused(r) PROVE Mapped
  <2>1. Atomic!Refuse(r)
    BY <1>3, OutcomeStep DEF GetRefused, Atomic!Refuse, Atomic!Return
  <2> QED  BY <2>1 DEF Atomic!Next
<1>4. ASSUME NEW r \in Requests, Exec(r) PROVE Mapped
  <2>1. Outcome[r] = "none" /\ Outcome' = [Outcome EXCEPT ![r] = "written"]
    BY <1>4, OutcomeStep DEF Exec
  <2>2. Atomic!Apply(r)
    BY <1>4, <2>1 DEF Exec, Fresh, Atomic!Apply, Atomic!Return
  <2> QED  BY <2>2 DEF Atomic!Next
<1>5. ASSUME NEW r \in Requests, Retry(r) PROVE Mapped
  <2>1. CASE tries'[r] = MaxRetries
    <3>1. Atomic!GiveUp(r)
      BY <1>5, <2>1, OutcomeStep DEF Retry, Atomic!GiveUp, Atomic!Return
    <3> QED  BY <3>1 DEF Atomic!Next
  <2>2. CASE tries'[r] # MaxRetries
    BY <1>5, <2>2, OutcomeStep DEF Retry
  <2> QED  BY <2>1, <2>2
<1>6. ASSUME Expire PROVE Mapped
  <2>1. Atomic!Expire
    BY <1>6 DEF Expire, Atomic!Expire, Outcome
  <2> QED  BY <2>1 DEF Atomic!Next
<1>7. ASSUME Age PROVE Mapped
  <2>1. Atomic!Age
    BY <1>7 DEF Age, Atomic!Age, Outcome
  <2> QED  BY <2>1 DEF Atomic!Next
<1>8. ASSUME UNCHANGED vars PROVE Mapped
  BY <1>8 DEF vars, Outcome
<1> HIDE DEF Mapped
<1>9. Mapped
  BY <1>1, <1>2, <1>3, <1>4, <1>5, <1>6, <1>7, <1>8 DEF Next, Step
<1> QED  BY <1>9 DEF Mapped

\* A call of _atomic_session_write applies its modifier in one step or raises
\* and leaves the session alone, whatever the other calls do meanwhile.
THEOREM WriteIsAtomic == Spec => ImplementsAtomic
<1>1. Init => Atomic!Init
  BY DEF Init, Atomic!Init, Outcome
<1>2. TypeOK /\ Fresh /\ AttemptsLeft /\ [Next]_vars
        => [Atomic!Next]_<<session, aged, op, Outcome>>
  BY AtomicStep
<1>3. TypeOK /\ Fresh /\ AttemptsLeft /\ [Next]_vars
        => (TypeOK /\ Fresh /\ AttemptsLeft)'
  BY WriteStep
<1>4. Spec => [][Atomic!Next]_<<session, aged, op, Outcome>>
  BY <1>2, <1>3, WriteInit, PTL DEF Spec
<1> QED  BY <1>1, <1>4, PTL DEF Spec, ImplementsAtomic, Atomic!Spec, Atomic!absVars

-----------------------------------------------------------------------------
(***************************************************************************)
(* Retries are paid for by other requests' writes.                         *)
(***************************************************************************)
Others(r) == {q \in Requests \ {r} : pc[q] = "written"}

LEMMA OthersFinite ==
  ASSUME NEW r \in Requests
  PROVE  IsFiniteSet(Others(r)) /\ Cardinality(Others(r)) \in Nat
<1>1. Others(r) \in SUBSET Requests
  BY DEF Others
<1> QED  BY <1>1, RequestsAssumption, FS_Subset, FS_CardinalityType

LEMMA RetriesStep ==
  ASSUME TypeOK, Fresh, RetriesHaveRivals, [Next]_vars
  PROVE  RetriesHaveRivals'
<1> SUFFICES ASSUME NEW q \in Requests
             PROVE  tries'[q] + (IF q \in dirty' /\ q \in Watching' THEN 1 ELSE 0)
                      <= Cardinality(Others(q)') + (IF session' = None THEN 1 ELSE 0)
  BY DEF RetriesHaveRivals, Rivals, Others
<1> DEFINE Goal == tries'[q] + (IF q \in dirty' /\ q \in Watching' THEN 1 ELSE 0)
                     <= Cardinality(Others(q)') + (IF session' = None THEN 1 ELSE 0)
<1>1. /\ Cardinality(Others(q)) \in Nat /\ tries[q] \in Nat
      /\ tries[q] + (IF q \in dirty /\ q \in Watching THEN 1 ELSE 0)
           <= Cardinality(Others(q)) + (IF session = None THEN 1 ELSE 0)
  <2>1. Rivals(q) = Cardinality(Others(q)) + (IF session = None THEN 1 ELSE 0)
    BY DEF Rivals, Others
  <2> QED  BY <2>1, OthersFinite DEF TypeOK, RetriesHaveRivals
<1>2. ASSUME NEW r \in Requests, NEW next, Goto(r, next), next # "written",
             pc[r] # "written"
      PROVE  Others(q)' = Others(q)
  BY <1>2 DEF Goto, TypeOK, Others
<1>3. ASSUME NEW r \in Requests, Watch(r) \/ GetNothing(r) \/ GetRefused(r) \/ Get(r)
      PROVE  Goal
  <2>1. PICK next : Goto(r, next) /\ next # "written" /\ pc[r] # "written"
    BY <1>3 DEF Watch, GetNothing, GetRefused, Get
  <2>2. /\ tries' = tries /\ session' = session
        /\ q \in dirty' /\ q \in Watching' => q \in dirty /\ q \in Watching
    BY <1>3 DEF Watch, GetNothing, GetRefused, Get, Goto, Watching, TypeOK
  <2> QED  BY <1>1, <1>2, <2>1, <2>2
<1>4. ASSUME NEW r \in Requests, Exec(r) PROVE Goal
  <2>1. tries' = tries /\ session # None
    BY <1>4 DEF Exec, Fresh
  <2>2. CASE r = q
    <3>1. Others(q)' = Others(q) /\ q \notin Watching'
      BY <1>4, <2>2 DEF Exec, Goto, TypeOK, Others, Watching
    <3> QED  BY <1>1, <2>1, <3>1
  <2>3. CASE r # q
    <3>1. Others(q)' = Others(q) \cup {r} /\ r \notin Others(q)
      BY <1>4, <2>3 DEF Exec, Goto, TypeOK, Others
    <3>2. Cardinality(Others(q)') = Cardinality(Others(q)) + 1
      BY <3>1, OthersFinite, FS_AddElement
    <3> QED  BY <1>1, <2>1, <3>2
  <2> QED  BY <2>2, <2>3
<1>5. ASSUME NEW r \in Requests, Retry(r) PROVE Goal
  <2>1. PICK next : Goto(r, next) /\ next # "written" /\ pc[r] # "written"
    BY <1>5 DEF Retry
  <2>2. Others(q)' = Others(q) /\ session' = session
    BY <1>2, <1>5, <2>1 DEF Retry
  <2>3. CASE r = q
    <3>1. q \in dirty /\ q \in Watching
      BY <1>5, <2>3 DEF Retry, Watching
    <3>2. tries'[q] = tries[q] + 1 /\ q \notin Watching'
      BY <1>5, <2>3 DEF Retry, Goto, TypeOK, Watching
    <3> QED  BY <1>1, <2>2, <3>1, <3>2
  <2>4. CASE r # q
    <3>1. tries'[q] = tries[q] /\ dirty' = dirty /\ (q \in Watching' => q \in Watching)
      BY <1>5, <2>4 DEF Retry, Goto, TypeOK, Watching
    <3> QED  BY <1>1, <2>2, <3>1
  <2> QED  BY <2>3, <2>4
<1>6. ASSUME Expire PROVE Goal
  <2>1. Others(q)' = Others(q) /\ tries' = tries /\ session # None /\ session' = None
    BY <1>6 DEF Expire, Others
  <2> QED  BY <1>1, <2>1
<1>7. ASSUME Age \/ UNCHANGED vars PROVE Goal
  <2>1. UNCHANGED <<session, pc, dirty, tries>>
    BY <1>7 DEF Age, vars
  <2> QED  BY <1>1, <2>1 DEF Others, Watching
<1> HIDE DEF Goal
<1>8. Goal
  BY <1>3, <1>4, <1>5, <1>6, <1>7 DEF Next, Step
<1> QED  BY <1>8 DEF Goal

\* A call meets a WatchError only because another request's write, or the end
\* of the session, came between: with fewer than MaxRetries writes by others
\* none raises ConcurrentWriteError.
THEOREM RetriesHaveRivalsCorrect == Spec => []RetriesHaveRivals
<1>1. Init => RetriesHaveRivals
  <2> SUFFICES ASSUME Init, NEW r \in Requests
               PROVE  tries[r] + (IF r \in dirty /\ r \in Watching THEN 1 ELSE 0)
                        <= Rivals(r)
    BY DEF RetriesHaveRivals
  <2>1. tries[r] = 0 /\ dirty = {}
    BY DEF Init
  <2>2. Cardinality(Others(r)) \in Nat
    BY OthersFinite
  <2> QED  BY <2>1, <2>2 DEF Rivals, Others
<1>2. TypeOK /\ Fresh /\ RetriesHaveRivals /\ [Next]_vars => RetriesHaveRivals'
  BY RetriesStep
<1>3. TypeOK /\ Fresh /\ AttemptsLeft /\ [Next]_vars
        => (TypeOK /\ Fresh /\ AttemptsLeft)'
  BY WriteStep
<1> QED  BY <1>1, <1>2, <1>3, WriteInit, PTL DEF Spec
=============================================================================
