------------------------ MODULE ChatPipelineProofs ------------------------
(***************************************************************************)
(* Theorems about ChatPipeline: first those that hold for any number of    *)
(* requests, any number of them in flight and any faults, the refinement   *)
(* of Confirmation among them, then those of one message at a time.        *)
(***************************************************************************)
EXTENDS ChatPipeline, SessionStateProofs, FiniteSetTheorems

\* What a request holds at the points where it uses it.
Located ==
  \A r \in Requests :
    /\ pc[r] = "bump" => intent[r] \in Intents
    /\ pc[r] \in {"unmarkPlan", "plan", "mark", "persist"} => view[r] \in Task
    /\ pc[r] \in {"unmarkRefetch", "refetch", "execute"} => call[r] \in Pending \ {None}

\* Where _process_message can go once the message is classified.
Targets == {"append", "unclear", "release", "reject", "init", "update", "read",
            "stash", "unstash", "suspend", "clear", "restore"}

LEMMA BranchesType ==
  ASSUME NEW class \in Intents, NEW task
  PROVE  Branches(class, task) \subseteq Targets
  BY DEF Branches, Intents, Targets

LEMMA TargetsType == Targets \subseteq PCs
  BY DEF Targets, PCs, Running, Raising

LEMMA SessionType ==
  ASSUME TypeOK, session # None
  PROVE  WellFormed(session) /\ session.active \in Task \cup {None}
  BY DEF TypeOK, WellFormed, Session

LEMMA InitType == Init => TypeOK /\ Located
<1> SUFFICES ASSUME Init PROVE TypeOK /\ Located
  OBVIOUS
<1>1. 0 \in 0 .. ConfirmationTimeoutTurns
  BY TimeoutAssumption
<1>2. TypeOK
  BY <1>1, EmptySessionType DEF Init, TypeOK, WellFormed, PCs
<1>3. Located
  BY DEF Init, Located
<1> QED  BY <1>2, <1>3

-----------------------------------------------------------------------------
(***************************************************************************)
(* Type correctness, one step per action.                                  *)
(***************************************************************************)
\* A step that only moves a request on, and sets its locals soundly.
LEMMA MoveType ==
  ASSUME TypeOK, Located, NEW r \in Requests, NEW next \in PCs, Goto(r, next),
         UNCHANGED <<session, marker, result, intent, view, call, history>>,
         next # "bump",
         next \in {"unmarkPlan", "plan", "mark", "persist"} => view[r] \in Task,
         next \in {"unmarkRefetch", "refetch", "execute"} => call[r] \in Pending \ {None}
  PROVE  TypeOK' /\ Located'
<1>1. pc' \in [Requests -> PCs] /\ pc' = [pc EXCEPT ![r] = next]
  BY DEF TypeOK, Goto
<1>2. TypeOK'
  BY <1>1 DEF TypeOK, history
<1>3. Located'
  BY <1>1 DEF Located, TypeOK
<1> QED  BY <1>2, <1>3

\* A step that rewrites the session and may refresh the request's view.
LEMMA WriteType ==
  ASSUME TypeOK, Located, NEW r \in Requests, NEW next, Goto(r, next),
         WellFormed(session'),
         NEW v \in Task \cup {None}, view' = [view EXCEPT ![r] = v],
         UNCHANGED <<marker, result, intent, call, history>>,
         \/ next \in Targets \cup {"unmarkAppend", "reply"}
         \/ next \in {"plan", "unmarkPlan", "mark"} /\ v \in Task
  PROVE  TypeOK' /\ Located'
<1>1. next \in PCs
  BY TargetsType DEF PCs, Running, Raising, Unmarking
<1>2. /\ next \notin {"bump", "unmarkRefetch", "refetch", "execute"}
      /\ next \in {"unmarkPlan", "plan", "mark", "persist"} => v \in Task
  BY DEF Targets
<1>3. pc' \in [Requests -> PCs] /\ pc' = [pc EXCEPT ![r] = next]
  BY <1>1 DEF TypeOK, Goto
<1>4. view' \in [Requests -> Task \cup {None}]
  BY DEF TypeOK
<1>5. TypeOK'
  BY <1>3, <1>4 DEF TypeOK, history, WellFormed
<1>6. Located'
  BY <1>2, <1>3 DEF Located, TypeOK
<1> QED  BY <1>5, <1>6

\* The same, when the request's view stays as it is.
LEMMA KeepType ==
  ASSUME TypeOK, Located, NEW r \in Requests, NEW next, Goto(r, next),
         WellFormed(session'),
         UNCHANGED <<marker, result, intent, view, call, history>>,
         \/ next \in Targets \cup {"unmarkAppend", "reply"}
         \/ next \in {"plan", "unmarkPlan", "mark"} /\ view[r] \in Task
  PROVE  TypeOK' /\ Located'
<1>1. view' = [view EXCEPT ![r] = view[r]] /\ view[r] \in Task \cup {None}
  BY DEF TypeOK
<1> QED  BY <1>1, WriteType

LEMMA FinishType ==
  ASSUME TypeOK, Located, NEW r \in Requests, NEW end \in Over, Finish(r, end),
         result' \in [Requests -> {"none", "processing", "done", "error"}]
  PROVE  TypeOK' /\ Located'
<1>1. pc' \in [Requests -> PCs] /\ pc' = [pc EXCEPT ![r] = end]
  BY DEF TypeOK, Finish, Goto, PCs
<1>2. TypeOK'
  BY <1>1 DEF TypeOK, Finish, history
<1>3. Located'
  BY <1>1 DEF Located, TypeOK, Finish, Over
<1> QED  BY <1>2, <1>3

LEMMA TypeStep ==
  ASSUME TypeOK, Located, [Next]_vars
  PROVE  TypeOK' /\ Located'
<1> USE DEF PCs, Running, Raising, Unmarking, Over
<1>1. ASSUME NEW r \in Requests, Post(r) PROVE TypeOK' /\ Located'
  <2>1. TypeOK'
    BY <1>1 DEF TypeOK, Post, Goto, history
  <2>2. Located'
    BY <1>1 DEF Located, TypeOK, Post, Goto
  <2> QED  BY <2>1, <2>2
<1>2. ASSUME NEW r \in Requests, Begin(r) PROVE TypeOK' /\ Located'
  <2>1. session.active \in Task \cup {None}
    BY <1>2, SessionType DEF Begin
  <2>2. PICK class \in Intents, next \in Targets \cup {"bump"} :
          /\ pc' = [pc EXCEPT ![r] = next]
          /\ intent' = [intent EXCEPT ![r] = class]
          /\ view' = [view EXCEPT ![r] = session.active]
    BY <1>2, BranchesType DEF Begin, Goto
  <2>3. ignored' \in [Requests -> 0 .. ConfirmationTimeoutTurns]
    <3>1. CASE ignored' = ignored
      BY <3>1 DEF TypeOK
    <3>2. CASE /\ Awaiting(session.active)
               /\ ignored[session.active.pending.token] < ConfirmationTimeoutTurns
               /\ ignored' = [ignored EXCEPT ![session.active.pending.token] = @ + 1]
      <4>1. session.active.pending.token \in Requests
        BY <2>1, <3>2 DEF Awaiting, Task, Pending
      <4>2. ignored[session.active.pending.token] + 1 \in 0 .. ConfirmationTimeoutTurns
        BY <3>2, <4>1, TimeoutAssumption DEF TypeOK
      <4> QED  BY <3>2, <4>1, <4>2 DEF TypeOK
    <3> QED  BY <1>2, <3>1, <3>2 DEF Begin
  <2>4. TypeOK'
    BY <1>2, <2>1, <2>2, <2>3, TargetsType DEF TypeOK, Begin, redis
  <2>5. Located'
    BY <1>2, <2>1, <2>2 DEF Located, TypeOK, Begin, Targets
  <2> QED  BY <2>4, <2>5
<1>3. ASSUME NEW r \in Requests, Bump(r) PROVE TypeOK' /\ Located'
  <2>1. WellFormed(session') /\ session'.active \in Task \cup {None}
    BY <1>3, SessionType, BumpConfirmationTurnsType DEF Bump, WellFormed, Session
  <2>2. intent[r] \in Intents
    BY <1>3 DEF Bump, Located
  <2>3. PICK next \in Targets \cup {"unmarkAppend"} : Goto(r, next)
    BY <1>3, <2>2, BranchesType DEF Bump
  <2> QED  BY <1>3, <2>1, <2>3, WriteType DEF Bump
<1>4. ASSUME NEW r \in Requests, Unclear(r) \/ AppendTurn(r)
      PROVE  TypeOK' /\ Located'
  <2>1. WellFormed(session')
    BY <1>4, SessionType, UnclearType DEF Unclear, AppendTurn
  <2>2. PICK next \in Targets \cup {"unmarkAppend", "reply"} : Goto(r, next)
    BY <1>4 DEF Unclear, AppendTurn, Targets
  <2> QED  BY <1>4, <2>1, <2>2, KeepType DEF Unclear, AppendTurn
<1>5. ASSUME NEW r \in Requests, Release(r) PROVE TypeOK' /\ Located'
  <2>1. session.active \in Task /\ session.active.pending \in Pending \ {None}
    BY <1>5, SessionType DEF Release, TokenMatches, Awaiting, Task
  <2>2. WellFormed(session')
    BY <1>5, <2>1, SessionType, DropConfirmationType
    DEF Release, TokenMatches, Awaiting
  <2>3. pc' = [pc EXCEPT ![r] = "unmarkRefetch"]
    BY <1>5 DEF Release, Goto
  <2>4. TypeOK'
    BY <1>5, <2>1, <2>2, <2>3 DEF TypeOK, Release, WellFormed, history
  <2>5. Located'
    BY <1>5, <2>1, <2>3 DEF Located, TypeOK, Release
  <2> QED  BY <2>4, <2>5
<1>6. ASSUME NEW r \in Requests, ReleaseRefused(r) PROVE TypeOK' /\ Located'
  BY <1>6, MoveType DEF ReleaseRefused, redis
<1>7. ASSUME NEW r \in Requests, Unmark(r) PROVE TypeOK' /\ Located'
  <2>1. TypeOK'
    BY <1>7 DEF TypeOK, Unmark, AfterUnmark, Goto, history
  <2>2. Located'
    BY <1>7 DEF Located, TypeOK, Unmark, AfterUnmark, Goto
  <2> QED  BY <2>1, <2>2
<1>8. ASSUME NEW r \in Requests, Refetch(r) PROVE TypeOK' /\ Located'
  BY <1>8, MoveType DEF Refetch, redis, Located
<1>9. ASSUME NEW r \in Requests, Execute(r) PROVE TypeOK' /\ Located'
  <2>1. call[r].token \in Requests
    BY <1>9 DEF Execute, Located, Pending
  <2>2. TypeOK'
    BY <1>9, <2>1 DEF TypeOK, Execute, Goto, redis
  <2>3. Located'
    BY <1>9 DEF Located, TypeOK, Execute, Goto
  <2> QED  BY <2>2, <2>3
<1>10. ASSUME NEW r \in Requests, Clear(r) \/ Suspend(r) \/ Stash(r) \/ Unstash(r)
       PROVE  TypeOK' /\ Located'
  <2>1. WellFormed(session')
    BY <1>10, SessionType, ClearTaskType, SuspendTaskType, StashTaskType,
       RestoreLatestTaskType DEF Clear, Suspend, Stash, Unstash
  <2>2. PICK next \in Targets \cup {"unmarkAppend", "reply"} : Goto(r, next)
    BY <1>10 DEF Clear, Suspend, Stash, Unstash, Targets
  <2> QED  BY <1>10, <2>1, <2>2, KeepType DEF Clear, Suspend, Stash, Unstash
<1>11. ASSUME NEW r \in Requests, Reject(r) PROVE TypeOK' /\ Located'
  <2>1. WellFormed(session') /\ session'.active \in Task
    BY <1>11, SessionType, DropConfirmationType DEF Reject
  <2> QED  BY <1>11, <2>1, WriteType DEF Reject
<1>12. ASSUME NEW r \in Requests, Create(r) PROVE TypeOK' /\ Located'
  <2>1. WellFormed(session') /\ session'.active \in Task
    BY <1>12, SessionType, InitTaskType DEF Create
  <2> QED  BY <1>12, <2>1, WriteType DEF Create
<1>13. ASSUME NEW r \in Requests, Update(r) PROVE TypeOK' /\ Located'
  <2>1. WellFormed(session') /\ session'.active \in Task
    BY <1>13, SessionType, UpdateSlotsType DEF Update
  <2>2. Goto(r, "plan") \/ Goto(r, "unmarkPlan")
    BY <1>13 DEF Update
  <2> QED  BY <1>13, <2>1, <2>2, WriteType DEF Update
<1>14. ASSUME NEW r \in Requests, Read(r) PROVE TypeOK' /\ Located'
  <2>1. WellFormed(session') /\ session.active \in Task \cup {None}
    BY <1>14, SessionType DEF Read, redis
  <2>2. PICK next : /\ Goto(r, next)
                    /\ \/ next \in Targets \cup {"unmarkAppend", "reply"}
                       \/ next \in {"plan"} /\ session.active \in Task
    BY <1>14, <2>1 DEF Read, Targets
  <2> QED  BY <1>14, <2>1, <2>2, WriteType DEF Read, redis
<1>15. ASSUME NEW r \in Requests, Restore(r) PROVE TypeOK' /\ Located'
  <2>1. WellFormed(session') /\ session'.active \in Task \cup {None}
    BY <1>15, SessionType, RestoreLatestTaskType DEF Restore, WellFormed, Session
  <2>2. PICK next : /\ Goto(r, next)
                    /\ \/ next \in Targets \cup {"unmarkAppend", "reply"}
                       \/ next \in {"plan"} /\ session'.active \in Task
    BY <1>15, <2>1 DEF Restore, Targets
  <2> QED  BY <1>15, <2>1, <2>2, WriteType DEF Restore
<1>16. ASSUME NEW r \in Requests, Propose(r) PROVE TypeOK' /\ Located'
  <2>1. view[r] \in Task /\ ProposedCall(r) \in Pending
    BY <1>16 DEF Propose, Located, ProposedCall, Task, Pending, Slots
  <2>2. WellFormed(session')
    BY <1>16, <2>1, SessionType, SetAwaitingConfirmationType DEF Propose
  <2> QED  BY <1>16, <2>1, <2>2, KeepType DEF Propose
<1>17. ASSUME NEW r \in Requests, Mark(r) PROVE TypeOK' /\ Located'
  <2>1. TypeOK'
    BY <1>17 DEF TypeOK, Mark, Goto, history
  <2>2. Located'
    BY <1>17 DEF Located, TypeOK, Mark, Goto
  <2> QED  BY <2>1, <2>2
<1>18. ASSUME NEW r \in Requests, Answer(r) PROVE TypeOK' /\ Located'
  BY <1>18, MoveType DEF Answer, Located, redis
<1>19. ASSUME NEW r \in Requests, Persist(r) PROVE TypeOK' /\ Located'
  <2>1. view[r] \in Task /\ view[r].id \in Requests
    BY <1>19 DEF Persist, Located, Task
  <2>2. CASE UNCHANGED session
    BY <1>19, <2>2, MoveType DEF Persist
  <2>3. CASE ~UNCHANGED session
    <3>1. WellFormed(session')
      BY <1>19, <2>1, <2>3, SessionType, UpdatePlannerMemoryType DEF Persist
    <3>2. PICK next \in Targets \cup {"unmarkAppend", "reply"} : Goto(r, next)
      BY <1>19 DEF Persist, Targets
    <3> QED  BY <1>19, <3>1, <3>2, KeepType DEF Persist
  <2> QED  BY <2>2, <2>3
<1>20. ASSUME NEW r \in Requests, Reply(r) \/ Raise(r) \/ Error(r) \/ Crash(r)
       PROVE  TypeOK' /\ Located'
  <2>1. result' \in [Requests -> {"none", "processing", "done", "error"}]
    BY <1>20 DEF Reply, Raise, Error, Crash, TypeOK
  <2>2. Finish(r, "done") \/ Finish(r, "lost")
    BY <1>20 DEF Reply, Raise, Error, Crash
  <2> QED  BY <2>1, <2>2, FinishType
<1>21. ASSUME Expire PROVE TypeOK' /\ Located'
  <2>1. lapsed' \in Requests \cup {None}
    BY <1>21, SessionType DEF Expire, Awaiting, Task, Pending
  <2>2. TypeOK'
    BY <1>21, <2>1 DEF TypeOK, Expire, local
  <2>3. Located'
    BY <1>21 DEF Located, Expire, local
  <2> QED  BY <2>2, <2>3
<1>22. ASSUME Login PROVE TypeOK' /\ Located'
  <2>1. TypeOK'
    BY <1>22 DEF TypeOK, Login, local
  <2>2. Located'
    BY <1>22 DEF Located, Login, local
  <2> QED  BY <2>1, <2>2
<1>23. ASSUME UNCHANGED vars PROVE TypeOK' /\ Located'
  <2>1. TypeOK'
    BY <1>23 DEF TypeOK, vars, redis, local, history
  <2>2. Located'
    BY <1>23 DEF Located, vars, local
  <2> QED  BY <2>1, <2>2
<1> QED
  BY <1>1, <1>2, <1>3, <1>4, <1>5, <1>6, <1>7, <1>8, <1>9, <1>10, <1>11, <1>12,
     <1>13, <1>14, <1>15, <1>16, <1>17, <1>18, <1>19, <1>20, <1>21, <1>22, <1>23
  DEF Next, Step, Quiet

\* Every variable keeps its type, and the suspended stack its depth.
THEOREM TypeCorrect == Spec => []TypeOK
<1>1. Init => TypeOK /\ Located
  BY InitType
<1>2. TypeOK /\ Located /\ [Next]_vars => (TypeOK /\ Located)'
  BY TypeStep
<1> QED  BY <1>1, <1>2, PTL DEF Spec

-----------------------------------------------------------------------------
(***************************************************************************)
(* How a step may change the session, the program points and the tokens    *)
(* requests hold.                                                          *)
(***************************************************************************)
\* The session is kept, lost, rearranged, or gains one task or one token.
SessionMoves ==
  \/ session' = session
  \/ session' = None
  \/ session # None /\ Comes(session', session)
  \/ \E r \in Requests, slots \in Slots :
       /\ session # None
       /\ pc[r] = "init" /\ pc'[r] = "plan"
       /\ session' = InitTask(session, r, slots)
  \/ \E r \in Requests, c \in Pending :
       /\ session # None /\ session.active # None
       /\ pc[r] = "plan" /\ pc'[r] = "mark"
       /\ c.token = r
       /\ session' = SetAwaitingConfirmation(session, c)

LEMMA SessionStep ==
  ASSUME TypeOK, Located, [Next]_vars
  PROVE  SessionMoves
<1>1. ASSUME NEW r \in Requests, Bump(r) PROVE SessionMoves
  BY <1>1, SessionType, BumpConfirmationTurnsComes DEF Bump, SessionMoves
<1>2. ASSUME NEW r \in Requests, Unclear(r) PROVE SessionMoves
  BY <1>2, SessionType, UnclearRearranges, RearrangedFacts DEF Unclear, BumpUnclear, SessionMoves
<1>3. ASSUME NEW r \in Requests, AppendTurn(r) PROVE SessionMoves
  BY <1>3, SessionType, UnclearRearranges, RearrangedFacts DEF AppendTurn, AppendMessages, SessionMoves
<1>4. ASSUME NEW r \in Requests, Release(r) \/ Reject(r) PROVE SessionMoves
  BY <1>4, SessionType, DropConfirmationComes
  DEF Release, Reject, TokenMatches, Awaiting, SessionMoves
<1>5. ASSUME NEW r \in Requests, Clear(r) PROVE SessionMoves
  BY <1>5, SessionType, ClearTaskRearranges, RearrangedFacts DEF Clear, SessionMoves
<1>6. ASSUME NEW r \in Requests, Create(r) PROVE SessionMoves
  <2>1. pc'[r] = "plan"
    BY <1>6 DEF Create, Goto, TypeOK
  <2> QED  BY <1>6, <2>1 DEF Create, SessionMoves
<1>7. ASSUME NEW r \in Requests, Update(r) PROVE SessionMoves
  BY <1>7, SessionType, UpdateSlotsComes DEF Update, SessionMoves
<1>8. ASSUME NEW r \in Requests, Suspend(r) PROVE SessionMoves
  BY <1>8, SessionType, SuspendTaskRearranges, RearrangedFacts DEF Suspend, SessionMoves
<1>9. ASSUME NEW r \in Requests, Stash(r) PROVE SessionMoves
  BY <1>9, SessionType, StashTaskRearranges, RearrangedFacts DEF Stash, SessionMoves
<1>10. ASSUME NEW r \in Requests, Unstash(r) \/ Restore(r) PROVE SessionMoves
  BY <1>10, SessionType, RestoreLatestTaskRearranges, RearrangedFacts DEF Unstash, Restore, SessionMoves
<1>11. ASSUME NEW r \in Requests, Propose(r) PROVE SessionMoves
  <2>1. ProposedCall(r) \in Pending /\ ProposedCall(r).token = r
    BY <1>11 DEF Propose, Located, ProposedCall, Task, Pending, Slots
  <2>2. pc'[r] = "mark"
    BY <1>11 DEF Propose, Goto, TypeOK
  <2> QED  BY <1>11, <2>1, <2>2 DEF Propose, SessionMoves
<1>12. ASSUME NEW r \in Requests, Persist(r) PROVE SessionMoves
  <2>1. view[r].id \in Requests
    BY <1>12 DEF Persist, Located, Task
  <2> QED  BY <1>12, <2>1, SessionType, UpdatePlannerMemoryComes
           DEF Persist, SessionMoves
<1>13. ASSUME Expire PROVE SessionMoves
  BY <1>13 DEF Expire, SessionMoves
<1>14. ASSUME UNCHANGED session PROVE SessionMoves
  BY <1>14 DEF SessionMoves
<1> QED
  BY <1>1, <1>2, <1>3, <1>4, <1>5, <1>6, <1>7, <1>8, <1>9, <1>10, <1>11, <1>12,
     <1>13, <1>14
  DEF Next, Step, Quiet, vars, redis, Post, Begin, ReleaseRefused, Unmark, Refetch,
      Execute, Read, Mark, Answer, Reply, Raise, Error, Crash, Finish, Login

\* No request returns to a point before its task or its token.
LEMMA PointStep ==
  ASSUME TypeOK, Located, [Next]_vars
  PROVE  \A t \in Requests :
           /\ pc'[t] \in BeforeInit => pc[t] \in BeforeInit
           /\ pc'[t] \in BeforePlan => pc[t] \in BeforePlan
<1> DEFINE Onward == \A t \in Requests :
             /\ pc'[t] \in BeforeInit => pc[t] \in BeforeInit
             /\ pc'[t] \in BeforePlan => pc[t] \in BeforePlan
<1>1. ASSUME NEW r \in Requests, NEW next, Goto(r, next),
             next \in BeforeInit => pc[r] \in BeforeInit,
             next \in BeforePlan => pc[r] \in BeforePlan
      PROVE  Onward
  BY <1>1 DEF Goto, TypeOK
<1>2. ASSUME NEW r \in Requests, Post(r) \/ Unclear(r) \/ Release(r)
                \/ ReleaseRefused(r) \/ Refetch(r) \/ Clear(r) \/ Reject(r)
      PROVE  Onward
  BY <1>1, <1>2 DEF Post, Unclear, Release, ReleaseRefused, Refetch, Clear, Reject,
                    BeforeInit, BeforePlan
<1>3. ASSUME NEW r \in Requests, Begin(r) PROVE Onward
  <2>1. pc[r] \in BeforeInit /\ pc[r] \in BeforePlan
    BY <1>3 DEF Begin, BeforeInit, BeforePlan
  <2> QED  BY <1>1, <1>3, <2>1 DEF Begin
<1>4. ASSUME NEW r \in Requests, Bump(r) PROVE Onward
  <2>1. pc[r] \in BeforeInit /\ pc[r] \in BeforePlan
    BY <1>4 DEF Bump, BeforeInit, BeforePlan
  <2> QED  BY <1>1, <1>4, <2>1 DEF Bump
<1>5. ASSUME NEW r \in Requests, Unmark(r) PROVE Onward
  BY <1>1, <1>5 DEF Unmark, Unmarking, AfterUnmark, BeforeInit, BeforePlan
<1>6. ASSUME NEW r \in Requests, Execute(r) \/ Answer(r) PROVE Onward
  BY <1>1, <1>6 DEF Execute, Answer, BeforeInit, BeforePlan
<1>7. ASSUME NEW r \in Requests, Create(r) \/ Update(r) \/ Read(r) \/ Suspend(r)
                \/ Stash(r) \/ Unstash(r) \/ Restore(r)
      PROVE  Onward
  BY <1>1, <1>7 DEF Create, Update, Read, Suspend, Stash, Unstash, Restore,
                    BeforeInit, BeforePlan
<1>8. ASSUME NEW r \in Requests, Propose(r) \/ Mark(r) \/ Persist(r) \/ AppendTurn(r)
      PROVE  Onward
  BY <1>1, <1>8 DEF Propose, Mark, Persist, AppendTurn, BeforeInit, BeforePlan
<1>9. ASSUME NEW r \in Requests, Reply(r) \/ Raise(r) \/ Error(r) \/ Crash(r)
      PROVE  Onward
  <2>1. Goto(r, "done") \/ Goto(r, "lost")
    BY <1>9 DEF Reply, Raise, Error, Crash, Finish
  <2> QED  BY <1>1, <2>1 DEF BeforeInit, BeforePlan
<1>10. ASSUME UNCHANGED pc PROVE Onward
  BY <1>10
<1> HIDE DEF Onward
<1>11. Onward
  BY <1>2, <1>3, <1>4, <1>5, <1>6, <1>7, <1>8, <1>9, <1>10
  DEF Next, Step, Quiet, vars, local, Expire, Login
<1> QED  BY <1>11 DEF Onward

\* The ways a step changes what requests released and executed.
LEMMA HandsStep ==
  ASSUME [Next]_vars
  PROVE  \/ UNCHANGED <<call, ran>>
         \/ \E r \in Requests : Release(r) \/ Execute(r) \/ \E end \in Over : Finish(r, end)
<1>1. ASSUME NEW r \in Requests, Post(r) \/ Begin(r) \/ Bump(r) \/ Unclear(r)
                \/ ReleaseRefused(r) \/ Unmark(r) \/ Refetch(r) \/ Clear(r)
      PROVE  UNCHANGED <<call, ran>>
  BY <1>1 DEF history, Post, Begin, Bump, Unclear, ReleaseRefused, Unmark, Refetch, Clear
<1>2. ASSUME NEW r \in Requests, Reject(r) \/ Create(r) \/ Update(r) \/ Read(r)
                \/ Suspend(r) \/ Stash(r) \/ Unstash(r) \/ Restore(r)
      PROVE  UNCHANGED <<call, ran>>
  BY <1>2 DEF history, Reject, Create, Update, Read, Suspend, Stash, Unstash, Restore
<1>3. ASSUME NEW r \in Requests, Propose(r) \/ Mark(r) \/ Answer(r) \/ Persist(r)
                \/ AppendTurn(r)
      PROVE  UNCHANGED <<call, ran>>
  BY <1>3 DEF history, Propose, Mark, Answer, Persist, AppendTurn
<1>4. ASSUME NEW r \in Requests, Reply(r) \/ Raise(r) \/ Error(r) \/ Crash(r)
      PROVE  \E end \in Over : Finish(r, end)
  BY <1>4 DEF Reply, Raise, Error, Crash, Over
<1>5. Expire \/ Login \/ Quiet \/ UNCHANGED vars => UNCHANGED <<call, ran>>
  BY DEF Expire, Login, Quiet, vars, local, history
<1> QED  BY <1>1, <1>2, <1>3, <1>4, <1>5 DEF Next, Step

\* A request's tokens grow by the one it releases only.
LEMMA SpentStep ==
  ASSUME TypeOK, Located, [Next]_vars
  PROVE  \/ \A q \in Requests : Spent(q)' \subseteq Spent(q)
         \/ \E r \in Requests :
              LET k == session.active.pending.token
              IN /\ session # None /\ Awaiting(session.active)
                 /\ session' = DropConfirmation(session)
                 /\ Spent(r)' \subseteq Spent(r) \cup {k}
                 /\ \A q \in Requests \ {r} : Spent(q)' \subseteq Spent(q)
<1>1. ASSUME UNCHANGED <<call, ran>>
      PROVE  \A q \in Requests : Spent(q)' \subseteq Spent(q)
  BY <1>1 DEF Spent
<1>2. ASSUME NEW r \in Requests, Execute(r)
      PROVE  \A q \in Requests : Spent(q)' \subseteq Spent(q)
  <2>1. call[r] # None /\ call' = call
    BY <1>2 DEF Execute, Located
  <2>2. ran' = [ran EXCEPT ![r] = call[r].token]
    BY <1>2 DEF Execute
  <2>3. Spent(r)' \subseteq Spent(r)
    BY <2>1, <2>2 DEF Spent, TypeOK
  <2>4. \A q \in Requests \ {r} : Spent(q)' \subseteq Spent(q)
    BY <2>1, <2>2 DEF Spent, TypeOK
  <2> QED  BY <2>3, <2>4
<1>3. ASSUME NEW r \in Requests, NEW end, Finish(r, end)
      PROVE  \A q \in Requests : Spent(q)' \subseteq Spent(q)
  <2>1. call' = [call EXCEPT ![r] = None] /\ ran' = ran
    BY <1>3 DEF Finish, history
  <2> QED  BY <2>1 DEF Spent, TypeOK
<1>4. ASSUME NEW r \in Requests, Release(r)
      PROVE  LET k == session.active.pending.token
             IN /\ session # None /\ Awaiting(session.active)
                /\ session' = DropConfirmation(session)
                /\ Spent(r)' \subseteq Spent(r) \cup {k}
                /\ \A q \in Requests \ {r} : Spent(q)' \subseteq Spent(q)
  <2>1. call' = [call EXCEPT ![r] = session.active.pending] /\ ran' = ran
    BY <1>4 DEF Release, history
  <2> QED  BY <1>4, <2>1 DEF Release, TokenMatches, Spent, TypeOK
<1>5. CASE \E r \in Requests : Release(r)
  BY <1>4, <1>5
<1>6. CASE ~ \E r \in Requests : Release(r)
  BY <1>1, <1>2, <1>3, <1>6, HandsStep
<1> QED  BY <1>5, <1>6

-----------------------------------------------------------------------------
(***************************************************************************)
(* The inductive invariant: fresh tasks and tokens, each kept in one       *)
(* place, and released tokens that are nowhere else.                       *)
(***************************************************************************)
\* What a step makes of a session that survives it.
LEMMA SurvivingSession ==
  ASSUME TypeOK, Located, TokensFlow, [Next]_vars, session' # None
  PROVE  /\ session # None
         /\ DistinctTasks(session') /\ DistinctTokens(session')
         /\ \A t \in TaskIds(session') \ TaskIds(session) :
              t \in Requests /\ pc[t] = "init" /\ pc'[t] = "plan"
         /\ \A t \in LiveTokens(session') \ LiveTokens(session) :
              t \in Requests /\ pc[t] = "plan" /\ pc'[t] = "mark"
<1> DEFINE Grown ==
             /\ session # None
             /\ DistinctTasks(session') /\ DistinctTokens(session')
             /\ \A t \in TaskIds(session') \ TaskIds(session) :
                  t \in Requests /\ pc[t] = "init" /\ pc'[t] = "plan"
             /\ \A t \in LiveTokens(session') \ LiveTokens(session) :
                  t \in Requests /\ pc[t] = "plan" /\ pc'[t] = "mark"
<1>1. session # None => /\ WellFormed(session)
                        /\ DistinctTasks(session) /\ DistinctTokens(session)
  BY SessionType DEF TokensFlow
<1>2. CASE session' = session
  BY <1>1, <1>2
<1>3. CASE session # None /\ Comes(session', session)
  BY <1>1, <1>3, ComesKeeps
<1>4. ASSUME NEW r \in Requests, NEW slots \in Slots, session # None,
             pc[r] = "init", pc'[r] = "plan", session' = InitTask(session, r, slots)
      PROVE  Grown
  <2>1. r \notin TaskIds(session)
    BY <1>4 DEF TokensFlow, BeforeInit
  <2> QED  BY <1>1, <1>4, <2>1, InitTaskAdds
<1>5. ASSUME NEW r \in Requests, NEW c \in Pending,
             session # None, session.active # None,
             pc[r] = "plan", pc'[r] = "mark", c.token = r,
             session' = SetAwaitingConfirmation(session, c)
      PROVE  Grown
  <2>1. r \notin LiveTokens(session)
    BY <1>5 DEF TokensFlow, BeforePlan
  <2> QED  BY <1>1, <1>5, <2>1, SetAwaitingConfirmationAdds
<1> HIDE DEF Grown
<1>6. Grown
  BY <1>2, <1>3, <1>4, <1>5, SessionStep DEF SessionMoves, Grown
<1> QED  BY <1>6 DEF Grown

LEMMA FlowInit == Init => TokensFlow
<1> SUFFICES ASSUME Init PROVE TokensFlow
  OBVIOUS
<1>1. \A p \in Places(session) : TaskAt(session, p) = None
  BY DEF Init, EmptySession, Places, TaskAt
<1>2. DistinctTasks(session) /\ DistinctTokens(session)
  BY <1>1 DEF DistinctTasks, DistinctTokens, Awaiting
<1>3. TaskIds(session) = {} /\ LiveTokens(session) = {}
  BY <1>1 DEF TaskIds, LiveTokens, Awaiting
<1>4. \A r \in Requests : Spent(r) = {}
  BY NoneAssumption DEF Init, Spent
<1> QED  BY <1>2, <1>3, <1>4 DEF TokensFlow

LEMMA FlowStep ==
  ASSUME TypeOK, Located, TokensFlow, [Next]_vars
  PROVE  TokensFlow'
<1>1. session' # None => DistinctTasks(session') /\ DistinctTokens(session')
  BY SurvivingSession
<1>2. ASSUME NEW r \in Requests, pc'[r] \in BeforeInit, session' # None
      PROVE  r \notin TaskIds(session')
  <2>1. session # None /\ r \notin TaskIds(session)
    BY <1>2, PointStep, SurvivingSession DEF TokensFlow
  <2> QED  BY <1>2, <2>1, SurvivingSession DEF BeforeInit
<1>3. ASSUME NEW r \in Requests, pc'[r] \in BeforePlan, session' # None
      PROVE  r \notin LiveTokens(session')
  <2>1. session # None /\ r \notin LiveTokens(session)
    BY <1>3, PointStep, SurvivingSession DEF TokensFlow
  <2> QED  BY <1>3, <2>1, SurvivingSession DEF BeforePlan
<1>4. CASE \A q \in Requests : Spent(q)' \subseteq Spent(q)
  <2>1. ASSUME NEW r \in Requests, pc'[r] \in BeforePlan, NEW q \in Requests
        PROVE  r \notin Spent(q)'
    BY <1>4, <2>1, PointStep DEF TokensFlow
  <2>2. ASSUME NEW r \in Requests, session' # None
        PROVE  Spent(r)' \cap LiveTokens(session') = {}
    <3>1. session # None /\ Spent(r) \cap LiveTokens(session) = {}
      BY <2>2, SurvivingSession DEF TokensFlow
    <3>2. \A t \in LiveTokens(session') \ LiveTokens(session) : t \notin Spent(r)
      BY <2>2, SurvivingSession DEF TokensFlow, BeforePlan
    <3> QED  BY <1>4, <3>1, <3>2
  <2>3. ASSUME NEW r \in Requests, NEW q \in Requests \ {r}
        PROVE  Spent(r)' \cap Spent(q)' = {}
    BY <1>4, <2>3 DEF TokensFlow
  <2> QED  BY <1>1, <1>2, <1>3, <2>1, <2>2, <2>3 DEF TokensFlow
<1>5. ASSUME NEW s \in Requests,
             session # None, Awaiting(session.active),
             session' = DropConfirmation(session),
             Spent(s)' \subseteq Spent(s) \cup {session.active.pending.token},
             \A q \in Requests \ {s} : Spent(q)' \subseteq Spent(q)
      PROVE  TokensFlow'
  <2> DEFINE k == session.active.pending.token
  <2>1. WellFormed(session) /\ DistinctTokens(session)
    BY <1>5, SessionType DEF TokensFlow
  <2>2. k \in LiveTokens(session)
    BY <2>1, <1>5, PlacesFacts DEF LiveTokens, TaskAt
  <2>3. k \notin LiveTokens(session')
    BY <1>5, <2>1, DropConfirmationRemoves
  <2>4. LiveTokens(session') \subseteq LiveTokens(session)
    BY <1>5, <2>1, DropConfirmationComes, ComesKeeps DEF Awaiting
  <2>5. /\ \A q \in Requests : k \notin Spent(q)
        /\ k \in Requests => pc[k] \notin BeforePlan
    BY <1>5, <2>2 DEF TokensFlow
  <2> HIDE DEF k
  <2>6. \A q \in Requests : Spent(q)' \subseteq Spent(q) \cup {k}
    BY <1>5 DEF k
  <2>7. ASSUME NEW r \in Requests, pc'[r] \in BeforePlan, NEW q \in Requests
        PROVE  r \notin Spent(q)'
    BY <2>5, <2>6, <2>7, PointStep DEF TokensFlow
  <2>8. ASSUME NEW r \in Requests
        PROVE  Spent(r)' \cap LiveTokens(session') = {}
    BY <1>5, <2>3, <2>4, <2>6 DEF TokensFlow
  <2>9. ASSUME NEW r \in Requests, NEW q \in Requests \ {r}
        PROVE  Spent(r)' \cap Spent(q)' = {}
    <3>1. Spent(r) \cap Spent(q) = {}
      BY <2>9 DEF TokensFlow
    <3>2. Spent(r)' \subseteq Spent(r) \/ Spent(q)' \subseteq Spent(q)
      BY <1>5, <2>9
    <3> QED  BY <2>5, <2>6, <2>9, <3>1, <3>2
  <2> QED  BY <1>1, <1>2, <1>3, <2>7, <2>8, <2>9 DEF TokensFlow
<1> QED  BY <1>4, <1>5, SpentStep

\* Tasks and tokens are fresh when they are created, kept in one place while
\* they are pending, and in one request's hands once they are released.
THEOREM TokensFlowCorrect == Spec => []TokensFlow
<1>1. Init => TypeOK /\ Located /\ TokensFlow
  BY InitType, FlowInit
<1>2. TypeOK /\ Located /\ TokensFlow /\ [Next]_vars
        => (TypeOK /\ Located /\ TokensFlow)'
  BY TypeStep, FlowStep
<1> QED  BY <1>1, <1>2, PTL DEF Spec

\* A task is in one place, whatever the interleaving and the faults.
THEOREM OneHomeCorrect == Spec => []OneHome
<1>1. TokensFlow => OneHome
  BY DEF TokensFlow, OneHome
<1> QED  BY <1>1, TokensFlowCorrect, PTL

\* The call behind a confirmation token runs at most once: two requests that
\* ran the same token would both have it among their spent tokens.
THEOREM ExecutedOnceCorrect == Spec => []ExecutedOnce
<1>1. ASSUME TypeOK, TokensFlow PROVE ExecutedOnce
  <2> SUFFICES ASSUME NEW r \in Requests, NEW q \in Requests, r # q, ran[r] # None,
                      ran[r] = ran[q]
               PROVE  FALSE
    BY DEF ExecutedOnce
  <2>1. ran[r] \in Requests
    BY <1>1 DEF TypeOK
  <2>2. ran[r] \in Spent(r) /\ ran[r] \in Spent(q)
    BY <2>1 DEF Spent
  <2> QED  BY <1>1, <2>2 DEF TokensFlow
<1> QED  BY <1>1, TypeCorrect, TokensFlowCorrect, PTL

\* A token that stopped pending never pends again: only the request it is
\* named after issues it, and that request does so once.
THEOREM DeadTokensStayDeadCorrect == Spec => DeadTokensStayDead
<1> DEFINE Stays == \A t \in Requests :
                      /\ session # None /\ session' # None
                      /\ pc[t] \notin BeforePlan
                      /\ t \notin LiveTokens(session)
                      => t \notin LiveTokens(session')
<1>1. Init => TypeOK /\ Located /\ TokensFlow
  BY InitType, FlowInit
<1>2. TypeOK /\ Located /\ TokensFlow /\ [Next]_vars
        => (TypeOK /\ Located /\ TokensFlow)'
  BY TypeStep, FlowStep
<1>3. TypeOK /\ Located /\ TokensFlow /\ [Next]_vars => [Stays]_vars
  BY SurvivingSession DEF BeforePlan
<1> QED  BY <1>1, <1>2, <1>3, PTL DEF Spec, DeadTokensStayDead


\* Where a request holds a released call.
Holding == {"unmarkRefetch", "refetch", "execute"}

\* A released call stays in its request's hands, beside the view it was
\* released for, until it is executed.
LEMMA HoldingStep ==
  ASSUME TypeOK, Located, [Next]_vars, NEW q \in Requests, pc'[q] \in Holding
  PROVE  \/ pc[q] \in Holding /\ view'[q] = view[q] /\ call'[q] = call[q]
         \/ Release(q)
<1> DEFINE Held == \/ pc[q] \in Holding /\ view'[q] = view[q] /\ call'[q] = call[q]
                   \/ Release(q)
<1> USE DEF Holding
<1>1. ASSUME NEW r \in Requests, NEW next, Goto(r, next), next \notin Holding,
             r # q => view'[q] = view[q] /\ call'[q] = call[q]
      PROVE  Held
  BY <1>1 DEF Goto, TypeOK
<1>2. ASSUME NEW r \in Requests, NEW v, view' = [view EXCEPT ![r] = v]
      PROVE  r # q => view'[q] = view[q]
  BY <1>2 DEF TypeOK
<1>3. ASSUME NEW r \in Requests, Post(r) \/ Unclear(r) \/ ReleaseRefused(r) \/ Execute(r)
                \/ Clear(r) \/ Suspend(r) \/ Stash(r) \/ Unstash(r) \/ Propose(r)
                \/ Mark(r) \/ Answer(r) \/ Persist(r) \/ AppendTurn(r)
      PROVE  Held
  <2>1. view' = view /\ call' = call
    BY <1>3 DEF Post, Unclear, ReleaseRefused, Execute, Clear, Suspend, Stash, Unstash,
                Propose, Mark, Answer, Persist, AppendTurn
  <2>2. PICK next : Goto(r, next) /\ next \notin Holding
    BY <1>3 DEF Post, Unclear, ReleaseRefused, Execute, Clear, Suspend, Stash, Unstash,
                Propose, Mark, Answer, Persist, AppendTurn
  <2> QED  BY <1>1, <2>1, <2>2
<1>4. ASSUME NEW r \in Requests, Begin(r) PROVE Held
  <2>1. call' = call /\ view' = [view EXCEPT ![r] = session.active]
    BY <1>4 DEF Begin
  <2>2. PICK next \in Targets \cup {"bump"} : Goto(r, next)
    BY <1>4, BranchesType DEF Begin
  <2>3. next \notin Holding
    BY DEF Targets
  <2> QED  BY <1>1, <1>2, <2>1, <2>2, <2>3
<1>5. ASSUME NEW r \in Requests, Bump(r) PROVE Held
  <2>1. call' = call /\ view' = [view EXCEPT ![r] = session'.active]
    BY <1>5 DEF Bump
  <2>2. intent[r] \in Intents
    BY <1>5 DEF Bump, Located
  <2>3. PICK next \in Targets \cup {"unmarkAppend"} : Goto(r, next)
    BY <1>5, <2>2, BranchesType DEF Bump
  <2>4. next \notin Holding
    BY DEF Targets
  <2> QED  BY <1>1, <1>2, <2>1, <2>3, <2>4
<1>6. ASSUME NEW r \in Requests, Reject(r) \/ Create(r) \/ Update(r) \/ Read(r) \/ Restore(r)
      PROVE  Held
  <2>1. call' = call /\ \E v : view' = [view EXCEPT ![r] = v]
    BY <1>6 DEF Reject, Create, Update, Read, Restore
  <2>2. PICK next : Goto(r, next) /\ next \notin Holding
    BY <1>6 DEF Reject, Create, Update, Read, Restore
  <2> QED  BY <1>1, <1>2, <2>1, <2>2
<1>7. ASSUME NEW r \in Requests, Unmark(r) \/ Refetch(r) PROVE Held
  <2>1. view' = view /\ call' = call
    BY <1>7 DEF Unmark, Refetch
  <2>2. PICK next : Goto(r, next) /\ (next \in Holding => pc[r] \in Holding)
    BY <1>7 DEF Unmark, Unmarking, AfterUnmark, Refetch
  <2> QED  BY <2>1, <2>2 DEF Goto, TypeOK
<1>8. ASSUME NEW r \in Requests, Release(r) PROVE Held
  BY <1>8 DEF Release, Goto, TypeOK
<1>9. ASSUME NEW r \in Requests, Reply(r) \/ Raise(r) \/ Error(r) \/ Crash(r)
      PROVE  Held
  <2>1. Finish(r, "done") \/ Finish(r, "lost")
    BY <1>9 DEF Reply, Raise, Error, Crash
  <2>2. r # q => view'[q] = view[q] /\ call'[q] = call[q]
    BY <2>1 DEF Finish, TypeOK
  <2> QED  BY <1>1, <2>1, <2>2 DEF Finish
<1>10. ASSUME UNCHANGED <<pc, view, call>> PROVE Held
  BY <1>10
<1> HIDE DEF Held
<1>11. Held
  BY <1>3, <1>4, <1>5, <1>6, <1>7, <1>8, <1>9, <1>10
  DEF Next, Step, Quiet, vars, local, Expire, Login
<1> QED  BY <1>11 DEF Held

\* What a confirmation executes is the call its user was shown.
THEOREM ExecutedAsSeenCorrect == Spec => []ExecutedAsSeen
<1>1. Init => TypeOK /\ Located
  BY InitType
<1>2. TypeOK /\ Located /\ [Next]_vars => (TypeOK /\ Located)'
  BY TypeStep
<1>3. Init => ExecutedAsSeen
  BY DEF Init, ExecutedAsSeen
<1>4. ASSUME TypeOK, Located, ExecutedAsSeen, [Next]_vars PROVE ExecutedAsSeen'
  <2> SUFFICES ASSUME NEW q \in Requests, pc'[q] \in Holding
               PROVE  call'[q].token = view'[q].pending.token
    BY DEF ExecutedAsSeen, Holding
  <2>1. CASE pc[q] \in Holding /\ view'[q] = view[q] /\ call'[q] = call[q]
    BY <1>4, <2>1 DEF ExecutedAsSeen, Holding
  <2>2. CASE Release(q)
    <3>1. /\ call' = [call EXCEPT ![q] = session.active.pending]
          /\ view' = view
          /\ session.active.pending.token = view[q].pending.token
      BY <2>2 DEF Release, TokenMatches
    <3> QED  BY <1>4, <3>1 DEF TypeOK
  <2> QED  BY <1>4, <2>1, <2>2, HoldingStep
<1> QED  BY <1>1, <1>2, <1>3, <1>4, PTL DEF Spec

-----------------------------------------------------------------------------
(***************************************************************************)
(* The pipeline implements the life of a confirmation.                     *)
(***************************************************************************)
\* A step of a request is one of a request being processed, and moves no other.
LEMMA Mover ==
  ASSUME TypeOK, NEW r \in Requests, Step(r) \/ Error(r) \/ Crash(r)
  PROVE  pc[r] \in Running /\ \A q \in Requests \ {r} : pc'[q] = pc[q]
<1>1. pc[r] \in Running
  <2> USE DEF Running, Raising, Unmarking
  <2>1. CASE Begin(r) \/ Bump(r) \/ Unclear(r) \/ Release(r) \/ ReleaseRefused(r)
             \/ Unmark(r) \/ Refetch(r) \/ Execute(r)
    BY <2>1 DEF Begin, Bump, Unclear, Release, ReleaseRefused, Unmark, Refetch, Execute
  <2>2. CASE Clear(r) \/ Reject(r) \/ Create(r) \/ Update(r) \/ Read(r) \/ Suspend(r)
             \/ Stash(r) \/ Unstash(r) \/ Restore(r)
    BY <2>2 DEF Clear, Reject, Create, Update, Read, Suspend, Stash, Unstash, Restore
  <2>3. CASE Propose(r) \/ Mark(r) \/ Answer(r) \/ Persist(r) \/ AppendTurn(r)
             \/ Reply(r) \/ Raise(r) \/ Error(r) \/ Crash(r)
    BY <2>3 DEF Propose, Mark, Answer, Persist, AppendTurn, Reply, Raise, Error, Crash
  <2> QED  BY <2>1, <2>2, <2>3 DEF Step
<1>2. PICK next : Goto(r, next)
  BY DEF Step, Begin, Bump, Unclear, Release, ReleaseRefused, Unmark, Refetch, Execute,
         Clear, Reject, Create, Update, Read, Suspend, Stash, Unstash, Restore,
         Propose, Mark, Answer, Persist, AppendTurn, Reply, Raise, Error, Crash, Finish
<1>3. \A q \in Requests \ {r} : pc'[q] = pc[q]
  BY <1>2 DEF Goto, TypeOK
<1> QED  BY <1>1, <1>3

\* Only a message that was just classified is about to release a call.
LEMMA ToRelease ==
  ASSUME TypeOK, Located, [Next]_vars, NEW q \in Requests, pc'[q] = "release"
  PROVE  pc[q] \in {"begin", "bump", "release"}
<1>1. ASSUME NEW r \in Requests, NEW next, Goto(r, next), next # "release"
      PROVE  pc[q] = "release"
  BY <1>1 DEF Goto, TypeOK
<1>2. ASSUME NEW r \in Requests, Begin(r) \/ Bump(r)
      PROVE  pc[q] \in {"begin", "bump", "release"}
  <2>1. pc[r] \in {"begin", "bump"} /\ \E next : Goto(r, next)
    BY <1>2 DEF Begin, Bump
  <2> QED  BY <2>1 DEF Goto, TypeOK
<1>3. ASSUME NEW r \in Requests, Post(r) \/ Unclear(r) \/ Release(r) \/ ReleaseRefused(r)
                \/ Refetch(r) \/ Execute(r) \/ Clear(r) \/ Reject(r)
      PROVE  pc[q] = "release"
  <2>1. PICK next : Goto(r, next) /\ next # "release"
    BY <1>3 DEF Post, Unclear, Release, ReleaseRefused, Refetch, Execute, Clear, Reject
  <2> QED  BY <1>1, <2>1
<1>4. ASSUME NEW r \in Requests, Unmark(r) PROVE pc[q] = "release"
  BY <1>1, <1>4 DEF Unmark, Unmarking, AfterUnmark
<1>5. ASSUME NEW r \in Requests, Create(r) \/ Update(r) \/ Read(r) \/ Suspend(r)
                \/ Stash(r) \/ Unstash(r) \/ Restore(r)
      PROVE  pc[q] = "release"
  <2>1. PICK next : Goto(r, next) /\ next # "release"
    BY <1>5 DEF Create, Update, Read, Suspend, Stash, Unstash, Restore
  <2> QED  BY <1>1, <2>1
<1>6. ASSUME NEW r \in Requests, Propose(r) \/ Mark(r) \/ Answer(r) \/ Persist(r)
                \/ AppendTurn(r) \/ Reply(r) \/ Raise(r) \/ Error(r) \/ Crash(r)
      PROVE  pc[q] = "release"
  <2>1. PICK next : Goto(r, next) /\ next # "release"
    BY <1>6 DEF Propose, Mark, Answer, Persist, AppendTurn, Reply, Raise, Error, Crash, Finish
  <2> QED  BY <1>1, <2>1
<1>7. CASE UNCHANGED pc
  BY <1>7
<1> QED  BY <1>2, <1>3, <1>4, <1>5, <1>6, <1>7
         DEF Next, Step, Quiet, vars, local, Expire, Login

\* A request releases one call and executes one.
Unspent ==
  \A r \in Requests :
    /\ pc[r] \in BeforePlan \cup {"release"} => call[r] = None /\ ran[r] = None
    /\ pc[r] \in Holding => ran[r] = None

LEMMA UnspentStep ==
  ASSUME TypeOK, Located, Unspent, [Next]_vars
  PROVE  Unspent'
<1> SUFFICES ASSUME NEW q \in Requests
             PROVE  /\ pc'[q] \in BeforePlan \cup {"release"}
                         => call'[q] = None /\ ran'[q] = None
                    /\ pc'[q] \in Holding => ran'[q] = None
  BY DEF Unspent
<1>1. /\ pc'[q] \in BeforePlan => pc[q] \in BeforePlan
      /\ pc'[q] = "release" => pc[q] \in BeforePlan \cup {"release"}
  BY PointStep, ToRelease DEF BeforePlan
<1>2. pc'[q] \in Holding => ran[q] = None
  BY HoldingStep DEF Unspent, Release
<1>3. CASE UNCHANGED <<call, ran>>
  BY <1>1, <1>2, <1>3 DEF Unspent
<1>4. ASSUME NEW r \in Requests, Release(r) PROVE ran' = ran /\ (r # q => call'[q] = call[q])
  BY <1>4 DEF Release, history, TypeOK
<1>5. CASE \E r \in Requests : Release(r)
  <2>1. PICK r \in Requests : Release(r)
    BY <1>5
  <2>2. r = q => pc'[q] = "unmarkRefetch"
    BY <2>1 DEF Release, Goto, TypeOK
  <2> QED  BY <1>1, <1>2, <1>4, <2>1, <2>2 DEF Unspent, BeforePlan
<1>6. CASE \E r \in Requests : Execute(r)
  <2>1. PICK r \in Requests : Execute(r)
    BY <1>6
  <2>2. call' = call /\ (r # q => ran'[q] = ran[q])
    BY <2>1 DEF Execute, TypeOK
  <2>3. r = q => pc'[q] \in {"clear", "append"}
    BY <2>1 DEF Execute, Goto, TypeOK
  <2> QED  BY <1>1, <1>2, <2>2, <2>3 DEF Unspent, BeforePlan, Holding
<1>7. CASE \E r \in Requests : \E end \in Over : Finish(r, end)
  <2>1. PICK r \in Requests : call' = [call EXCEPT ![r] = None] /\ ran' = ran
    BY <1>7 DEF Finish, history
  <2>2. call'[q] = None \/ call'[q] = call[q]
    BY <2>1 DEF TypeOK
  <2> QED  BY <1>1, <1>2, <2>1, <2>2 DEF Unspent
<1> QED  BY <1>3, <1>5, <1>6, <1>7, HandsStep

\* The request that attaches its call moves alone.
LEMMA IssuerMoves ==
  ASSUME TypeOK, [Next]_vars, NEW r \in Requests, pc[r] = "plan", pc'[r] = "mark"
  PROVE  /\ UNCHANGED <<call, ran>>
         /\ \A q \in Requests \ {r} : pc'[q] = pc[q]
<1>1. ASSUME NEW q \in Requests, Post(q) PROVE FALSE
  BY <1>1 DEF Post, Goto, TypeOK
<1>2. ASSUME NEW q \in Requests, Step(q) \/ Error(q) \/ Crash(q) PROVE q = r
  BY <1>2, Mover
<1>3. Step(r) \/ Error(r) \/ Crash(r)
  BY <1>1, <1>2 DEF Next, Quiet, vars, local, Expire, Login
<1>4. ASSUME NEW end \in Over, Finish(r, end) PROVE FALSE
  BY <1>4 DEF Finish, Goto, TypeOK, Over
<1>5. ~Release(r) /\ ~Execute(r)
  BY DEF Release, Execute
<1>6. UNCHANGED <<call, ran>>
  BY <1>3, <1>4, <1>5
  DEF Step, history, Over, Begin, Bump, Unclear, ReleaseRefused, Unmark, Refetch, Clear,
      Reject, Create, Update, Read, Suspend, Stash, Unstash, Restore, Propose, Mark,
      Answer, Persist, AppendTurn, Reply, Raise, Error, Crash
<1> QED  BY <1>3, <1>6, Mover

\* Asking for, withdrawing: steps that leave released calls alone.
LEMMA AskOrWithdraw ==
  ASSUME TypeOK, Located, TokensFlow, [Next]_vars, UNCHANGED <<call, ran>>
  PROVE  Confirmations!Next
<1>1. Executed' = Executed /\ Released' = Released
  BY DEF Executed, Released
<1>2. Unasked' \subseteq Unasked
  BY PointStep DEF Unasked
<1>3. CASE Waiting' \subseteq Waiting
  BY <1>1, <1>2, <1>3 DEF Confirmations!Next, Confirmations!Withdraw
<1>4. ASSUME NEW r \in Requests, NEW c \in Pending,
             session # None, session.active # None,
             pc[r] = "plan", pc'[r] = "mark", c.token = r,
             session' = SetAwaitingConfirmation(session, c)
      PROVE  Confirmations!Issue(r)
  <2>1. WellFormed(session)
    BY <1>4, SessionType
  <2>2. PICK a \in Task : session' = [session EXCEPT !.active = a] /\ a.pending = c
    BY <1>4, <2>1, SetAwaitingConfirmationActive
  <2>3. session' # None
    BY <2>1, <2>2, SetActiveType, NoRecordAssumption DEF WellFormed
  <2>4. Awaiting(a)
    BY <2>2, NoRecordAssumption DEF Awaiting
  <2>5. /\ r \in LiveTokens(session')
        /\ \A k \in LiveTokens(session) \ LiveTokens(session') :
             k = session.active.pending.token
    BY <1>4, <2>1, <2>2, <2>4, SetActiveTokens
  <2>6. LiveTokens(session') \subseteq LiveTokens(session) \cup {r}
    BY <1>4, <2>1, SetAwaitingConfirmationAdds
  <2>7. Waiting = LiveTokens(session) /\ Waiting' = LiveTokens(session')
    BY <1>4, <2>3 DEF Waiting
  <2>8. r \in Unasked /\ Unasked' = Unasked \ {r}
    BY <1>4, IssuerMoves DEF Unasked, BeforePlan
  <2> QED  BY <1>1, <2>5, <2>6, <2>7, <2>8 DEF Confirmations!Issue
<1>5. CASE session' # None /\ session # None /\ Comes(session', session)
  <2>1. Waiting' \subseteq Waiting
    BY <1>5, ComesKeeps DEF Waiting
  <2> QED  BY <1>3, <2>1
<1>6. ASSUME NEW r \in Requests, NEW slots \in Slots, session # None,
             session' = InitTask(session, r, slots)
      PROVE  Confirmations!Next
  <2>1. LiveTokens(session') \subseteq LiveTokens(session)
    BY <1>6, SessionType, InitTaskAdds
  <2> QED  BY <1>3, <1>6, <2>1 DEF Waiting
<1>7. CASE session' = session \/ session' = None
  BY <1>3, <1>7 DEF Waiting
<1> QED  BY <1>4, <1>5, <1>6, <1>7, SessionStep DEF SessionMoves, Confirmations!Next

\* Taking a pending confirmation.
LEMMA TakeStep ==
  ASSUME TypeOK, Located, TokensFlow, Unspent, NEW r \in Requests, Release(r)
  PROVE  Confirmations!Next
<1> DEFINE k == session.active.pending.token
<1>1. /\ session # None /\ Awaiting(session.active)
      /\ pc[r] = "release" /\ Goto(r, "unmarkRefetch")
      /\ session' = DropConfirmation(session)
      /\ call' = [call EXCEPT ![r] = session.active.pending] /\ ran' = ran
  BY DEF Release, TokenMatches, history
<1>2. WellFormed(session) /\ DistinctTokens(session) /\ session.active \in Task
  BY <1>1, SessionType DEF TokensFlow, Awaiting
<1>3. session.active.pending \in Pending /\ k \in Requests
  BY <1>1, <1>2 DEF Awaiting, Task, Pending
<1>4. PICK a \in Task : session' = [session EXCEPT !.active = a]
  BY <1>1, <1>2, DropConfirmationActive DEF Awaiting
<1>5. session' # None
  BY <1>2, <1>4, SetActiveType, NoRecordAssumption DEF WellFormed
<1>6. k \in LiveTokens(session)
  BY <1>1, <1>2, PlacesFacts DEF LiveTokens, TaskAt
<1>7. LiveTokens(session') = LiveTokens(session) \ {k}
  <2>1. k \notin LiveTokens(session')
    BY <1>1, <1>2, DropConfirmationRemoves
  <2>2. LiveTokens(session') \subseteq LiveTokens(session)
    BY <1>1, <1>2, DropConfirmationComes, ComesKeeps DEF Awaiting
  <2>3. \A u \in LiveTokens(session) : u \in LiveTokens(session') \/ u = k
    BY <1>2, <1>4, SetActiveTokens
  <2> QED  BY <2>1, <2>2, <2>3
<1>8. k \in Waiting /\ Waiting' = Waiting \ {k}
  BY <1>1, <1>5, <1>6, <1>7 DEF Waiting
<1>9. Unasked' = Unasked
  BY <1>1 DEF Unasked, BeforePlan, Goto, TypeOK
<1>10. Executed' = Executed
  BY <1>1 DEF Executed
<1>11. k \notin Executed
  BY <1>1, <1>6 DEF Executed, TokensFlow, Spent
<1>12. call[r] = None /\ call'[r] = session.active.pending /\ call'[r] # None
       /\ \A q \in Requests \ {r} : call'[q] = call[q]
  BY <1>1 DEF Unspent, TypeOK, Awaiting
<1>13. Released' = Released \cup {k}
  BY <1>3, <1>12 DEF Released
<1> HIDE DEF k
<1>14. Confirmations!Release(k)
  BY <1>8, <1>9, <1>10, <1>11, <1>13 DEF Confirmations!Release
<1> QED  BY <1>3, <1>14 DEF Confirmations!Next

\* A released call is in one request's hands.
LEMMA InOneHand ==
  ASSUME TypeOK, TokensFlow, NEW r \in Requests, call[r] # None
  PROVE  /\ call[r].token \in Released
         /\ \A q \in Requests \ {r} :
              /\ call[q] # None => call[q].token # call[r].token
              /\ ran[q] # call[r].token
<1>1. call[r].token \in Requests
  BY DEF TypeOK, Pending
<1>2. call[r].token \in Spent(r)
  BY <1>1 DEF Spent
<1>3. \A q \in Requests \ {r} : call[r].token \notin Spent(q)
  BY <1>2 DEF TokensFlow
<1> QED  BY <1>1, <1>3 DEF Spent, Released

\* Executing a released call.
LEMMA ExecuteStep ==
  ASSUME TypeOK, Located, TokensFlow, Unspent, NEW r \in Requests, Execute(r)
  PROVE  Confirmations!Next
<1> DEFINE t == call[r].token
<1>1. /\ pc[r] = "execute" /\ session' = session /\ call' = call
      /\ ran' = [ran EXCEPT ![r] = t]
      /\ \E next \in {"clear", "append"} : Goto(r, next)
  BY DEF Execute, redis
<1>2. call[r] # None /\ t \in Requests /\ ran[r] = None
  BY <1>1 DEF Located, Pending, Unspent, Holding
<1>3. t \in Released /\ \A q \in Requests \ {r} : ran[q] # t
  BY <1>2, InOneHand
<1>4. t \notin Executed
  BY <1>2, <1>3, NoneAssumption DEF Executed
<1>5. Executed' = Executed \cup {t}
  <2>1. ran'[r] = t /\ \A q \in Requests \ {r} : ran'[q] = ran[q]
    BY <1>1 DEF TypeOK
  <2> QED  BY <1>2, <2>1, NoneAssumption DEF Executed
<1>6. Released' = Released /\ Waiting' = Waiting
  BY <1>1 DEF Released, Waiting
<1>7. Unasked' = Unasked
  BY <1>1 DEF Unasked, BeforePlan, Goto, TypeOK
<1> HIDE DEF t
<1>8. Confirmations!Execute(t)
  BY <1>3, <1>4, <1>5, <1>6, <1>7 DEF Confirmations!Execute
<1> QED  BY <1>2, <1>8 DEF Confirmations!Next

\* A request that ends gives up the call it did not execute.
LEMMA FinishStep ==
  ASSUME TypeOK, TokensFlow, Unspent, NEW r \in Requests, NEW end \in Over, Finish(r, end)
  PROVE  Confirmations!Next
<1>1. /\ Goto(r, end) /\ session' = session /\ ran' = ran
      /\ call' = [call EXCEPT ![r] = None]
  BY DEF Finish, history
<1>2. Executed' = Executed /\ Waiting' = Waiting
  BY <1>1 DEF Executed, Waiting
<1>3. pc'[r] \notin BeforePlan /\ \A q \in Requests \ {r} : pc'[q] = pc[q]
  BY <1>1 DEF Goto, TypeOK, Over, BeforePlan
<1>4. call'[r] = None /\ \A q \in Requests \ {r} : call'[q] = call[q]
  BY <1>1 DEF TypeOK
<1>5. CASE call[r] = None
  <2>1. Released' = Released
    BY <1>4, <1>5 DEF Released
  <2>2. Unasked' \subseteq Unasked
    BY <1>3 DEF Unasked
  <2> QED  BY <1>2, <2>1, <2>2 DEF Confirmations!Next, Confirmations!Withdraw
<1>6. CASE call[r] # None
  <2> DEFINE t == call[r].token
  <2>1. /\ t \in Released
        /\ \A q \in Requests \ {r} : call[q] # None => call[q].token # t
    BY <1>6, InOneHand
  <2>2. t \in Requests
    BY <2>1 DEF Released
  <2>3. Released' = Released \ {t}
    BY <1>4, <2>1 DEF Released
  <2>4. Unasked' = Unasked
    BY <1>3, <1>6 DEF Unasked, Unspent
  <2> HIDE DEF t
  <2>5. CASE t \in Executed
    BY <1>2, <2>3, <2>4, <2>5 DEF Confirmations!Next, Confirmations!Withdraw
  <2>6. CASE t \notin Executed
    <3>1. Confirmations!Abandon(t)
      BY <1>2, <2>1, <2>3, <2>4, <2>6 DEF Confirmations!Abandon
    <3> QED  BY <2>2, <3>1 DEF Confirmations!Next
  <2> QED  BY <2>5, <2>6
<1> QED  BY <1>5, <1>6

\* Every step moves the confirmations as the abstract specification allows.
THEOREM ConfirmationImplemented == Spec => ImplementsConfirmation
<1>1. Init => TypeOK /\ Located /\ TokensFlow
  BY InitType, FlowInit
<1>2. Init => Unspent
  BY DEF Init, Unspent, Holding
<1>3. TypeOK /\ Located /\ TokensFlow /\ Unspent /\ [Next]_vars
        => (TypeOK /\ Located /\ TokensFlow /\ Unspent)'
  BY TypeStep, FlowStep, UnspentStep
<1>4. Init => Confirmations!Init
  <2> SUFFICES ASSUME Init PROVE Confirmations!Init
    OBVIOUS
  <2>1. Unasked = Requests /\ Executed = {} /\ Released = {}
    BY NoneAssumption DEF Init, Unasked, BeforePlan, Executed, Released
  <2>2. \A p \in Places(EmptySession) : TaskAt(EmptySession, p) = None
    BY DEF EmptySession, Places, TaskAt
  <2>3. Waiting = {}
    BY <2>2 DEF Init, Waiting, LiveTokens, Awaiting
  <2> QED  BY <2>1, <2>3 DEF Confirmations!Init
<1>5. TypeOK /\ Located /\ TokensFlow /\ Unspent /\ [Next]_vars => Confirmations!Next
  BY AskOrWithdraw, TakeStep, ExecuteStep, FinishStep, HandsStep
<1>6. Spec => [][Confirmations!Next]_<<Unasked, Waiting, Released \ Executed, Executed>>
  BY <1>1, <1>2, <1>3, <1>5, PTL DEF Spec
<1> QED  BY <1>1, <1>4, <1>6, PTL
         DEF Spec, ImplementsConfirmation, Confirmations!Spec, Confirmations!confirmationVars

-----------------------------------------------------------------------------
(***************************************************************************)
(* One message at a time.                                                  *)
(***************************************************************************)
\* No two requests are being processed.
Alone == \A r, q \in Requests : pc[r] \in Running /\ pc[q] \in Running => r = q

LEMMA AloneStep ==
  ASSUME MaxInFlight = 1, TypeOK, Alone, [Next]_vars
  PROVE  Alone'
<1>1. ASSUME NEW r \in Requests, Post(r) PROVE Alone'
  <2>1. InFlight = {}
    <3> SUFFICES ASSUME NEW q \in InFlight PROVE FALSE
      OBVIOUS
    <3>1. InFlight = {q}
      BY DEF Alone, InFlight
    <3>2. Cardinality(InFlight) = 1
      BY <3>1, FS_Singleton
    <3> QED  BY <1>1, <3>2 DEF Post
  <2>2. \A q \in Requests : pc[q] \notin Running
    BY <2>1 DEF InFlight
  <2>3. \A q \in Requests \ {r} : pc'[q] = pc[q]
    BY <1>1 DEF Post, Goto, TypeOK
  <2> QED  BY <2>2, <2>3 DEF Alone
<1>2. ASSUME NEW r \in Requests, Step(r) \/ Error(r) \/ Crash(r) PROVE Alone'
  BY <1>2, Mover DEF Alone
<1>3. CASE UNCHANGED pc
  BY <1>3 DEF Alone
<1> QED  BY <1>1, <1>2, <1>3 DEF Next, vars, local, Expire, Login, Quiet

\* After a step of r nobody else is being processed.
LEMMA OthersRest ==
  ASSUME TypeOK, Alone, NEW r \in Requests, Step(r) \/ Error(r) \/ Crash(r)
  PROVE  \A q \in Requests \ {r} : pc'[q] \notin Running
  BY Mover DEF Alone

-----------------------------------------------------------------------------
(***************************************************************************)
(* The context follows the task.  From the point where a request has the   *)
(* task it will plan for to the point where it persists the planner's      *)
(* memory, the active task is that task, with the slots it was read with.  *)
(***************************************************************************)
Sound(task) == /\ task.memory = task.id
               /\ Awaiting(task) => /\ task.pending.task = task.id
                                    /\ task.pending.booking = task.slots.booking

Attends(r) ==
  pc[r] \in {"unmarkPlan", "plan", "mark", "persist"} /\ session.active # None =>
    view[r].id = session.active.id /\ view[r].slots = session.active.slots

Attended ==
  session # None => /\ \A task \in Tasks(session) : Sound(task)
                    /\ \A r \in Requests : Attends(r)

LEMMA AttendedMove ==
  ASSUME NEW r \in Requests, \A q \in Requests \ {r} : pc'[q] \notin Running,
         session' # None => /\ \A task \in Tasks(session') : Sound(task)
                            /\ Attends(r)'
  PROVE  Attended'
<1>1. \A q \in Requests \ {r} : Attends(q)'
  BY DEF Attends, Running, Raising, Unmarking
<1> QED  BY <1>1 DEF Attended

\* A modifier that changes the active task only leaves all sound if that is.
LEMMA SoundActive ==
  ASSUME NEW s, WellFormed(s), \A task \in Tasks(s) : Sound(task),
         NEW a, a # None => Sound(a)
  PROVE  \A task \in Tasks([s EXCEPT !.active = a]) : Sound(task)
<1>1. Tasks([s EXCEPT !.active = a]) \subseteq Tasks(s) \cup {a}
  BY SetActivePlaces
<1> QED  BY <1>1 DEF Tasks

LEMMA ActiveSound ==
  ASSUME NEW s, WellFormed(s), \A task \in Tasks(s) : Sound(task), s.active # None
  PROVE  Sound(s.active)
<1>1. TaskAt(s, 0) = s.active /\ 0 \in Places(s)
  BY PlacesFacts DEF TaskAt
<1> QED  BY <1>1 DEF Tasks

LEMMA AttendedInit == Init => Attended
<1> SUFFICES ASSUME Init PROVE Attended
  OBVIOUS
<1>1. \A p \in Places(session) : TaskAt(session, p) = None
  BY DEF Init, EmptySession, Places, TaskAt
<1> QED  BY <1>1 DEF Init, Attended, Attends, Tasks

LEMMA AttendedStep ==
  ASSUME TypeOK, Located, Alone, Attended, [Next]_vars
  PROVE  Attended'
<1> DEFINE AllSound(s) == \A task \in Tasks(s) : Sound(task)
<1>0. session # None => /\ WellFormed(session)
                        /\ AllSound(session)
                        /\ session.active # None => Sound(session.active)
  BY SessionType, ActiveSound DEF Attended
<1>1. ASSUME NEW r \in Requests, Post(r) PROVE Attended'
  BY <1>1 DEF Post, Goto, TypeOK, Attended, Attends
<1>2. ASSUME NEW r \in Requests, Step(r) \/ Error(r) \/ Crash(r),
             session' # None => AllSound(session') /\ Attends(r)'
      PROVE  Attended'
  BY <1>2, OthersRest, AttendedMove
\* The request goes where it does not plan.
<1>3. ASSUME NEW r \in Requests, Step(r) \/ Error(r) \/ Crash(r),
             NEW next, Goto(r, next),
             next \notin {"unmarkPlan", "plan", "mark", "persist"},
             session' # None => AllSound(session')
      PROVE  Attended'
  <2>1. pc'[r] = next
    BY <1>3 DEF Goto, TypeOK
  <2> QED  BY <1>2, <1>3, <2>1 DEF Attends
\* It keeps the session.
<1>4. ASSUME NEW r \in Requests, Begin(r) PROVE Attended'
  <2>1. PICK next \in Targets \cup {"bump"} : Goto(r, next)
    BY <1>4, BranchesType DEF Begin
  <2>2. session' = session
    BY <1>4 DEF Begin, redis
  <2> QED  BY <1>0, <1>3, <1>4, <2>1, <2>2 DEF Step, Targets
<1>5. ASSUME NEW r \in Requests, ReleaseRefused(r) \/ Refetch(r) \/ Execute(r)
      PROVE  Attended'
  <2>1. session' = session
    BY <1>5 DEF ReleaseRefused, Refetch, Execute, redis
  <2>2. PICK next \in {"append", "execute", "clear"} : Goto(r, next)
    BY <1>5 DEF ReleaseRefused, Refetch, Execute
  <2> QED  BY <1>0, <1>3, <1>5, <2>1, <2>2 DEF Step
<1>6. ASSUME NEW r \in Requests, Unmark(r) \/ Mark(r) \/ Answer(r) PROVE Attended'
  <2>1. session' = session /\ view' = view
    BY <1>6 DEF Unmark, Mark, Answer, redis
  <2>2. pc'[r] \in {"plan", "persist"} => pc[r] \in {"unmarkPlan", "mark", "plan"}
    BY <1>6 DEF Unmark, Unmarking, AfterUnmark, Mark, Answer, Goto, TypeOK
  <2>3. pc'[r] \notin {"unmarkPlan", "mark"}
    BY <1>6 DEF Unmark, Unmarking, AfterUnmark, Mark, Answer, Goto, TypeOK
  <2>4. session # None => Attends(r)'
    BY <2>1, <2>2, <2>3 DEF Attended, Attends
  <2> QED  BY <1>0, <1>2, <1>6, <2>1, <2>4 DEF Step
<1>7. ASSUME NEW r \in Requests, Read(r) PROVE Attended'
  <2>1. session' = session /\ view'[r] = session.active
    BY <1>7 DEF Read, redis, TypeOK
  <2> QED  BY <1>0, <1>2, <1>7, <2>1 DEF Step, Attends
<1>8. ASSUME NEW r \in Requests, Reply(r) \/ Raise(r) \/ Error(r) \/ Crash(r)
      PROVE  Attended'
  <2>1. session' = session
    BY <1>8 DEF Reply, Raise, Error, Crash, Finish
  <2>2. PICK end \in Over : Goto(r, end)
    BY <1>8 DEF Reply, Raise, Error, Crash, Finish, Over
  <2> QED  BY <1>0, <1>3, <1>8, <2>1, <2>2 DEF Step, Over
\* It rearranges the session.
<1>9. ASSUME NEW r \in Requests,
             Unclear(r) \/ AppendTurn(r) \/ Clear(r) \/ Suspend(r) \/ Stash(r)
               \/ Unstash(r) \/ Restore(r)
      PROVE  session # None /\ AllSound(session')
  <2>1. session # None
    BY <1>9 DEF Unclear, AppendTurn, Clear, Suspend, Stash, Unstash, Restore
  <2>2. Rearranged(session', session)
    BY <1>0, <1>9, <2>1, UnclearRearranges, ClearTaskRearranges, SuspendTaskRearranges,
       StashTaskRearranges, RestoreLatestTaskRearranges
    DEF Unclear, BumpUnclear, AppendTurn, AppendMessages, Clear, Suspend, Stash,
        Unstash, Restore
  <2> QED  BY <1>0, <2>1, <2>2, RearrangedFacts
<1>10. ASSUME NEW r \in Requests,
              Unclear(r) \/ AppendTurn(r) \/ Clear(r) \/ Suspend(r) \/ Stash(r)
                \/ Unstash(r)
       PROVE  Attended'
  <2>1. PICK next \in {"append", "reply", "unmarkAppend", "init", "unstash"} : Goto(r, next)
    BY <1>10 DEF Unclear, AppendTurn, Clear, Suspend, Stash, Unstash
  <2> QED  BY <1>3, <1>9, <1>10, <2>1 DEF Step
<1>11. ASSUME NEW r \in Requests, Restore(r) PROVE Attended'
  <2>1. view'[r] = session'.active
    BY <1>11 DEF Restore, TypeOK
  <2> QED  BY <1>2, <1>9, <1>11, <2>1 DEF Step, Attends
\* It changes the active task.
<1>12. ASSUME session # None, NEW a, a # None => Sound(a),
              session' = [session EXCEPT !.active = a]
       PROVE  AllSound(session') /\ session'.active = a
  BY <1>0, <1>12, SoundActive, SetActivePlaces
<1>13. ASSUME NEW r \in Requests, Create(r) PROVE Attended'
  <2>1. PICK slots \in Slots : session' = InitTask(session, r, slots)
    BY <1>13 DEF Create
  <2>2. Sound(NewTask(r, slots))
    BY DEF Sound, NewTask, Awaiting
  <2>3. session # None /\ view'[r] = session'.active
    BY <1>13 DEF Create, TypeOK
  <2> QED  BY <1>2, <1>12, <1>13, <2>1, <2>2, <2>3 DEF Step, InitTask, Attends
<1>14. ASSUME NEW r \in Requests, Release(r) PROVE Attended'
  <2>1. session # None /\ session.active # None
    BY <1>14 DEF Release, TokenMatches, Awaiting
  <2>2. PICK a : /\ session' = [session EXCEPT !.active = a]
                 /\ a.id = session.active.id /\ a.memory = session.active.memory
                 /\ a.pending = None
    BY <1>0, <1>14, <2>1, DropConfirmationActive DEF Release
  <2>3. Sound(a)
    BY <1>0, <2>1, <2>2 DEF Sound, Awaiting
  <2> QED  BY <1>3, <1>12, <1>14, <2>1, <2>2, <2>3 DEF Step, Release
<1>15. ASSUME NEW r \in Requests, Reject(r) PROVE Attended'
  <2>1. session # None /\ session.active # None /\ view'[r] = session'.active
    BY <1>15 DEF Reject, TypeOK
  <2>2. PICK a : /\ session' = [session EXCEPT !.active = a]
                 /\ a.id = session.active.id /\ a.memory = session.active.memory
                 /\ a.pending = None
    BY <1>0, <1>15, <2>1, DropConfirmationActive DEF Reject
  <2>3. Sound(a)
    BY <1>0, <2>1, <2>2 DEF Sound, Awaiting
  <2> QED  BY <1>2, <1>12, <1>15, <2>1, <2>2, <2>3 DEF Step, Attends
<1>16. ASSUME NEW r \in Requests, Update(r) PROVE Attended'
  <2>1. session # None /\ session.active # None /\ view'[r] = session'.active
    BY <1>16 DEF Update, TypeOK
  <2>2. PICK a : /\ session' = [session EXCEPT !.active = a]
                 /\ a.id = session.active.id /\ a.memory = session.active.memory
                 /\ \/ /\ a.slots.booking = session.active.slots.booking
                       /\ a.pending = session.active.pending
                    \/ a.pending = None
    BY <1>0, <1>16, <2>1, UpdateSlotsActive DEF Update
  <2>3. Sound(a)
    BY <1>0, <2>1, <2>2 DEF Sound, Awaiting
  <2> QED  BY <1>2, <1>12, <1>16, <2>1, <2>2, <2>3 DEF Step, Attends
<1>17. ASSUME NEW r \in Requests, Bump(r) PROVE Attended'
  <2>1. session # None /\ intent[r] \in Intents
    BY <1>17 DEF Bump, Located
  <2>2. PICK next \in Targets \cup {"unmarkAppend"} : Goto(r, next)
    BY <1>17, <2>1, BranchesType DEF Bump
  <2>3. AllSound(session')
    <3>1. CASE ~Awaiting(session.active)
      BY <1>0, <1>17, <2>1, <3>1 DEF Bump, BumpConfirmationTurns
    <3>2. CASE Awaiting(session.active)
      <4>1. PICK a : /\ session' = [session EXCEPT !.active = a]
                     /\ a.id = session.active.id /\ a.slots = session.active.slots
                     /\ a.memory = session.active.memory
                     /\ a.pending = None \/ a.pending = session.active.pending
        BY <1>0, <1>17, <2>1, <3>2, BumpConfirmationTurnsActive DEF Bump
      <4>2. Sound(a)
        BY <1>0, <2>1, <3>2, <4>1 DEF Sound, Awaiting
      <4> QED  BY <1>12, <2>1, <4>1, <4>2
    <3> QED  BY <3>1, <3>2
  <2> QED  BY <1>3, <1>17, <2>2, <2>3 DEF Step, Targets
<1>18. ASSUME NEW r \in Requests, Propose(r) PROVE Attended'
  <2>1. /\ session # None /\ session.active # None /\ pc[r] = "plan"
        /\ view' = view
    BY <1>18 DEF Propose
  <2>2. view[r].id = session.active.id /\ view[r].slots = session.active.slots
    BY <2>1 DEF Attended, Attends
  <2>3. ProposedCall(r) \in Pending
    BY <2>1 DEF Located, ProposedCall, Task, Pending, Slots
  <2>4. PICK a : /\ session' = [session EXCEPT !.active = a]
                 /\ a.id = session.active.id /\ a.slots = session.active.slots
                 /\ a.memory = session.active.memory /\ a.pending = ProposedCall(r)
    BY <1>0, <1>18, <2>1, <2>3, SetAwaitingConfirmationActive DEF Propose
  <2>5. Sound(a)
    BY <1>0, <2>1, <2>2, <2>4 DEF Sound, ProposedCall
  <2> QED  BY <1>2, <1>12, <1>18, <2>1, <2>2, <2>4, <2>5 DEF Step, Attends
<1>19. ASSUME NEW r \in Requests, Persist(r) PROVE Attended'
  <2>1. CASE session # None /\ session.active # None
             /\ session' = UpdatePlannerMemory(session, view[r].id)
    <3>1. view[r].id = session.active.id /\ view[r].id \in Requests
      BY <1>19, <2>1 DEF Persist, Located, Task, Attended, Attends
    <3>2. PICK a \in Task :
            /\ session' = [session EXCEPT !.active = a]
            /\ a.id = session.active.id /\ a.slots = session.active.slots
            /\ a.memory = view[r].id /\ a.pending = session.active.pending
      <4>1. WellFormed(session)
        BY <1>0, <2>1
      <4> QED  BY <2>1, <3>1, <4>1, UpdatePlannerMemoryActive
    <3>3. Sound(a)
      BY <1>0, <2>1, <3>1, <3>2 DEF Sound, Awaiting
    <3> QED  BY <1>3, <1>12, <1>19, <2>1, <3>2, <3>3 DEF Step, Persist
  <2>2. CASE UNCHANGED session
    BY <1>0, <1>3, <1>19, <2>2 DEF Step, Persist
  <2> QED  BY <1>19, <2>1, <2>2 DEF Persist
<1>20. CASE Expire
  BY <1>20 DEF Expire, Attended
<1>21. CASE UNCHANGED <<session, pc, view>>
  BY <1>21 DEF Attended, Attends
<1> HIDE DEF AllSound
<1> QED
  BY <1>1, <1>4, <1>5, <1>6, <1>7, <1>8, <1>10, <1>11, <1>13, <1>14, <1>15, <1>16,
     <1>17, <1>18, <1>19, <1>20, <1>21
  DEF Next, Step, vars, redis, local, Login, Quiet

\* The invariant behind the three properties of context.
LEMMA AttendedCorrect ==
  ASSUME MaxInFlight = 1
  PROVE  Spec => [](TypeOK /\ Attended)
<1>1. Init => TypeOK /\ Located /\ Alone /\ Attended
  BY InitType, AttendedInit DEF Init, Alone, Running, Raising, Unmarking
<1>2. TypeOK /\ Located /\ Alone /\ Attended /\ [Next]_vars
        => (TypeOK /\ Located /\ Alone /\ Attended)'
  BY TypeStep, AloneStep, AttendedStep
<1> QED  BY <1>1, <1>2, PTL DEF Spec

LEMMA EachTask ==
  ASSUME Attended, session # None, NEW p \in Places(session), TaskAt(session, p) # None
  PROVE  Sound(TaskAt(session, p))
  BY DEF Attended, Tasks

\* One message at a time, a pending call sits in the task it was planned for,
\* whatever awaits fail, crashes or expiries there are.
THEOREM PendingBelongsToTaskCorrect ==
  ASSUME MaxInFlight = 1
  PROVE  Spec => []PendingBelongsToTask
<1>1. Attended => PendingBelongsToTask
  BY EachTask DEF PendingBelongsToTask, Sound, Awaiting
<1> QED  BY <1>1, AttendedCorrect, PTL

\* And it was planned from the slots its task has now.
THEOREM PendingFollowsSlotsCorrect ==
  ASSUME MaxInFlight = 1
  PROVE  Spec => []PendingFollowsSlots
<1>1. Attended => PendingFollowsSlots
  BY EachTask DEF PendingFollowsSlots, Sound, Awaiting
<1> QED  BY <1>1, AttendedCorrect, PTL

\* And a task's planner memory is its own.
THEOREM MemoryBelongsToTaskCorrect ==
  ASSUME MaxInFlight = 1
  PROVE  Spec => []MemoryBelongsToTask
<1>1. Attended => MemoryBelongsToTask
  BY EachTask DEF MemoryBelongsToTask, Sound
<1> QED  BY <1>1, AttendedCorrect, PTL

-----------------------------------------------------------------------------
(***************************************************************************)
(* The stash is in use only while a side question is being answered, by    *)
(* however many requests at once: nothing but the death of such a request  *)
(* leaves it behind.                                                       *)
(***************************************************************************)
StashAttended ==
  session # None /\ session.stashed # None => \E r \in Requests : pc[r] = "unstash"

LEMMA StashStep ==
  ASSUME Faults \subseteq {"expire"}, TypeOK, Located, StashAttended, [Next]_vars
  PROVE  StashAttended'
<1>0. session # None => WellFormed(session)
  BY SessionType
<1>1. ASSUME NEW r \in Requests, Stash(r) PROVE StashAttended'
  <2>1. pc'[r] = "unstash"
    BY <1>1 DEF Stash, Goto, TypeOK
  <2> QED  BY <2>1 DEF StashAttended
<1>2. ASSUME NEW r \in Requests, Unstash(r) \/ Restore(r) PROVE StashAttended'
  <2>1. session \in Session /\ session' = RestoreLatestTask(session)
    BY <1>0, <1>2 DEF Unstash, Restore, WellFormed
  <2>2. session'.stashed = None
    BY <2>1 DEF RestoreLatestTask, Session
  <2> QED  BY <2>2 DEF StashAttended
\* Everything else keeps the stash and a request that answers a side question.
<1>3. ASSUME session' # None => session # None /\ session'.stashed = session.stashed,
             \A q \in Requests : pc[q] = "unstash" => pc'[q] = "unstash"
      PROVE  StashAttended'
  BY <1>3 DEF StashAttended
<1>4. ASSUME NEW r \in Requests, pc[r] # "unstash", Step(r) \/ Error(r) \/ Crash(r),
             session' # None => session # None /\ session'.stashed = session.stashed
      PROVE  StashAttended'
  BY <1>3, <1>4, Mover
<1>5. ASSUME NEW r \in Requests,
             Begin(r) \/ ReleaseRefused(r) \/ Unmark(r) \/ Refetch(r) \/ Execute(r)
               \/ Read(r) \/ Mark(r) \/ Answer(r) \/ Reply(r)
      PROVE  StashAttended'
  <2>1. session' = session /\ pc[r] # "unstash"
    BY <1>5 DEF Begin, ReleaseRefused, Unmark, Unmarking, Refetch, Execute, Read, Mark,
                Answer, Reply, Finish, redis
  <2> QED  BY <1>4, <1>5, <2>1 DEF Step
<1>6. ASSUME session # None, NEW a, session' = [session EXCEPT !.active = a]
      PROVE  session'.stashed = session.stashed
  BY <1>0, <1>6, SetActivePlaces
<1>7. ASSUME NEW r \in Requests, Unclear(r) \/ AppendTurn(r) PROVE StashAttended'
  <2>1. session # None /\ session'.stashed = session.stashed /\ pc[r] # "unstash"
    BY <1>0, <1>7 DEF Unclear, BumpUnclear, AppendTurn, AppendMessages, WellFormed, Session
  <2> QED  BY <1>4, <1>7, <2>1 DEF Step
<1>8. ASSUME NEW r \in Requests, Suspend(r) PROVE StashAttended'
  <2>1. session # None /\ session'.stashed = session.stashed /\ pc[r] # "unstash"
    BY <1>0, <1>8 DEF Suspend, SuspendTask, WellFormed, Session
  <2> QED  BY <1>4, <1>8, <2>1 DEF Step
<1>9. ASSUME NEW r \in Requests,
             Bump(r) \/ Release(r) \/ Clear(r) \/ Reject(r) \/ Create(r) \/ Update(r)
               \/ Propose(r)
      PROVE  StashAttended'
  <2>1. session # None /\ pc[r] # "unstash"
    BY <1>9 DEF Bump, Release, Clear, Reject, Create, Update, Propose
  <2>2. Bump(r) => session' = session \/ \E a : session' = [session EXCEPT !.active = a]
    <3>1. CASE ~Awaiting(session.active)
      BY <3>1 DEF Bump, BumpConfirmationTurns
    <3>2. CASE Awaiting(session.active)
      BY <1>0, <2>1, <3>2, BumpConfirmationTurnsActive DEF Bump
    <3> QED  BY <3>1, <3>2
  <2>3. Release(r) \/ Reject(r) => \E a : session' = [session EXCEPT !.active = a]
    BY <1>0, <2>1, DropConfirmationActive DEF Release, TokenMatches, Awaiting, Reject
  <2>4. Clear(r) \/ Create(r) => \E a : session' = [session EXCEPT !.active = a]
    BY DEF Clear, ClearTask, Create, InitTask
  <2>5. Update(r) => \E a : session' = [session EXCEPT !.active = a]
    BY <1>0, <2>1, UpdateSlotsActive DEF Update
  <2>6. Propose(r) => \E a : session' = [session EXCEPT !.active = a]
    <3>1. Propose(r) => ProposedCall(r) \in Pending
      BY DEF Propose, Located, ProposedCall, Task, Pending, Slots
    <3> QED  BY <1>0, <2>1, <3>1, SetAwaitingConfirmationActive DEF Propose
  <2> QED  BY <1>4, <1>6, <1>9, <2>1, <2>2, <2>3, <2>4, <2>5, <2>6 DEF Step
<1>10. ASSUME NEW r \in Requests, Persist(r) PROVE StashAttended'
  <2>1. pc[r] # "unstash" /\ view[r].id \in Requests
    BY <1>10 DEF Persist, Located, Task
  <2>2. \/ session' = session
        \/ session # None /\ \E a : session' = [session EXCEPT !.active = a]
    BY <1>0, <1>10, <2>1, UpdatePlannerMemoryActive DEF Persist
  <2> QED  BY <1>4, <1>6, <1>10, <2>1, <2>2 DEF Step
<1>11. ASSUME NEW r \in Requests, Post(r) PROVE StashAttended'
  <2>1. \A q \in Requests : pc[q] = "unstash" => pc'[q] = "unstash"
    BY <1>11 DEF Post, Goto, TypeOK
  <2> QED  BY <1>3, <1>11, <2>1 DEF Post
\* Only an expired session makes a request at the stash fail.
<1>12. ASSUME NEW r \in Requests, Raise(r) PROVE StashAttended'
  <2>1. session' = session /\ (session # None => pc[r] # "unstash")
    BY <1>12 DEF Raise, Finish
  <2> QED  BY <1>4, <1>12, <2>1 DEF Step, StashAttended
<1>13. ~ \E r \in Requests : Error(r) \/ Crash(r)
  BY DEF Error, Crash
<1>14. CASE Expire
  BY <1>14 DEF Expire, StashAttended
<1>15. CASE UNCHANGED <<session, pc>>
  BY <1>15 DEF StashAttended
<1> QED
  BY <1>1, <1>2, <1>5, <1>7, <1>8, <1>9, <1>10, <1>11, <1>12, <1>13, <1>14, <1>15
  DEF Next, Step, vars, redis, local, Login, Quiet

\* Between messages nothing is left stashed, even after messages that
\* overlapped, unless an await failed or the process died.
THEOREM NothingStashedAtRestCorrect ==
  ASSUME Faults \subseteq {"expire"}
  PROVE  Spec => []NothingStashedAtRest
<1>1. Init => TypeOK /\ Located /\ StashAttended
  BY InitType DEF Init, EmptySession, StashAttended
<1>2. TypeOK /\ Located /\ StashAttended /\ [Next]_vars
        => (TypeOK /\ Located /\ StashAttended)'
  BY TypeStep, StashStep
<1>3. StashAttended => NothingStashedAtRest
  BY DEF StashAttended, NothingStashedAtRest, AtRest, InFlight, Running, Raising
<1> QED  BY <1>1, <1>2, <1>3, PTL DEF Spec

-----------------------------------------------------------------------------
(***************************************************************************)
(* A side question in the middle of a task: the task it read is the active *)
(* one until it is stashed, the stashed one until it is restored, and then *)
(* the active one again.                                                   *)
(***************************************************************************)
AsidePoints == {"bump", "stash", "unstash", "unmarkAppend", "append", "reply"}

AsideAt(r) ==
  /\ pc[r] \in {"bump", "stash"} => view[r] = session.active
  /\ pc[r] = "stash" => intent[r] = "side_question"
  /\ pc[r] = "unstash" /\ view[r] # None => session.stashed = view[r]
  /\ pc[r] \in Running \ {"begin"} /\ intent[r] = "side_question" =>
       /\ pc[r] \in AsidePoints
       /\ pc[r] \in {"unmarkAppend", "append"} /\ view[r] # None =>
            session.active = view[r]

Aside == session # None => \A r \in Requests : AsideAt(r)

\* A message with a task goes to the stash, and only a side question does.
LEMMA SideBranches ==
  ASSUME NEW class \in Intents, NEW task, NEW next \in Branches(class, task)
  PROVE  /\ next \in Targets
         /\ next = "stash" => class = "side_question"
         /\ next = "unstash" => task = None
         /\ class = "side_question" => next \in {"stash", "unstash"}
<1>1. next \in Targets
  BY BranchesType
<1> QED  BY <1>1 DEF Branches, Intents

\* No step of a message brings back a session that is gone.
LEMMA SessionStaysGone ==
  ASSUME session = None, [Next]_vars
  PROVE  session' = None
<1>1. ~ \E r \in Requests :
          Bump(r) \/ Unclear(r) \/ Release(r) \/ Clear(r) \/ Reject(r) \/ Create(r)
            \/ Update(r) \/ Suspend(r) \/ Stash(r) \/ Unstash(r) \/ Restore(r)
            \/ Propose(r) \/ AppendTurn(r)
  BY DEF Bump, Unclear, Release, Clear, Reject, Create, Update, Suspend, Stash,
         Unstash, Restore, Propose, AppendTurn
<1>2. ASSUME NEW r \in Requests, Persist(r) PROVE session' = session
  BY <1>2 DEF Persist
<1>3. CASE UNCHANGED session
  BY <1>3
<1> QED
  BY <1>1, <1>2, <1>3
  DEF Next, Step, Expire, Quiet, vars, redis, Post, Begin, ReleaseRefused, Unmark,
      Refetch, Execute, Read, Mark, Answer, Reply, Raise, Error, Crash, Finish, Login

LEMMA AsideStep ==
  ASSUME TypeOK, Located, Alone, Aside, [Next]_vars
  PROVE  Aside'
<1> SUFFICES ASSUME session' # None PROVE Aside'
  BY DEF Aside
<1>0. session # None /\ session \in Session /\ session' # None
  BY SessionStaysGone, SessionType DEF WellFormed
<1>1. ASSUME NEW r \in Requests, Step(r) \/ Error(r) \/ Crash(r), AsideAt(r)'
      PROVE  Aside'
  <2>1. \A q \in Requests \ {r} : AsideAt(q)'
    BY <1>1, OthersRest DEF AsideAt, Running, Raising, Unmarking
  <2> QED  BY <1>0, <1>1, <2>1 DEF Aside
\* Between the points of a side question the message is something else.
<1>2. ASSUME NEW r \in Requests, Step(r), pc[r] \notin AsidePoints \cup {"begin"},
             NEW next, Goto(r, next), next \notin {"bump", "stash", "unstash"},
             intent' = intent
      PROVE  Aside'
  <2>1. intent'[r] # "side_question"
    BY <1>0, <1>2, Mover DEF Aside, AsideAt
  <2>2. pc'[r] = next
    BY <1>2 DEF Goto, TypeOK
  <2> QED  BY <1>1, <1>2, <2>1, <2>2 DEF AsideAt
<1>3. ASSUME NEW r \in Requests,
             Unclear(r) \/ Release(r) \/ ReleaseRefused(r) \/ Refetch(r) \/ Execute(r)
               \/ Clear(r) \/ Reject(r) \/ Create(r)
      PROVE  Aside'
  <2>1. pc[r] \notin AsidePoints \cup {"begin"} /\ intent' = intent
    BY <1>3 DEF Unclear, Release, ReleaseRefused, Refetch, Execute, Clear, Reject, Create,
                AsidePoints
  <2>2. PICK next : Goto(r, next) /\ next \notin {"bump", "stash", "unstash"}
    BY <1>3 DEF Unclear, Release, ReleaseRefused, Refetch, Execute, Clear, Reject, Create
  <2> QED  BY <1>2, <1>3, <2>1, <2>2 DEF Step
<1>4. ASSUME NEW r \in Requests,
             Update(r) \/ Read(r) \/ Suspend(r) \/ Restore(r) \/ Propose(r) \/ Mark(r)
               \/ Answer(r) \/ Persist(r)
      PROVE  Aside'
  <2>1. pc[r] \notin AsidePoints \cup {"begin"} /\ intent' = intent
    BY <1>4 DEF Update, Read, Suspend, Restore, Propose, Mark, Answer, Persist, AsidePoints
  <2>2. PICK next : Goto(r, next) /\ next \notin {"bump", "stash", "unstash"}
    BY <1>4 DEF Update, Read, Suspend, Restore, Propose, Mark, Answer, Persist
  <2> QED  BY <1>2, <1>4, <2>1, <2>2 DEF Step
<1>5. ASSUME NEW r \in Requests, Unmark(r) PROVE Aside'
  <2>1. /\ pc[r] \in Unmarking /\ pc'[r] = AfterUnmark(pc[r])
        /\ session' = session /\ view' = view /\ intent' = intent
    BY <1>5 DEF Unmark, Goto, TypeOK
  <2>2. CASE pc[r] = "unmarkAppend"
    <3>1. pc'[r] = "append" /\ pc[r] \in Running \ {"begin"}
      BY <2>1, <2>2 DEF AfterUnmark, Running, Unmarking
    <3>2. AsideAt(r)'
      BY <1>0, <2>1, <2>2, <3>1 DEF Aside, AsideAt, AsidePoints
    <3> QED  BY <1>1, <1>5, <3>2 DEF Step
  <2>3. CASE pc[r] # "unmarkAppend"
    <3>1. pc[r] \notin AsidePoints \cup {"begin"}
      BY <2>1, <2>3 DEF Unmarking, AsidePoints
    <3>2. Goto(r, AfterUnmark(pc[r])) /\ AfterUnmark(pc[r]) \notin {"bump", "stash", "unstash"}
      BY <1>5 DEF Unmark, Unmarking, AfterUnmark
    <3> QED  BY <1>2, <1>5, <2>1, <3>1, <3>2 DEF Step
  <2> QED  BY <2>2, <2>3
\* The side question, point by point.
<1>6. ASSUME NEW r \in Requests, Begin(r) PROVE Aside'
  <2>1. PICK class \in Intents :
          /\ \E next \in Branches(class, session.active) \cup {"bump"} : pc'[r] = next
          /\ intent'[r] = class /\ view'[r] = session.active
    BY <1>6 DEF Begin, Goto, TypeOK
  <2>2. PICK next \in Branches(class, session.active) \cup {"bump"} : pc'[r] = next
    BY <2>1
  <2>3. session' = session
    BY <1>6 DEF Begin, redis
  <2>4. /\ next \in Targets \cup {"bump"}
        /\ next = "stash" => class = "side_question"
        /\ next = "unstash" => session.active = None
        /\ class = "side_question" => next \in {"stash", "unstash", "bump"}
    BY SideBranches
  <2>5. AsideAt(r)'
    BY <2>1, <2>2, <2>3, <2>4 DEF AsideAt, AsidePoints
  <2> QED  BY <1>1, <1>6, <2>5 DEF Step
<1>7. ASSUME NEW r \in Requests, Bump(r) PROVE Aside'
  <2>1. intent[r] \in Intents /\ intent' = intent /\ view'[r] = session'.active
    BY <1>7 DEF Bump, Located, TypeOK
  <2>2. PICK next \in Branches(intent[r], session'.active) \cup {"unmarkAppend"} : pc'[r] = next
    BY <1>7 DEF Bump, Goto, TypeOK
  <2>3. /\ next \in Targets \cup {"unmarkAppend"}
        /\ next = "stash" => intent[r] = "side_question"
        /\ next = "unstash" => session'.active = None
        /\ intent[r] = "side_question" => next \in {"stash", "unstash", "unmarkAppend"}
    BY <2>1, SideBranches
  <2>4. AsideAt(r)'
    BY <2>1, <2>2, <2>3 DEF AsideAt, AsidePoints, Targets
  <2> QED  BY <1>1, <1>7, <2>4 DEF Step
<1>8. ASSUME NEW r \in Requests, Stash(r) PROVE Aside'
  <2>1. pc[r] = "stash" /\ pc'[r] = "unstash" /\ view' = view /\ intent' = intent
    BY <1>8 DEF Stash, Goto, TypeOK
  <2>2. session'.stashed = session.active
    BY <1>0, <1>8 DEF Stash, StashTask, Session
  <2>3. AsideAt(r)'
    BY <1>0, <2>1, <2>2 DEF Aside, AsideAt, AsidePoints
  <2> QED  BY <1>1, <1>8, <2>3 DEF Step
<1>9. ASSUME NEW r \in Requests, Unstash(r) PROVE Aside'
  <2>1. pc[r] = "unstash" /\ pc'[r] = "append" /\ view' = view /\ intent' = intent
    BY <1>9 DEF Unstash, Goto, TypeOK
  <2>2. view[r] # None => session'.active = view[r]
    <3>1. session.stashed # None => session'.active = session.stashed
      BY <1>0, <1>9 DEF Unstash, RestoreLatestTask, Session
    <3> QED  BY <1>0, <2>1, <3>1 DEF Aside, AsideAt
  <2>3. AsideAt(r)'
    BY <1>0, <2>1, <2>2 DEF Aside, AsideAt, AsidePoints
  <2> QED  BY <1>1, <1>9, <2>3 DEF Step
<1>10. ASSUME NEW r \in Requests, AppendTurn(r) PROVE Aside'
  <2>1. pc'[r] = "reply"
    BY <1>10 DEF AppendTurn, Goto, TypeOK
  <2>2. AsideAt(r)'
    BY <2>1 DEF AsideAt, AsidePoints
  <2> QED  BY <1>1, <1>10, <2>2 DEF Step
<1>11. ASSUME NEW r \in Requests, Reply(r) \/ Raise(r) \/ Error(r) \/ Crash(r)
       PROVE  Aside'
  <2>1. pc'[r] \in Over
    BY <1>11 DEF Reply, Raise, Error, Crash, Finish, Goto, TypeOK, Over
  <2>2. AsideAt(r)'
    BY <2>1 DEF AsideAt, Over, Running, Raising, Unmarking
  <2> QED  BY <1>1, <1>11, <2>2 DEF Step
<1>12. ASSUME NEW r \in Requests, Post(r) PROVE Aside'
  <2>1. /\ session' = session /\ view' = view /\ intent' = intent
        /\ pc' = [pc EXCEPT ![r] = "begin"]
    BY <1>12 DEF Post, Goto
  <2>2. AsideAt(r)'
    BY <2>1 DEF AsideAt, TypeOK
  <2>3. ASSUME NEW q \in Requests \ {r} PROVE AsideAt(q)'
    BY <1>0, <2>1 DEF Aside, AsideAt, TypeOK
  <2> QED  BY <1>0, <2>2, <2>3 DEF Aside
<1>13. CASE Expire
  BY <1>13 DEF Expire
<1>14. CASE UNCHANGED <<session, local>>
  BY <1>0, <1>14 DEF Aside, AsideAt, local
<1> QED
  BY <1>3, <1>4, <1>5, <1>6, <1>7, <1>8, <1>9, <1>10, <1>11, <1>12, <1>13, <1>14
  DEF Next, Step, vars, redis, Login, Quiet

\* One message at a time, a side question asked in the middle of a task
\* leaves that task active and unchanged while the session lives, even if
\* awaits fail or the process dies.
THEOREM SideQuestionTransparentCorrect ==
  ASSUME MaxInFlight = 1
  PROVE  Spec => []SideQuestionTransparent
<1>1. Init => TypeOK /\ Located /\ Alone /\ Aside
  <2> SUFFICES ASSUME Init PROVE Alone /\ Aside
    BY InitType
  <2> QED  BY DEF Init, Alone, Aside, AsideAt, Running, Raising, Unmarking
<1>2. TypeOK /\ Located /\ Alone /\ Aside /\ [Next]_vars
        => (TypeOK /\ Located /\ Alone /\ Aside)'
  BY TypeStep, AloneStep, AsideStep
<1>3. Aside => SideQuestionTransparent
  BY DEF Aside, AsideAt, SideQuestionTransparent, Running, Raising
<1> QED  BY <1>1, <1>2, <1>3, PTL DEF Spec

-----------------------------------------------------------------------------
(***************************************************************************)
(* Turns and the messages that ignored a confirmation: they agree for      *)
(* every task of the session, but for the active one while a message that  *)
(* was counted has yet to count its turn.                                  *)
(***************************************************************************)
Tally(task, seen) ==
  Awaiting(task) => /\ task.turns < ConfirmationTimeoutTurns
                    /\ seen[task.pending.token] = task.turns

Bumping == \E r \in Requests : pc[r] = "bump"

Tallied ==
  /\ \A r \in Requests : pc[r] \in BeforePlan => ignored[r] = 0
  /\ session # None =>
       /\ \A p \in Places(session) : p # 0 => Tally(TaskAt(session, p), ignored)
       /\ ~Bumping => Tally(session.active, ignored)
       /\ Bumping /\ Awaiting(session.active) =>
            /\ session.active.turns < ConfirmationTimeoutTurns
            /\ ignored[session.active.pending.token] = session.active.turns + 1

LEMMA TalliedInit == Init => Tallied
<1> SUFFICES ASSUME Init PROVE Tallied
  OBVIOUS
<1>1. \A p \in Places(session) : TaskAt(session, p) = None
  BY DEF Init, EmptySession, Places, TaskAt
<1>2. session.active = None
  BY DEF Init, EmptySession
<1> QED  BY <1>1, <1>2 DEF Init, Tallied, Tally, Awaiting

\* The counts of requests that have no token yet stay zero.
LEMMA UncountedStep ==
  ASSUME TypeOK, Located, TokensFlow, Tallied, [Next]_vars
  PROVE  \A r \in Requests : pc'[r] \in BeforePlan => ignored'[r] = 0
<1>1. ASSUME NEW r \in Requests, Begin(r), NEW q \in Requests, q \notin LiveTokens(session)
      PROVE  ignored'[q] = ignored[q]
  <2>1. session # None /\ 0 \in Places(session) /\ TaskAt(session, 0) = session.active
    BY <1>1, SessionType, PlacesFacts DEF Begin, TaskAt
  <2>2. Awaiting(session.active) => session.active.pending.token \in LiveTokens(session)
    BY <2>1 DEF LiveTokens
  <2>3. \/ ignored' = ignored
        \/ /\ Awaiting(session.active)
           /\ ignored' = [ignored EXCEPT ![session.active.pending.token] = @ + 1]
    BY <1>1 DEF Begin
  <2> QED  BY <1>1, <2>2, <2>3 DEF TypeOK
<1>2. ASSUME ~ \E r \in Requests : Begin(r)
      PROVE  ignored' = ignored
  <2>1. ASSUME NEW r \in Requests, Post(r) \/ Bump(r) \/ Unclear(r) \/ Release(r)
                  \/ ReleaseRefused(r) \/ Unmark(r) \/ Refetch(r) \/ Execute(r)
                  \/ Clear(r)
        PROVE  ignored' = ignored
    BY <2>1 DEF history, Post, Bump, Unclear, Release, ReleaseRefused, Unmark, Refetch,
                Execute, Clear
  <2>2. ASSUME NEW r \in Requests, Reject(r) \/ Create(r) \/ Update(r) \/ Read(r)
                  \/ Suspend(r) \/ Stash(r) \/ Unstash(r) \/ Restore(r)
        PROVE  ignored' = ignored
    BY <2>2 DEF history, Reject, Create, Update, Read, Suspend, Stash, Unstash, Restore
  <2>3. ASSUME NEW r \in Requests, Propose(r) \/ Mark(r) \/ Answer(r) \/ Persist(r)
                  \/ AppendTurn(r) \/ Reply(r) \/ Raise(r) \/ Error(r) \/ Crash(r)
        PROVE  ignored' = ignored
    BY <2>3 DEF history, Propose, Mark, Answer, Persist, AppendTurn, Reply, Raise, Error,
                Crash, Finish
  <2>4. Expire \/ Login \/ Quiet \/ UNCHANGED vars => ignored' = ignored
    BY DEF Expire, Login, Quiet, vars, history
  <2> QED  BY <1>2, <2>1, <2>2, <2>3, <2>4 DEF Next, Step
<1>3. ASSUME NEW q \in Requests, pc'[q] \in BeforePlan PROVE ignored'[q] = 0
  <2>1. pc[q] \in BeforePlan /\ ignored[q] = 0
    BY <1>3, PointStep DEF Tallied
  <2>2. CASE session = None
    <3>1. ~ \E r \in Requests : Begin(r)
      BY <2>2 DEF Begin
    <3> QED  BY <1>2, <2>1, <3>1
  <2>3. CASE session # None
    <3>1. q \notin LiveTokens(session)
      BY <2>1, <2>3 DEF TokensFlow
    <3> QED  BY <1>1, <1>2, <2>1, <3>1
  <2> QED  BY <2>2, <2>3
<1> QED  BY <1>3

\* What the steps between the two counters do to the tasks: they move and
\* drop them, change none of the counters, or make a call pending afresh.
LEMMA CountersKept ==
  ASSUME TypeOK, Located, NEW r \in Requests, Step(r), ~Begin(r), ~Bump(r),
         session' # None
  PROVE  /\ session # None /\ ignored' = ignored
         /\ \A task \in Tasks(session') :
              \/ task \in Tasks(session)
              \/ task.pending = None
              \/ /\ Awaiting(session.active)
                 /\ task.pending = session.active.pending
                 /\ task.turns = session.active.turns
              \/ pc[r] = "plan" /\ task.pending.token = r /\ task.turns = 0
<1> DEFINE Kept(task) ==
              \/ task \in Tasks(session)
              \/ task.pending = None
              \/ /\ Awaiting(session.active)
                 /\ task.pending = session.active.pending
                 /\ task.turns = session.active.turns
              \/ pc[r] = "plan" /\ task.pending.token = r /\ task.turns = 0
           AllKept == session # None /\ \A task \in Tasks(session') : Kept(task)
<1>0. session # None => WellFormed(session)
  BY SessionType
<1>1. ignored' = ignored
  BY DEF Step, history, Unclear, Release, ReleaseRefused, Unmark, Refetch, Execute, Clear,
         Reject, Create, Update, Read, Suspend, Stash, Unstash, Restore, Propose, Mark,
         Answer, Persist, AppendTurn, Reply, Raise, Finish
<1>2. ASSUME session' = session PROVE AllKept
  BY <1>2
<1>3. ASSUME Unclear(r) \/ AppendTurn(r) \/ Clear(r) \/ Suspend(r) \/ Stash(r) \/ Unstash(r)
             \/ Restore(r) PROVE AllKept
  <2>1. session # None
    BY <1>3 DEF Unclear, AppendTurn, Clear, Suspend, Stash, Unstash, Restore
  <2>2. Rearranged(session', session)
    BY <1>0, <1>3, <2>1, UnclearRearranges, ClearTaskRearranges, SuspendTaskRearranges,
       StashTaskRearranges, RestoreLatestTaskRearranges
    DEF Unclear, BumpUnclear, AppendTurn, AppendMessages, Clear, Suspend, Stash,
        Unstash, Restore
  <2> QED  BY <2>1, <2>2, RearrangedFacts
<1>4. ASSUME session # None, NEW a, Kept(a), session' = [session EXCEPT !.active = a]
      PROVE  AllKept
  <2>1. Tasks(session') \subseteq Tasks(session) \cup {a}
    BY <1>0, <1>4, SetActivePlaces
  <2> QED  BY <1>4, <2>1
<1>5. ASSUME Release(r) \/ Reject(r) PROVE AllKept
  <2>1. session # None /\ session.active # None /\ session' = DropConfirmation(session)
    BY <1>5 DEF Release, TokenMatches, Awaiting, Reject
  <2>2. PICK a : session' = [session EXCEPT !.active = a] /\ a.pending = None
    BY <1>0, <2>1, DropConfirmationActive
  <2> QED  BY <1>4, <2>1, <2>2
<1>6. ASSUME Create(r) PROVE AllKept
  <2>1. PICK slots \in Slots : session' = [session EXCEPT !.active = NewTask(r, slots)]
    BY <1>6 DEF Create, InitTask
  <2>2. NewTask(r, slots).pending = None /\ session # None
    BY <1>6 DEF NewTask, Create
  <2> QED  BY <1>4, <2>1, <2>2
<1>7. ASSUME Update(r) PROVE AllKept
  <2>1. session # None /\ session.active # None
    BY <1>7 DEF Update
  <2>2. PICK a : /\ session' = [session EXCEPT !.active = a]
                 /\ \/ /\ a.pending = session.active.pending
                       /\ a.turns = session.active.turns
                    \/ a.pending = None
    BY <1>0, <1>7, <2>1, UpdateSlotsActive DEF Update
  <2>3. Kept(a)
    BY <2>1, <2>2 DEF Awaiting
  <2> QED  BY <1>4, <2>1, <2>2, <2>3
<1>8. ASSUME Propose(r) PROVE AllKept
  <2>1. /\ session # None /\ session.active # None /\ pc[r] = "plan"
        /\ ProposedCall(r) \in Pending /\ ProposedCall(r).token = r
    BY <1>8 DEF Propose, Located, ProposedCall, Task, Pending, Slots
  <2>2. PICK a : /\ session' = [session EXCEPT !.active = a]
                 /\ a.pending = ProposedCall(r) /\ a.turns = 0
    BY <1>0, <1>8, <2>1, SetAwaitingConfirmationActive DEF Propose
  <2> QED  BY <1>4, <2>1, <2>2
<1>9. ASSUME Persist(r) /\ session' # session PROVE AllKept
  <2>1. session # None /\ session.active # None /\ view[r].id \in Requests
    BY <1>9 DEF Persist, Located, Task
  <2>2. PICK a : /\ session' = [session EXCEPT !.active = a]
                 /\ a.pending = session.active.pending /\ a.turns = session.active.turns
    BY <1>0, <1>9, <2>1, UpdatePlannerMemoryActive DEF Persist
  <2>3. Awaiting(session.active) \/ a.pending = None
    BY <2>1, <2>2 DEF Awaiting
  <2> QED  BY <1>4, <2>1, <2>2, <2>3
<1> HIDE DEF Kept
<1>10. AllKept
  BY <1>2, <1>3, <1>5, <1>6, <1>7, <1>8, <1>9
  DEF Step, redis, ReleaseRefused, Unmark, Refetch, Execute, Read, Mark, Answer, Reply,
      Raise, Finish
<1> QED  BY <1>1, <1>10 DEF Kept

\* The steps that start no count and end none.
LEMMA TallyKept ==
  ASSUME TypeOK, Located, Tallied, NEW r \in Requests, Step(r), ~Begin(r), ~Bump(r),
         ~Bumping, session' # None
  PROVE  \A task \in Tasks(session') : Tally(task, ignored')
<1>1. session # None /\ ignored' = ignored
  BY CountersKept
<1>2. Tally(session.active, ignored)
  BY <1>1 DEF Tallied
<1>3. \A task \in Tasks(session) : Tally(task, ignored)
  BY <1>1, <1>2 DEF Tallied, Tasks, TaskAt
<1>4. ASSUME NEW task \in Tasks(session') PROVE Tally(task, ignored)
  <2>1. CASE task \in Tasks(session)
    BY <1>3, <2>1
  <2>2. CASE task.pending = None
    BY <2>2 DEF Tally, Awaiting
  <2>3. CASE /\ Awaiting(session.active)
             /\ task.pending = session.active.pending
             /\ task.turns = session.active.turns
    BY <1>2, <2>3 DEF Tally
  <2>4. CASE pc[r] = "plan" /\ task.pending.token = r /\ task.turns = 0
    <3>1. ignored[r] = 0
      BY <2>4 DEF Tallied, BeforePlan
    <3> QED  BY <2>4, <3>1, TimeoutAssumption DEF Tally
  <2> QED  BY <1>1, <1>4, <2>1, <2>2, <2>3, <2>4, CountersKept
<1> QED  BY <1>1, <1>4

\* A task that is active or elsewhere in the session is one of its tasks.
LEMMA AllTally ==
  ASSUME NEW s, NEW seen, WellFormed(s), \A task \in Tasks(s) : Tally(task, seen)
  PROVE  /\ \A p \in Places(s) : Tally(TaskAt(s, p), seen)
         /\ Tally(s.active, seen)
<1>1. \A p \in Places(s) : Tally(TaskAt(s, p), seen)
  BY DEF Tasks, Tally, Awaiting
<1>2. 0 \in Places(s) /\ TaskAt(s, 0) = s.active
  BY PlacesFacts DEF TaskAt
<1> QED  BY <1>1, <1>2

LEMMA TalliedStep ==
  ASSUME Faults \subseteq {"expire"}, TypeOK, Located, TokensFlow, Alone, Tallied,
         [Next]_vars
  PROVE  Tallied'
<1> DEFINE Counted == session # None =>
             /\ \A p \in Places(session) : p # 0 => Tally(TaskAt(session, p), ignored)
             /\ ~Bumping => Tally(session.active, ignored)
             /\ Bumping /\ Awaiting(session.active) =>
                  /\ session.active.turns < ConfirmationTimeoutTurns
                  /\ ignored[session.active.pending.token] = session.active.turns + 1
<1>0. session # None => WellFormed(session) /\ 0 \in Places(session)
  BY SessionType, PlacesFacts
<1>1. Counted
  BY DEF Tallied
<1>2. ASSUME NEW r \in Requests, Step(r), pc[r] # "bump"
      PROVE  ~Bumping
  BY <1>2, Mover DEF Alone, Bumping, Running, Raising
<1>3. ASSUME NEW r \in Requests, Step(r), pc'[r] # "bump"
      PROVE  ~Bumping'
  BY <1>3, OthersRest DEF Bumping, Running, Raising
<1>4. ASSUME NEW r \in Requests, Begin(r) PROVE Counted'
  <2>1. /\ session # None /\ session' = session /\ pc[r] = "begin"
        /\ session.active \in Task \cup {None}
    BY <1>4, SessionType DEF Begin, redis
  <2>2. Tally(session.active, ignored)
    BY <1>1, <1>2, <1>4, <2>1 DEF Step
  <2>3. CASE ignored' = ignored /\ pc'[r] # "bump"
    BY <1>1, <1>3, <1>4, <2>1, <2>2, <2>3 DEF Step
  <2>4. CASE Awaiting(session.active) /\ pc'[r] = "bump"
    <3> DEFINE k == session.active.pending.token
    <3>1. k \in Requests /\ session.active.turns \in Nat
      BY <2>1, <2>4, TimeoutAssumption DEF Awaiting, Task, Pending
    <3>2. session.active.turns < ConfirmationTimeoutTurns /\ ignored[k] = session.active.turns
      BY <2>2, <2>4 DEF Tally
    <3>3. ignored' = [ignored EXCEPT ![k] = @ + 1]
      <4>1. PICK class \in Intents :
              LET unrelated == Awaiting(session.active) /\ class \notin Answers
              IN /\ \E next \in IF unrelated THEN {"bump"}
                                ELSE Branches(class, session.active) : pc'[r] = next
                 /\ ignored' = IF unrelated /\ ignored[k] < ConfirmationTimeoutTurns
                               THEN [ignored EXCEPT ![k] = @ + 1] ELSE ignored
        BY <1>4 DEF Begin, Goto, TypeOK
      <4>2. "bump" \notin Branches(class, session.active)
        BY BranchesType DEF Targets
      <4> QED  BY <2>4, <3>2, <4>1, <4>2
    <3>4. ignored'[k] = session.active.turns + 1
      BY <3>1, <3>2, <3>3 DEF TypeOK
    <3>5. ASSUME NEW p \in Places(session), p # 0
          PROVE  Tally(TaskAt(session, p), ignored')
      <4> SUFFICES ASSUME Awaiting(TaskAt(session, p))
                   PROVE  Tally(TaskAt(session, p), ignored')
        BY DEF Tally
      <4>1. TaskAt(session, p).pending.token # k
        BY <1>0, <2>1, <2>4, <3>5 DEF TokensFlow, DistinctTokens, TaskAt
      <4>2. TaskAt(session, p).pending.token \in Requests
        BY <1>0, <2>1, PlacesFacts DEF Awaiting, Task, Pending
      <4>3. ignored'[TaskAt(session, p).pending.token] = ignored[TaskAt(session, p).pending.token]
        BY <3>1, <3>3, <4>1, <4>2 DEF TypeOK
      <4> QED  BY <1>1, <2>1, <3>5, <4>3 DEF Tally
    <3>6. Bumping'
      BY <2>4 DEF Bumping
    <3> QED  BY <2>1, <3>2, <3>4, <3>5, <3>6
  <2>5. \/ ignored' = ignored /\ pc'[r] # "bump"
        \/ Awaiting(session.active) /\ pc'[r] = "bump"
    <3>1. PICK class \in Intents :
            LET unrelated == Awaiting(session.active) /\ class \notin Answers
            IN /\ \E next \in IF unrelated THEN {"bump"}
                              ELSE Branches(class, session.active) : pc'[r] = next
               /\ ~unrelated => ignored' = ignored
      BY <1>4 DEF Begin, Goto, TypeOK
    <3>2. "bump" \notin Branches(class, session.active)
      BY BranchesType DEF Targets
    <3> QED  BY <3>1, <3>2
  <2> QED  BY <2>3, <2>4, <2>5
<1>5. ASSUME NEW r \in Requests, Bump(r) PROVE Counted'
  <2>1. /\ session # None /\ ignored' = ignored /\ Bumping
        /\ session' = BumpConfirmationTurns(session)
    BY <1>5 DEF Bump, history, Bumping
  <2>2. ~Bumping'
    <3>1. intent[r] \in Intents
      BY <1>5 DEF Bump, Located
    <3>2. pc'[r] \in Targets \cup {"unmarkAppend"}
      BY <1>5, <3>1, BranchesType DEF Bump, Goto, TypeOK
    <3> QED  BY <1>3, <1>5, <3>2 DEF Step, Targets
  <2>3. CASE ~Awaiting(session.active)
    BY <1>1, <2>1, <2>2, <2>3 DEF BumpConfirmationTurns, Tally
  <2>4. CASE Awaiting(session.active)
    <3>1. PICK a : /\ session' = [session EXCEPT !.active = a]
                   /\ \/ a.pending = None
                      \/ /\ a.pending = session.active.pending
                         /\ a.turns = session.active.turns + 1
                         /\ a.turns < ConfirmationTimeoutTurns
      BY <1>0, <2>1, <2>4, BumpConfirmationTurnsActive
    <3>2. Tally(a, ignored)
      BY <1>1, <2>1, <2>4, <3>1 DEF Tally, Awaiting
    <3>3. /\ session'.active = a /\ Places(session') = Places(session)
          /\ \A p \in Places(session) : p # 0 => TaskAt(session', p) = TaskAt(session, p)
      BY <1>0, <2>1, <3>1, SetActivePlaces
    <3> QED  BY <1>1, <2>1, <2>2, <3>2, <3>3
  <2> QED  BY <2>3, <2>4
<1>6. ASSUME NEW r \in Requests, Step(r), ~Begin(r), ~Bump(r) PROVE Counted'
  <2> SUFFICES ASSUME session' # None PROVE Counted'
    OBVIOUS
  <2>1. session # None
    BY <1>6, CountersKept
  <2>2. pc[r] # "bump"
    BY <1>6, <2>1
    DEF Step, Unclear, Release, ReleaseRefused, Unmark, Unmarking, Refetch, Execute, Clear,
        Reject, Create, Update, Read, Suspend, Stash, Unstash, Restore, Propose, Mark,
        Answer, Persist, AppendTurn, Reply, Raise
  <2>3. pc'[r] # "bump"
    <3>1. PICK next : Goto(r, next) /\ next # "bump"
      BY <1>6 DEF Step, Unclear, Release, ReleaseRefused, Unmark, Unmarking, AfterUnmark,
        Refetch, Execute, Clear, Reject, Create, Update, Read, Suspend, Stash, Unstash,
        Restore, Propose, Mark, Answer, Persist, AppendTurn, Reply, Raise, Finish
    <3> QED  BY <3>1 DEF Goto, TypeOK
  <2>4. ~Bumping /\ ~Bumping'
    BY <1>2, <1>3, <1>6, <2>2, <2>3
  <2>5. \A task \in Tasks(session') : Tally(task, ignored')
    BY <1>6, <2>4, TallyKept
  <2>6. WellFormed(session')
    BY TypeStep, SessionType DEF TypeOK, WellFormed
  <2> QED  BY <2>4, <2>5, <2>6, AllTally
<1>7. ASSUME NEW r \in Requests, Post(r) PROVE Counted'
  <2>1. /\ session' = session /\ ignored' = ignored
        /\ pc[r] = "idle" /\ pc' = [pc EXCEPT ![r] = "begin"]
    BY <1>7 DEF Post, Goto, history
  <2>2. Bumping' <=> Bumping
    BY <2>1 DEF Bumping, TypeOK
  <2> QED  BY <1>1, <2>1, <2>2
<1>8. ~ \E r \in Requests : Error(r) \/ Crash(r)
  BY DEF Error, Crash
<1>9. ASSUME Expire PROVE Counted'
  BY <1>9 DEF Expire
<1>10. ASSUME UNCHANGED <<session, pc, ignored>> PROVE Counted'
  BY <1>1, <1>10 DEF Bumping
<1> HIDE DEF Counted
<1>11. Counted'
  BY <1>4, <1>5, <1>6, <1>7, <1>8, <1>9, <1>10
  DEF Next, vars, redis, local, history, Login, Quiet
<1> QED  BY <1>11, UncountedStep DEF Tallied, Counted

\* One message at a time, and while no await fails and the process lives, the
\* turns of a pending confirmation are the unrelated messages that saw it, and
\* it is gone after CONFIRMATION_TIMEOUT_TURNS of them.
THEOREM UnansweredExpiresCorrect ==
  ASSUME MaxInFlight = 1, Faults \subseteq {"expire"}
  PROVE  Spec => []UnansweredExpires
<1>1. Init => TypeOK /\ Located /\ TokensFlow /\ Alone /\ Tallied
  BY InitType, FlowInit, TalliedInit DEF Init, Alone, Running, Raising, Unmarking
<1>2. TypeOK /\ Located /\ TokensFlow /\ Alone /\ Tallied /\ [Next]_vars
        => (TypeOK /\ Located /\ TokensFlow /\ Alone /\ Tallied)'
  BY TypeStep, FlowStep, AloneStep, TalliedStep
<1>3. ASSUME Tallied PROVE UnansweredExpires
  <2> SUFFICES ASSUME session # None, AtRest, NEW p \in Places(session)
               PROVE  Tally(TaskAt(session, p), ignored)
    BY DEF UnansweredExpires, Tally
  <2>1. ~Bumping
    BY DEF AtRest, InFlight, Bumping, Running, Raising
  <2> QED  BY <1>3, <2>1 DEF Tallied, TaskAt
<1> QED  BY <1>1, <1>2, <1>3, PTL DEF Spec
=============================================================================
