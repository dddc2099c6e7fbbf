--------------------------- MODULE HarnessProofs ---------------------------
(***************************************************************************)
(* Theorems about Harness, for any number of calls, attempts and overlap,  *)
(* and any threshold of the circuit breaker.                               *)
(***************************************************************************)
EXTENDS Harness, TLAPS

\* Nobody but c is between the checks and the answer.
Alone(c) == \A d \in Calls : pc[d] \in Running => d = c

\* What a call that runs alone has read of the breaker is still so when it
\* writes.
Undisturbed ==
  ideal =>
    \A c \in Calls :
      /\ pc[c] \in Running => Alone(c)
      /\ pc[c] \in {"until", "halfOpen"} => cb.state = "OPEN"
      /\ pc[c] = "halfOpen" => cb.lapsed
      /\ pc[c] = "close" => cb.state = "HALF_OPEN"
      /\ pc[c] = "count" => cb.state # "HALF_OPEN"
      /\ pc[c] = "open" => Trips(cb.failures, cb.total)

\* A call that may still send has attempts left.
AttemptsLeft ==
  \A c \in Calls :
    /\ sent[c] <= Attempts
    /\ pc[c] \in Checking \cup {"idle"} => sent[c] = 0
    /\ pc[c] = "send" => sent[c] < Attempts

\* An effect is that of the single request of a write, whose answer is still
\* known, and an error has been returned.
Honest ==
  \A c \in Calls :
    /\ applied[c] =>
         /\ ~idempotent
         /\ sent[c] # 0
         /\ heard[c] \in {"ok", "server", "timeout", "broken", "unrecorded"}
    /\ status[c] = "ERROR" => pc[c] = "done" /\ ~applied[c]

LEMMA AttemptsType == ASSUME TypeOK PROVE Attempts \in 1 .. MaxAttempts
<1> QED  BY MaxAttemptsAssumption DEF TypeOK, Attempts

LEMMA NoAttempts == 0 \in 0 .. MaxAttempts
<1> QED  BY MaxAttemptsAssumption

LEMMA RunInit == Init => TypeOK /\ AttemptsLeft /\ Undisturbed
<1> SUFFICES ASSUME Init PROVE TypeOK /\ AttemptsLeft /\ Undisturbed
  OBVIOUS
<1>1. TypeOK
  BY NoAttempts DEF Init, TypeOK, States
<1>2. AttemptsLeft
  BY <1>1, AttemptsType DEF Init, AttemptsLeft
<1>3. Undisturbed
  BY DEF Init, Undisturbed, Running, Checking, Succeeding, Failing, Alone
<1> QED  BY <1>1, <1>2, <1>3

-----------------------------------------------------------------------------
(***************************************************************************)
(* Types and attempts.                                                     *)
(***************************************************************************)
LEMMA CallStep ==
  ASSUME TypeOK, AttemptsLeft, NEW c \in Calls, Step(c)
  PROVE  TypeOK' /\ AttemptsLeft'
<1> USE DEF Goto, Finish, Return, Log, tool, run
<1>1. /\ Attempts \in 1 .. MaxAttempts
      /\ Attempts' = Attempts
  <2>1. idempotent' = idempotent
    BY DEF Step, Start, ReadState, ReadUntil, HalfOpen, Evaluate, Send,
           ReadSuccess, Close, CountSuccess, CountFailure, CountFailureTotal,
           ReadFailure, Open, Gauge, Audit, Unrecorded, Raise
  <2> QED  BY <2>1, AttemptsType DEF Attempts
<1>2. CASE Start(c) \/ ReadState(c) \/ ReadUntil(c) \/ HalfOpen(c) \/ Evaluate(c)
  <2>1. TypeOK'
    <3>1. pc' \in [Calls -> {"idle", "done", "raised"} \cup Running]
      BY <1>2
      DEF Start, ReadState, ReadUntil, HalfOpen, Evaluate, TypeOK, Running,
          Checking
    <3>2. cb' \in [state : States, lapsed : BOOLEAN, failures : Nat, total : Nat]
      BY <1>2
      DEF Start, ReadState, ReadUntil, HalfOpen, Evaluate, TypeOK, States
    <3>3. status' \in [Calls -> Statuses \cup {"none"}]
      BY <1>2
      DEF Start, ReadState, ReadUntil, HalfOpen, Evaluate, TypeOK, Statuses
    <3>4. /\ sent' \in [Calls -> 0 .. MaxAttempts]
          /\ heard' \in [Calls -> Answers \cup {"none", "unrecorded"}]
          /\ applied' \in [Calls -> BOOLEAN]
      <4>1. \/ UNCHANGED <<sent, heard, applied>>
            \/ /\ sent' = [sent EXCEPT ![c] = 0]
               /\ heard' = [heard EXCEPT ![c] = "none"]
               /\ applied' = [applied EXCEPT ![c] = FALSE]
        BY <1>2 DEF Start, ReadState, ReadUntil, HalfOpen, Evaluate
      <4>2. sent' \in [Calls -> 0 .. MaxAttempts]
        BY <4>1, NoAttempts DEF TypeOK
      <4>3. heard' \in [Calls -> Answers \cup {"none", "unrecorded"}]
        BY <4>1 DEF TypeOK
      <4>4. applied' \in [Calls -> BOOLEAN]
        BY <4>1 DEF TypeOK
      <4> QED  BY <4>2, <4>3, <4>4
    <3>5. UNCHANGED <<idempotent, ideal, logged>>
      BY <1>2 DEF Start, ReadState, ReadUntil, HalfOpen, Evaluate
    <3> QED  BY <3>1, <3>2, <3>3, <3>4, <3>5 DEF TypeOK
  <2>2. AttemptsLeft'
    BY <1>1, <1>2
    DEF Start, ReadState, ReadUntil, HalfOpen, Evaluate, TypeOK, AttemptsLeft,
        Checking
  <2> QED  BY <2>1, <2>2
<1>3. CASE Send(c)
  <2>1. sent[c] \in Nat /\ sent[c] + 1 <= Attempts
    BY <1>1, <1>3 DEF Send, TypeOK, AttemptsLeft
  <2>2. PICK answer \in Answers :
          /\ heard' = [heard EXCEPT ![c] = answer]
          /\ \E effect \in Effects(answer) :
               applied' = [applied EXCEPT ![c] = @ \/ effect]
          /\ pc' = [pc EXCEPT ![c] =
                      IF answer = "ok" THEN "success"
                      ELSE IF Retried(c, answer) THEN "send" ELSE "failure"]
    BY <1>3 DEF Send
  <2>3. /\ sent' = [sent EXCEPT ![c] = @ + 1]
        /\ UNCHANGED <<idempotent, ideal, cb, status, logged>>
    BY <1>3 DEF Send
  <2>4. applied' \in [Calls -> BOOLEAN]
    BY <2>2 DEF Effects, TypeOK
  <2>5. pc' \in [Calls -> {"idle", "done", "raised"} \cup Running]
    BY <2>2 DEF TypeOK, Running, Succeeding, Failing
  <2>6. sent' \in [Calls -> 0 .. MaxAttempts]
    <3>1. sent[c] + 1 \in 0 .. MaxAttempts
      BY <1>1, <2>1, MaxAttemptsAssumption
    <3> QED  BY <2>3, <3>1 DEF TypeOK
  <2>7. TypeOK'
    BY <2>2, <2>3, <2>4, <2>5, <2>6 DEF TypeOK
  <2>8. AttemptsLeft'
    <3> SUFFICES ASSUME NEW d \in Calls
                 PROVE  /\ sent'[d] <= Attempts
                        /\ pc'[d] \in Checking \cup {"idle"} => sent'[d] = 0
                        /\ pc'[d] = "send" => sent'[d] < Attempts
      BY <1>1 DEF AttemptsLeft
    <3>1. CASE d # c
      <4>1. sent'[d] = sent[d] /\ pc'[d] = pc[d]
        BY <2>2, <2>3, <3>1 DEF TypeOK
      <4> QED  BY <4>1 DEF AttemptsLeft
    <3>2. CASE d = c
      <4>1. /\ sent'[c] = sent[c] + 1
            /\ pc'[c] = IF answer = "ok" THEN "success"
                        ELSE IF Retried(c, answer) THEN "send" ELSE "failure"
        BY <2>2, <2>3 DEF TypeOK
      <4>2. pc'[c] \notin Checking \cup {"idle"}
        BY <4>1 DEF Checking
      <4>3. pc'[c] = "send" => sent[c] + 1 < Attempts
        BY <4>1 DEF Retried
      <4> QED  BY <2>1, <3>2, <4>1, <4>2, <4>3
    <3> QED  BY <3>1, <3>2
  <2> QED  BY <2>7, <2>8
<1>4. CASE \/ ReadSuccess(c) \/ Close(c) \/ CountSuccess(c) \/ CountFailure(c)
           \/ CountFailureTotal(c) \/ ReadFailure(c) \/ Open(c)
  <2>1. TypeOK'
    <3>1. pc' \in [Calls -> {"idle", "done", "raised"} \cup Running]
      BY <1>4
      DEF ReadSuccess, Close, CountSuccess, CountFailure, CountFailureTotal,
          ReadFailure, Open, TypeOK, Running, Succeeding, Failing
    <3>2. cb' \in [state : States, lapsed : BOOLEAN, failures : Nat, total : Nat]
      <4>1. /\ cb = [state |-> cb.state, lapsed |-> cb.lapsed,
                     failures |-> cb.failures, total |-> cb.total]
            /\ cb.state \in States /\ cb.lapsed \in BOOLEAN
            /\ cb.failures \in Nat /\ cb.total \in Nat
        BY DEF TypeOK
      <4>2. CASE ReadSuccess(c) \/ ReadFailure(c)
        BY <4>2 DEF ReadSuccess, ReadFailure, TypeOK
      <4>3. CASE Close(c)
        BY <4>1, <4>3 DEF Close, TypeOK, States
      <4>4. CASE CountFailure(c)
        BY <4>1, <4>4 DEF CountFailure, TypeOK
      <4>5. CASE CountSuccess(c) \/ CountFailureTotal(c)
        BY <4>1, <4>5 DEF CountSuccess, CountFailureTotal, TypeOK
      <4>6. CASE Open(c)
        BY <4>1, <4>6 DEF Open, TypeOK, States
      <4> QED  BY <1>4, <4>2, <4>3, <4>4, <4>5, <4>6
    <3>3. UNCHANGED <<idempotent, ideal, sent, heard, status, logged, applied>>
      BY <1>4
      DEF ReadSuccess, Close, CountSuccess, CountFailure, CountFailureTotal,
          ReadFailure, Open
    <3> QED  BY <3>1, <3>2, <3>3 DEF TypeOK
  <2>2. AttemptsLeft'
    BY <1>1, <1>4
    DEF ReadSuccess, Close, CountSuccess, CountFailure, CountFailureTotal,
        ReadFailure, Open, TypeOK, AttemptsLeft, Checking
  <2> QED  BY <2>1, <2>2
<1>5. CASE Gauge(c) \/ Audit(c) \/ Unrecorded(c) \/ Raise(c)
  <2>1. TypeOK'
    <3>1. pc' \in [Calls -> {"idle", "done", "raised"} \cup Running]
      BY <1>5 DEF Gauge, Audit, Unrecorded, Raise, TypeOK, Running, Failing
    <3>2. status' \in [Calls -> Statuses \cup {"none"}]
      BY <1>5 DEF Gauge, Audit, Unrecorded, Raise, TypeOK, Statuses
    <3>3. /\ sent' \in [Calls -> 0 .. MaxAttempts]
          /\ heard' \in [Calls -> Answers \cup {"none", "unrecorded"}]
          /\ applied' \in [Calls -> BOOLEAN]
          /\ logged' \in [Calls -> BOOLEAN]
      <4>1. sent' = sent \/ sent' = [sent EXCEPT ![c] = 0]
        BY <1>5 DEF Gauge, Audit, Unrecorded, Raise
      <4>2. \/ heard' = heard
            \/ heard' = [heard EXCEPT ![c] = "none"]
            \/ heard' = [heard EXCEPT ![c] = "unrecorded"]
        BY <1>5 DEF Gauge, Audit, Unrecorded, Raise
      <4>3. applied' = applied \/ applied' = [applied EXCEPT ![c] = FALSE]
        BY <1>5 DEF Gauge, Audit, Unrecorded, Raise
      <4>4. logged' = logged \/ logged' = [logged EXCEPT ![c] = TRUE]
        BY <1>5 DEF Gauge, Audit, Unrecorded, Raise
      <4>5. sent' \in [Calls -> 0 .. MaxAttempts]
        BY <4>1, NoAttempts DEF TypeOK
      <4>6. heard' \in [Calls -> Answers \cup {"none", "unrecorded"}]
        BY <4>2 DEF TypeOK
      <4>7. applied' \in [Calls -> BOOLEAN] /\ logged' \in [Calls -> BOOLEAN]
        BY <4>3, <4>4 DEF TypeOK
      <4> QED  BY <4>5, <4>6, <4>7
    <3>4. UNCHANGED <<idempotent, ideal, cb>>
      BY <1>5 DEF Gauge, Audit, Unrecorded, Raise
    <3> QED  BY <3>1, <3>2, <3>3, <3>4 DEF TypeOK
  <2>2. AttemptsLeft'
    BY <1>1, <1>5
    DEF Gauge, Audit, Unrecorded, Raise, TypeOK, AttemptsLeft, Checking
  <2> QED  BY <2>1, <2>2
<1> QED  BY <1>2, <1>3, <1>4, <1>5 DEF Step

LEMMA TypeStep ==
  TypeOK /\ AttemptsLeft /\ [Next]_vars => (TypeOK /\ AttemptsLeft)'
<1> SUFFICES ASSUME TypeOK, AttemptsLeft, [Next]_vars
             PROVE  (TypeOK /\ AttemptsLeft)'
  OBVIOUS
<1>1. CASE \E c \in Calls : Step(c)
  BY <1>1, CallStep
<1>2. CASE Lapse
  BY <1>2 DEF Lapse, tool, run, TypeOK, AttemptsLeft, Attempts
<1>3. CASE Quiet \/ UNCHANGED vars
  BY <1>3 DEF Quiet, vars, tool, run, TypeOK, AttemptsLeft, Attempts
<1> QED  BY <1>1, <1>2, <1>3 DEF Next

\* Every variable keeps its type, and no execution sends more requests than
\* the tool's max_retries.
THEOREM HarnessTypeCorrect == Spec => []TypeOK
<1> QED  BY RunInit, TypeStep, PTL DEF Spec

\* A write is requested once per execution.
THEOREM WriteSentOnceCorrect == Spec => []WriteSentOnce
<1>1. TypeOK /\ AttemptsLeft => WriteSentOnce
  BY DEF TypeOK, AttemptsLeft, Attempts, WriteSentOnce
<1> QED  BY <1>1, RunInit, TypeStep, PTL DEF Spec
-----------------------------------------------------------------------------
(***************************************************************************)
(* Honest errors.                                                          *)
(***************************************************************************)
\* A call's step leaves the other calls alone.
LEMMA OthersKept ==
  ASSUME TypeOK, NEW c \in Calls, Step(c), NEW d \in Calls, d # c
  PROVE  /\ pc'[d] = pc[d] /\ sent'[d] = sent[d] /\ heard'[d] = heard[d]
         /\ status'[d] = status[d] /\ applied'[d] = applied[d]
<1> USE DEF Goto, Finish, Return, Log, run
<1>1. CASE Start(c) \/ ReadState(c) \/ ReadUntil(c) \/ HalfOpen(c) \/ Evaluate(c)
  BY <1>1 DEF Start, ReadState, ReadUntil, HalfOpen, Evaluate, TypeOK
<1>2. CASE Send(c)
  BY <1>2 DEF Send, TypeOK
<1>3. CASE \/ ReadSuccess(c) \/ Close(c) \/ CountSuccess(c) \/ CountFailure(c)
           \/ CountFailureTotal(c) \/ ReadFailure(c) \/ Open(c)
  BY <1>3 DEF ReadSuccess, Close, CountSuccess, CountFailure,
              CountFailureTotal, ReadFailure, Open, TypeOK
<1>4. CASE Gauge(c) \/ Audit(c) \/ Unrecorded(c) \/ Raise(c)
  BY <1>4 DEF Gauge, Audit, Unrecorded, Raise, TypeOK
<1> QED  BY <1>1, <1>2, <1>3, <1>4 DEF Step

\* What one step of the call itself does to the facts of Honest, and to the
\* property.
LEMMA HonestCall ==
  ASSUME TypeOK, AttemptsLeft, Honest, NEW c \in Calls, Step(c)
  PROVE  /\ applied'[c] =>
              /\ ~idempotent
              /\ sent'[c] # 0
              /\ heard'[c] \in {"ok", "server", "timeout", "broken", "unrecorded"}
         /\ status'[c] = "ERROR" => pc'[c] = "done" /\ ~applied'[c]
         /\ applied[c] /\ status'[c] = "ERROR" =>
              heard[c] \in {"timeout", "broken", "unrecorded"}
<1> USE DEF Goto, Finish, Return, Log, run
<1>1. /\ applied[c] =>
           /\ ~idempotent
           /\ sent[c] # 0
           /\ heard[c] \in {"ok", "server", "timeout", "broken", "unrecorded"}
      /\ status[c] = "ERROR" => pc[c] = "done" /\ ~applied[c]
      /\ pc[c] \in Checking \cup {"idle"} => ~applied[c]
      /\ ~idempotent /\ pc[c] = "send" => ~applied[c]
  BY DEF Honest, AttemptsLeft, Attempts, TypeOK
<1>2. CASE Start(c) \/ ReadState(c) \/ ReadUntil(c) \/ HalfOpen(c) \/ Evaluate(c)
  <2>1. pc[c] \in Checking \cup {"idle"}
    BY <1>2 DEF Start, ReadState, ReadUntil, HalfOpen, Evaluate, Checking
  <2>2. ~applied[c] /\ ~applied'[c]
    BY <1>1, <1>2, <2>1
    DEF Start, ReadState, ReadUntil, HalfOpen, Evaluate, TypeOK
  <2>3. status'[c] = "ERROR" => pc'[c] = "done"
    BY <1>1, <1>2, <2>1
    DEF Start, ReadState, ReadUntil, HalfOpen, Evaluate, TypeOK, Checking
  <2> QED  BY <2>2, <2>3
<1>3. CASE Send(c)
  <2>1. PICK answer \in Answers :
          /\ heard' = [heard EXCEPT ![c] = answer]
          /\ \E effect \in Effects(answer) :
               applied' = [applied EXCEPT ![c] = @ \/ effect]
    BY <1>3 DEF Send
  <2>2. PICK effect \in Effects(answer) :
          applied' = [applied EXCEPT ![c] = @ \/ effect]
    BY <2>1
  <2>3. /\ sent'[c] # 0
        /\ status'[c] # "ERROR"
    BY <1>1, <1>3 DEF Send, TypeOK
  <2>4. CASE idempotent
    <3>1. effect = FALSE
      BY <2>2, <2>4 DEF Effects
    <3>2. applied[c] = FALSE
      BY <1>1, <2>4 DEF TypeOK
    <3>3. applied'[c] = (applied[c] \/ effect)
      BY <2>2 DEF TypeOK
    <3>4. ~applied'[c] /\ ~applied[c]
      BY <3>1, <3>2, <3>3
    <3> QED  BY <2>3, <3>4
  <2>5. CASE ~idempotent
    <3>1. applied'[c] => effect
      BY <1>1, <1>3, <2>2, <2>5 DEF Send, TypeOK
    <3>2. effect => answer \in {"ok", "server", "timeout", "broken"}
      BY <2>2, <2>5 DEF Effects, Answers
    <3>3. heard'[c] = answer
      BY <2>1 DEF TypeOK
    <3> QED  BY <2>3, <2>5, <3>1, <3>2, <3>3
  <2> QED  BY <2>4, <2>5
<1>4. CASE \/ ReadSuccess(c) \/ Close(c) \/ CountSuccess(c) \/ CountFailure(c)
           \/ CountFailureTotal(c) \/ ReadFailure(c) \/ Open(c)
  BY <1>1, <1>4 DEF ReadSuccess, Close, CountSuccess, CountFailure,
                    CountFailureTotal, ReadFailure, Open, TypeOK
<1>5. CASE Gauge(c)
  BY <1>1, <1>5 DEF Gauge, Uncertain, TypeOK
<1>6. CASE Audit(c) \/ Unrecorded(c) \/ Raise(c)
  BY <1>1, <1>6 DEF Audit, Unrecorded, Raise, Succeeded, Succeeding, Checking,
                    Failing, TypeOK
<1> QED  BY <1>2, <1>3, <1>4, <1>5, <1>6 DEF Step

\* The step of ErrorsAreTruthful.
Truthful ==
  \A c \in Calls :
    applied[c] /\ status'[c] = "ERROR" =>
      heard[c] \in {"timeout", "broken", "unrecorded"}

LEMMA HonestStep ==
  TypeOK /\ AttemptsLeft /\ Honest /\ [Next]_vars => Honest' /\ Truthful
<1> SUFFICES ASSUME TypeOK, AttemptsLeft, Honest, [Next]_vars
             PROVE  Honest' /\ Truthful
  OBVIOUS
<1>1. CASE \E c \in Calls : Step(c)
  <2>1. PICK c \in Calls : Step(c)
    BY <1>1
  <2>2. idempotent' = idempotent
    BY <2>1 DEF Step, Start, ReadState, ReadUntil, HalfOpen, Evaluate, Send,
      ReadSuccess, Close, CountSuccess, CountFailure, CountFailureTotal,
      ReadFailure, Open, Gauge, Audit, Unrecorded, Raise, tool
  <2>3. \A d \in Calls : d # c =>
          /\ pc'[d] = pc[d] /\ sent'[d] = sent[d] /\ heard'[d] = heard[d]
          /\ status'[d] = status[d] /\ applied'[d] = applied[d]
    BY <2>1, OthersKept
  <2>4. /\ applied'[c] =>
             /\ ~idempotent
             /\ sent'[c] # 0
             /\ heard'[c] \in {"ok", "server", "timeout", "broken", "unrecorded"}
        /\ status'[c] = "ERROR" => pc'[c] = "done" /\ ~applied'[c]
        /\ applied[c] /\ status'[c] = "ERROR" =>
             heard[c] \in {"timeout", "broken", "unrecorded"}
    BY <2>1, HonestCall
  <2>5. Honest'
    BY <2>2, <2>3, <2>4 DEF Honest
  <2>6. Truthful
    BY <2>3, <2>4 DEF Honest, Truthful
  <2> QED  BY <2>5, <2>6
<1>2. CASE Lapse \/ Quiet \/ UNCHANGED vars
  BY <1>2 DEF Lapse, Quiet, vars, tool, run, Honest, Truthful
<1> QED  BY <1>1, <1>2 DEF Next

\* A write that took effect is reported as an error only when its answer is
\* unknown or could not be recorded.
THEOREM ErrorsAreTruthfulCorrect == Spec => ErrorsAreTruthful
<1>1. Init => Honest
  BY DEF Init, Honest
<1>2. Truthful => [\A c \in Calls :
                     applied[c] /\ status'[c] = "ERROR" =>
                       heard[c] \in {"timeout", "broken", "unrecorded"}]_vars
  BY DEF Truthful
<1> QED
  BY <1>1, <1>2, RunInit, TypeStep, HonestStep, PTL DEF Spec, ErrorsAreTruthful
-----------------------------------------------------------------------------
(***************************************************************************)
(* The breaker of calls that do not overlap.                               *)
(***************************************************************************)
LEMMA ToolKept == ASSUME [Next]_vars PROVE UNCHANGED <<idempotent, ideal>>
<1>1. ASSUME NEW c \in Calls, Step(c) PROVE UNCHANGED tool
  BY <1>1 DEF Step, Start, ReadState, ReadUntil, HalfOpen, Evaluate, Send,
    ReadSuccess, Close, CountSuccess, CountFailure, CountFailureTotal,
    ReadFailure, Open, Gauge, Audit, Unrecorded, Raise
<1>2. CASE Lapse \/ Quiet \/ UNCHANGED vars
  BY <1>2 DEF Lapse, Quiet, vars, tool
<1> QED  BY <1>1, <1>2 DEF Next, tool

LEMMA AloneKept ==
  ASSUME TypeOK, Undisturbed, ideal, NEW c \in Calls, Step(c)
  PROVE  \A d \in Calls : d # c => pc[d] \notin Running /\ pc'[d] \notin Running
<1> SUFFICES ASSUME NEW d \in Calls, d # c
             PROVE  pc[d] \notin Running /\ pc'[d] \notin Running
  OBVIOUS
<1>1. pc'[d] = pc[d]
  BY OthersKept
<1>2. CASE pc[c] \in Running
  BY <1>1, <1>2 DEF Undisturbed, Alone
<1>3. CASE pc[c] \notin Running
  <2>1. Start(c)
    BY <1>3 DEF Step, ReadState, ReadUntil, HalfOpen, Evaluate, Send,
      ReadSuccess, Close, CountSuccess, CountFailure, CountFailureTotal,
      ReadFailure, Open, Gauge, Audit, Unrecorded, Raise, Succeeded, Running,
      Checking, Succeeding, Failing
  <2> QED  BY <1>1, <2>1 DEF Start, InFlight
<1> QED  BY <1>2, <1>3

LEMMA UndisturbedStep == TypeOK /\ Undisturbed /\ [Next]_vars => Undisturbed'
<1> SUFFICES ASSUME TypeOK, Undisturbed, [Next]_vars
             PROVE  Undisturbed'
  OBVIOUS
<1> SUFFICES ASSUME ideal
             PROVE  Undisturbed'
  BY ToolKept DEF Undisturbed
<1>1. CASE \E c \in Calls : Step(c)
  <2>1. PICK c \in Calls : Step(c)
    BY <1>1
  <2>2. \A d \in Calls : d # c => pc[d] \notin Running /\ pc'[d] \notin Running
    BY <2>1, AloneKept
  <2>3. /\ pc'[c] \in {"until", "halfOpen"} => cb'.state = "OPEN"
        /\ pc'[c] = "halfOpen" => cb'.lapsed
        /\ pc'[c] = "close" => cb'.state = "HALF_OPEN"
        /\ pc'[c] = "count" => cb'.state # "HALF_OPEN"
        /\ pc'[c] = "open" => Trips(cb'.failures, cb'.total)
    <3> USE DEF Goto, Finish, Return, Log
    <3>1. CASE Start(c) \/ ReadState(c) \/ ReadUntil(c) \/ HalfOpen(c)
      BY <3>1 DEF Start, ReadState, ReadUntil, HalfOpen, TypeOK, Undisturbed
    <3>2. CASE Evaluate(c) \/ Send(c)
      BY <3>2 DEF Evaluate, Send, TypeOK
    <3>3. CASE \/ ReadSuccess(c) \/ Close(c) \/ CountSuccess(c)
               \/ CountFailure(c) \/ CountFailureTotal(c) \/ Open(c)
      BY <3>3 DEF ReadSuccess, Close, CountSuccess, CountFailure,
                  CountFailureTotal, Open, TypeOK
    <3>4. CASE ReadFailure(c)
      BY <3>4 DEF ReadFailure, TypeOK
    <3>5. CASE Gauge(c) \/ Audit(c) \/ Unrecorded(c) \/ Raise(c)
      BY <3>5 DEF Gauge, Audit, Unrecorded, Raise, TypeOK
    <3> QED  BY <2>1, <3>1, <3>2, <3>3, <3>4, <3>5 DEF Step
  <2> QED
    BY <2>2, <2>3
    DEF Undisturbed, Alone, Running, Checking, Succeeding, Failing
<1>2. CASE Lapse
  BY <1>2 DEF Lapse, TypeOK, Undisturbed, Alone, run, tool
<1>3. CASE Quiet \/ UNCHANGED vars
  BY <1>3 DEF Quiet, vars, Undisturbed, Alone, tool
<1> QED  BY <1>1, <1>2, <1>3 DEF Next

LEMMA BreakerStep ==
  ASSUME TypeOK, Undisturbed, [Next]_vars, ideal
  PROVE  Atomic!Next \/ UNCHANGED Atomic!breakerVars
<1>1. CASE \E c \in Calls : Step(c)
  <2>1. PICK c \in Calls : Step(c)
    BY <1>1
  <2>2. \A d \in Calls : d # c => pc[d] \notin Running /\ pc'[d] \notin Running
    BY <2>1, AloneKept
  <2> DEFINE F == Failing \ {"failure"}
             T == {"failureRead", "open"}
  <2>3. /\ Half(F) = IF pc[c] \in F THEN 1 ELSE 0
        /\ Half(T) = IF pc[c] \in T THEN 1 ELSE 0
        /\ Half(F)' = IF pc'[c] \in F THEN 1 ELSE 0
        /\ Half(T)' = IF pc'[c] \in T THEN 1 ELSE 0
    BY <2>2 DEF Half, Running, Failing
  <2> USE DEF Goto, Finish, Return, Log
  <2> HIDE DEF F, T
  <2>4. CASE \/ Start(c) \/ ReadState(c) \/ ReadUntil(c) \/ Evaluate(c)
             \/ Send(c) \/ ReadSuccess(c)
    <3>1. cb' = cb
      BY <2>4 DEF Start, ReadState, ReadUntil, Evaluate, Send, ReadSuccess
    <3>2. pc[c] \notin F \cup T /\ pc'[c] \notin F \cup T
      BY <2>4 DEF Start, ReadState, ReadUntil, Evaluate, Send, ReadSuccess, F, T,
                  Failing, TypeOK
    <3> QED  BY <2>3, <3>1, <3>2 DEF Atomic!breakerVars, F, T
  <2>5. CASE HalfOpen(c)
    BY <2>3, <2>5 DEF HalfOpen, Undisturbed, TypeOK, Atomic!Next, Atomic!Admit,
                      F, T, Failing
  <2>6. CASE Close(c)
    BY <2>3, <2>6 DEF Close, Undisturbed, TypeOK, Atomic!Next, Atomic!Success,
                      F, T, Failing
  <2>7. CASE CountSuccess(c)
    BY <2>3, <2>7 DEF CountSuccess, Undisturbed, TypeOK, Atomic!Next,
                      Atomic!Success, F, T, Failing
  <2>8. CASE CountFailure(c)
    BY <2>3, <2>8 DEF CountFailure, TypeOK, Atomic!breakerVars, F, T, Failing
  <2>9. CASE CountFailureTotal(c)
    BY <2>3, <2>9 DEF CountFailureTotal, TypeOK, Atomic!breakerVars, F, T,
                      Failing
  <2>10. CASE ReadFailure(c)
    BY <2>3, <2>10 DEF ReadFailure, TypeOK, Atomic!Next, Atomic!Failure,
                       Atomic!breakerVars, F, T, Failing
  <2>11. CASE Open(c)
    <3>1. /\ pc[c] = "open" /\ pc'[c] = "gauge"
          /\ Trips(cb.failures, cb.total)
      BY <2>11 DEF Open, TypeOK, Undisturbed
    <3>2. /\ cb'.state = "OPEN" /\ cb'.lapsed = FALSE
          /\ cb'.failures = cb.failures /\ cb'.total = cb.total
          /\ cb.failures \in Nat /\ cb.total \in Nat
      BY <2>11 DEF Open, TypeOK
    <3>3. Half(F) = 1 /\ Half(T) = 1 /\ Half(F)' = 0 /\ Half(T)' = 0
      BY <2>3, <3>1 DEF F, T, Failing
    <3>4. /\ (cb.failures - Half(F))' = cb.failures
          /\ (cb.total - Half(T))' = cb.total
          /\ cb.failures = cb.failures - Half(F) + 1
          /\ cb.total = cb.total - Half(T) + 1
      BY <3>2, <3>3
    <3> QED  BY <3>1, <3>2, <3>4 DEF Atomic!Next, Atomic!Failure, F, T
  <2>12. CASE Gauge(c) \/ Audit(c)
    <3>1. cb' = cb
      BY <2>12 DEF Gauge, Audit
    <3>2. pc[c] \notin F \cup T /\ pc'[c] \notin F \cup T
      BY <2>12 DEF Gauge, Audit, F, T, Failing, TypeOK
    <3> QED  BY <2>3, <3>1, <3>2 DEF Atomic!breakerVars, F, T
  <2> QED
    BY <2>1, <2>4, <2>5, <2>6, <2>7, <2>8, <2>9, <2>10, <2>11, <2>12
    DEF Step, Unrecorded, Raise
<1>2. CASE Lapse
  <2>1. cb' = [cb EXCEPT !.lapsed = TRUE] /\ pc' = pc
    BY <1>2 DEF Lapse
  <2> DEFINE F == Failing \ {"failure"}
             T == {"failureRead", "open"}
  <2>2. Half(F)' = Half(F) /\ Half(T)' = Half(T)
    BY <2>1 DEF Half
  <2>3. /\ cb'.lapsed = TRUE /\ cb'.state = cb.state
        /\ cb'.failures = cb.failures /\ cb'.total = cb.total
    BY <2>1 DEF TypeOK
  <2> QED  BY <2>2, <2>3 DEF Atomic!Next, Atomic!Lapse
<1>3. CASE Quiet \/ UNCHANGED vars
  BY <1>3 DEF Quiet, vars, Half, Atomic!breakerVars
<1> QED  BY <1>1, <1>2, <1>3 DEF Next

\* While no call overlaps another and Redis does not fail, the hash of the
\* breaker moves as if is_open, record_success and record_failure were atomic.
THEOREM BreakerIsAtomicCorrect == Spec => BreakerIsAtomic
<1>1. TypeOK /\ Undisturbed /\ [Next]_vars
        => [ideal => Atomic!Next \/ UNCHANGED Atomic!breakerVars]_vars
  BY BreakerStep
<1> QED
  BY <1>1, RunInit, TypeStep, UndisturbedStep, PTL DEF Spec, BreakerIsAtomic
=============================================================================
