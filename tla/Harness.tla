------------------------------ MODULE Harness ------------------------------
(***************************************************************************)
(* AgentHarness.execute for the calls of one tool, and the tool's circuit  *)
(* breaker, a Redis hash that concurrent calls read and write in separate  *)
(* steps.  One action is one access to Redis, Postgres or the upstream     *)
(* server; the policy's verdict and the server's answers are arbitrary.    *)
(***************************************************************************)
EXTENDS Integers, FiniteSets

CONSTANTS Calls,         \* executions of the tool
          MaxInFlight,   \* bound: executions at once
          MaxAttempts,   \* 3: max_retries of a read tool
          MinSample,     \* 10: CB_MIN_SAMPLE_SIZE
          ThresholdPct   \* 50: CB_FAILURE_THRESHOLD

ASSUME MaxInFlightAssumption == MaxInFlight \in Nat \ {0}
ASSUME MaxAttemptsAssumption == MaxAttempts \in Nat \ {0}
ASSUME MinSampleAssumption == MinSample \in Nat \ {0}
ASSUME ThresholdAssumption == ThresholdPct \in Nat

VARIABLES
  idempotent,  \* the tool's flag: TRUE for reads, FALSE for bookings
  ideal,       \* calls do not overlap and Redis does not fail
  cb,          \* cb:{tool}, `lapsed` standing for time.time() > open_until
  pc,          \* the next access of each call
  sent,        \* attempts made: requests sent upstream
  heard,       \* how the last attempt ended
  status,      \* HarnessResult.status
  logged,      \* the audit log was given a record of the call
  applied      \* history: the write took effect upstream

tool == <<idempotent, ideal>>
run == <<sent, heard, status, logged, applied>>
vars == <<tool, cb, pc, run>>

States == {"CLOSED", "OPEN", "HALF_OPEN"}

\* How an attempt ends: an answer, an HTTP error (429, other 4xx, 5xx), a
\* timeout, or another exception.
Answers == {"ok", "throttled", "client", "server", "timeout", "broken"}

\* What may be reported as final.
Statuses == {"SUCCESS", "DENIED", "AWAITING_CONFIRMATION", "UNCERTAIN_STATE",
             "ERROR"}

\* Where Redis is accessed on the way to the tool, after a success, and after
\* a failure.
Checking == {"state", "until", "halfOpen", "policy"}
Succeeding == {"success", "close", "count"}
Failing == {"failure", "failureTotal", "failureRead", "open"}
Running == Checking \cup Succeeding \cup Failing \cup {"send", "gauge", "audit"}

TypeOK ==
  /\ idempotent \in BOOLEAN
  /\ ideal \in BOOLEAN
  /\ cb \in [state : States, lapsed : BOOLEAN, failures : Nat, total : Nat]
  /\ pc \in [Calls -> {"idle", "done", "raised"} \cup Running]
  /\ sent \in [Calls -> 0 .. MaxAttempts]
  /\ heard \in [Calls -> Answers \cup {"none", "unrecorded"}]
  /\ status \in [Calls -> Statuses \cup {"none"}]
  /\ logged \in [Calls -> BOOLEAN]
  /\ applied \in [Calls -> BOOLEAN]

Init ==
  /\ idempotent \in BOOLEAN
  /\ ideal \in BOOLEAN
  /\ cb = [state |-> "CLOSED", lapsed |-> TRUE, failures |-> 0, total |-> 0]
  /\ pc = [c \in Calls |-> "idle"]
  /\ sent = [c \in Calls |-> 0]
  /\ heard = [c \in Calls |-> "none"]
  /\ status = [c \in Calls |-> "none"]
  /\ logged = [c \in Calls |-> FALSE]
  /\ applied = [c \in Calls |-> FALSE]

InFlight == {c \in Calls : pc[c] \in Running}

Goto(c, next) == pc' = [pc EXCEPT ![c] = next]

\* The call is over, and its locals are gone.
Finish(c, end) ==
  /\ Goto(c, end)
  /\ sent' = [sent EXCEPT ![c] = 0]
  /\ heard' = [heard EXCEPT ![c] = "none"]
  /\ applied' = [applied EXCEPT ![c] = FALSE]

\* Return a status at once, or log it first.
Return(c, s) ==
  /\ Finish(c, "done")
  /\ status' = [status EXCEPT ![c] = s]

Log(c, s) ==
  /\ Goto(c, "audit")
  /\ status' = [status EXCEPT ![c] = s]
  /\ UNCHANGED <<sent, heard, applied>>

-----------------------------------------------------------------------------
(***************************************************************************)
(* Before the tool is called.                                              *)
(***************************************************************************)
\* Tool lookup, domain check and validation of the parameters: an ERROR when
\* one fails.
Start(c) ==
  /\ pc[c] = "idle"
  /\ IF ideal THEN InFlight = {} ELSE Cardinality(InFlight) < MaxInFlight
  /\ \/ Goto(c, "state") /\ UNCHANGED run
     \/ Return(c, "ERROR") /\ UNCHANGED logged
  /\ UNCHANGED <<tool, cb>>

\* is_open reads the state, then the deadline, then writes HALF_OPEN.
ReadState(c) ==
  /\ pc[c] = "state"
  /\ Goto(c, IF cb.state = "OPEN" THEN "until" ELSE "policy")
  /\ UNCHANGED <<tool, cb, run>>

ReadUntil(c) ==
  /\ pc[c] = "until"
  /\ \/ cb.lapsed /\ Goto(c, "halfOpen") /\ UNCHANGED run
     \/ ~cb.lapsed /\ Return(c, "ERROR") /\ UNCHANGED logged
  /\ UNCHANGED <<tool, cb>>

HalfOpen(c) ==
  /\ pc[c] = "halfOpen"
  /\ cb' = [cb EXCEPT !.state = "HALF_OPEN"]
  /\ Goto(c, "policy")
  /\ UNCHANGED <<tool, run>>

\* The policy engine's verdict: DENY, REQUIRE_CONFIRMATION for a call that is
\* not pre_confirmed, or one that lets the call through.
Evaluate(c) ==
  /\ pc[c] = "policy"
  /\ \/ \E verdict \in {"DENIED", "AWAITING_CONFIRMATION"} : Log(c, verdict)
     \/ Goto(c, "send") /\ UNCHANGED <<sent, heard, status, applied>>
  /\ UNCHANGED <<tool, cb, logged>>

-----------------------------------------------------------------------------
(***************************************************************************)
(* _execute_tool: one attempt for a write; reads are repeated on 429, 5xx  *)
(* and timeouts.                                                           *)
(***************************************************************************)
\* Mutant: max_retries for every tool.
AttemptsAll == MaxAttempts

Attempts == IF idempotent THEN MaxAttempts ELSE 1

\* Mutant: one attempt too many.
RetriedOnceMore(c, answer) == /\ answer \in {"throttled", "server", "timeout"}
                              /\ sent[c] < Attempts

Retried(c, answer) == /\ answer \in {"throttled", "server", "timeout"}
                      /\ sent[c] + 1 < Attempts

\* A write takes effect when it is answered with success, does not when it is
\* refused with a 4xx, and otherwise may or may not.
Effects(answer) == {effect \in BOOLEAN :
                      /\ effect => /\ ~idempotent
                                   /\ answer \notin {"throttled", "client"}
                      /\ ~idempotent /\ answer = "ok" => effect}

Send(c) ==
  /\ pc[c] = "send"
  /\ \E answer \in Answers :
       /\ heard' = [heard EXCEPT ![c] = answer]
       /\ \E effect \in Effects(answer) :
            applied' = [applied EXCEPT ![c] = @ \/ effect]
       /\ Goto(c, IF answer = "ok" THEN "success"
                  ELSE IF Retried(c, answer) THEN "send" ELSE "failure")
  /\ sent' = [sent EXCEPT ![c] = @ + 1]
  /\ UNCHANGED <<tool, cb, status, logged>>

-----------------------------------------------------------------------------
(***************************************************************************)
(* record_success and record_failure.  success_count is never read and is  *)
(* left out.                                                               *)
(***************************************************************************)
ReadSuccess(c) ==
  /\ pc[c] = "success"
  /\ Goto(c, IF cb.state = "HALF_OPEN" THEN "close" ELSE "count")
  /\ UNCHANGED <<tool, cb, run>>

\* Mutant: the counters are kept.
CloseKeepingCounts(c) ==
  /\ pc[c] = "close"
  /\ cb' = [cb EXCEPT !.state = "CLOSED"]
  /\ Goto(c, "gauge")
  /\ UNCHANGED <<tool, run>>

Close(c) ==
  /\ pc[c] = "close"
  /\ cb' = [cb EXCEPT !.state = "CLOSED", !.failures = 0, !.total = 0]
  /\ Goto(c, "gauge")
  /\ UNCHANGED <<tool, run>>

CountSuccess(c) ==
  /\ pc[c] = "count"
  /\ cb' = [cb EXCEPT !.total = @ + 1]
  /\ Goto(c, "gauge")
  /\ UNCHANGED <<tool, run>>

CountFailure(c) ==
  /\ pc[c] = "failure"
  /\ cb' = [cb EXCEPT !.failures = @ + 1]
  /\ Goto(c, "failureTotal")
  /\ UNCHANGED <<tool, run>>

CountFailureTotal(c) ==
  /\ pc[c] = "failureTotal"
  /\ cb' = [cb EXCEPT !.total = @ + 1]
  /\ Goto(c, "failureRead")
  /\ UNCHANGED <<tool, run>>

Trips(failures, total) == /\ total >= MinSample
                          /\ 100 * failures >= ThresholdPct * total

\* record_failure reads the hash back to decide, and opens in another step.
ReadFailure(c) ==
  /\ pc[c] = "failureRead"
  /\ Goto(c, IF Trips(cb.failures, cb.total) THEN "open" ELSE "gauge")
  /\ UNCHANGED <<tool, cb, run>>

Open(c) ==
  /\ pc[c] = "open"
  /\ cb' = [cb EXCEPT !.state = "OPEN", !.lapsed = FALSE]
  /\ Goto(c, "gauge")
  /\ UNCHANGED <<tool, run>>

-----------------------------------------------------------------------------
(***************************************************************************)
(* The result.                                                             *)
(***************************************************************************)
\* Mutant: the test is made for the wrong tools.
UncertainRead(c) == idempotent /\ heard[c] = "server"

Uncertain(c) == ~idempotent /\ heard[c] = "server"

\* get_state for the metrics; then the status, logged unless it is ERROR.
Gauge(c) ==
  /\ pc[c] = "gauge"
  /\ IF heard[c] = "ok" THEN Log(c, "SUCCESS")
     ELSE IF Uncertain(c) THEN Log(c, "UNCERTAIN_STATE")
     ELSE Return(c, "ERROR")
  /\ UNCHANGED <<tool, cb, logged>>

\* AuditLogger.log, which swallows a failing insert.
Audit(c) ==
  /\ pc[c] = "audit"
  /\ logged' = [logged EXCEPT ![c] = TRUE]
  /\ Finish(c, "done")
  /\ UNCHANGED <<tool, cb, status>>

Succeeded(c) == pc[c] \in Succeeding \/ (pc[c] = "gauge" /\ heard[c] = "ok")

\* Redis raises while a success is recorded: the handler takes it for the
\* tool's failure.
Unrecorded(c) ==
  /\ ~ideal
  /\ Succeeded(c)
  /\ heard' = [heard EXCEPT ![c] = "unrecorded"]
  /\ Goto(c, "failure")
  /\ UNCHANGED <<tool, cb, sent, status, logged, applied>>

\* Redis raises anywhere else: the exception leaves execute.
Raise(c) ==
  /\ ~ideal
  /\ ~Succeeded(c)
  /\ pc[c] \in Checking \cup Failing \cup {"gauge"}
  /\ Finish(c, "raised")
  /\ UNCHANGED <<tool, cb, status, logged>>

\* CB_OPEN_DURATION_SECONDS pass.
Lapse ==
  /\ ~cb.lapsed
  /\ cb' = [cb EXCEPT !.lapsed = TRUE]
  /\ UNCHANGED <<tool, pc, run>>

\* Every call is over.
Quiet == (\A c \in Calls : pc[c] \in {"done", "raised"}) /\ UNCHANGED vars

Step(c) ==
  \/ Start(c) \/ ReadState(c) \/ ReadUntil(c) \/ HalfOpen(c) \/ Evaluate(c)
  \/ Send(c) \/ ReadSuccess(c) \/ Close(c) \/ CountSuccess(c)
  \/ CountFailure(c) \/ CountFailureTotal(c) \/ ReadFailure(c) \/ Open(c)
  \/ Gauge(c) \/ Audit(c) \/ Unrecorded(c) \/ Raise(c)

Next == (\E c \in Calls : Step(c)) \/ Lapse \/ Quiet

Spec == Init /\ [][Next]_vars

-----------------------------------------------------------------------------
(***************************************************************************)
(* Correctness.                                                            *)
(***************************************************************************)
\* A booking is requested once per execution, whatever the first attempt
\* meets: only reads are repeated.
WriteSentOnce == \A c \in Calls : ~idempotent => sent[c] <= 1

\* A write that took effect is answered with ERROR only if the server's
\* answer never came or could not be recorded; in particular an HTTP answer
\* is never turned into a false one.
ErrorsAreTruthful ==
  [][\A c \in Calls :
       applied[c] /\ status'[c] = "ERROR" =>
         heard[c] \in {"timeout", "broken", "unrecorded"}]_vars

\* The counters as of the last failure that is recorded to the end.
Half(points) == IF \E c \in Calls : pc[c] \in points THEN 1 ELSE 0

Atomic == INSTANCE Breaker WITH
            state <- cb.state, lapsed <- cb.lapsed,
            failures <- cb.failures - Half(Failing \ {"failure"}),
            total <- cb.total - Half({"failureRead", "open"})

\* When calls do not overlap and Redis does not fail, the hash moves as the
\* atomic breaker's state does, although is_open, record_success and
\* record_failure each take several steps.
BreakerIsAtomic ==
  [][ideal => Atomic!Next \/ UNCHANGED Atomic!breakerVars]_vars

\* README.md:75: "every tool execution logged".  A booking that was made has
\* its audit record, or the attempt at one, when the execution is over.
EffectsAudited ==
  [][\A c \in Calls : applied[c] /\ pc'[c] = "done" => logged'[c]]_vars
=============================================================================
