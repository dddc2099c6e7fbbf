------------------------------ MODULE Breaker ------------------------------
(***************************************************************************)
(* What a circuit breaker of one tool promises when each of its operations *)
(* is one step: a closed breaker opens on the failure that brings its      *)
(* counters over the threshold, an open one admits a call once its period  *)
(* has lapsed and is then half open, and a success closes a half-open one  *)
(* with fresh counters.                                                    *)
(***************************************************************************)
EXTENDS Integers

CONSTANT Trips(_, _)  \* Trips(f, t): f failures in t calls open the breaker

VARIABLES state,     \* CLOSED, OPEN or HALF_OPEN
          lapsed,    \* open_until has passed
          failures,  \* failure_count
          total      \* total_count

breakerVars == <<state, lapsed, failures, total>>

Admit ==
  /\ state = "OPEN" /\ lapsed
  /\ state' = "HALF_OPEN"
  /\ UNCHANGED <<lapsed, failures, total>>

Success ==
  IF state = "HALF_OPEN"
  THEN /\ state' = "CLOSED" /\ failures' = 0 /\ total' = 0
       /\ UNCHANGED lapsed
  ELSE /\ total' = total + 1
       /\ UNCHANGED <<state, lapsed, failures>>

Failure ==
  /\ failures' = failures + 1
  /\ total' = total + 1
  /\ IF Trips(failures', total')
     THEN state' = "OPEN" /\ lapsed' = FALSE
     ELSE UNCHANGED <<state, lapsed>>

Lapse ==
  /\ lapsed' = TRUE
  /\ UNCHANGED <<state, failures, total>>

Next == Admit \/ Success \/ Failure \/ Lapse
=============================================================================
