-------------------------------- MODULE Page --------------------------------
(***************************************************************************)
(* The embedded chat page (routers/ui.py) and what it sees of the server:  *)
(* a request accepted by POST /chat/message, the result that the pipeline  *)
(* stores as its last step, and GET /chat/status.  One browser tab.        *)
(***************************************************************************)
EXTENDS Integers, FiniteSets

CONSTANTS Messages,    \* messages the user submits
          MaxPolls     \* 120: MAX_POLL_ATTEMPTS

ASSUME PageAssumption == MaxPolls \in Nat \ {0}

VARIABLES
  signedIn,   \* state.token is not null
  signing,    \* a sign-in is under way: the login form is disabled
  inFlight,   \* state.inFlight
  sendOn,     \* the send button is enabled
  flight,     \* where sendChatMessage stands for each message
  polls,      \* polls made for it
  stored,     \* Redis: request:{request_id}
  running     \* the pipeline processes the message

form == <<signedIn, signing>>
lock == <<inFlight, sendOn>>
pipeline == <<stored, running>>
pageVars == <<form, lock, flight, polls, pipeline>>

PageTypeOK ==
  /\ signedIn \in BOOLEAN
  /\ signing \in BOOLEAN
  /\ inFlight \in BOOLEAN
  /\ sendOn \in BOOLEAN
  /\ flight \in [Messages -> {"unsent", "posting", "polling", "answered", "abandoned"}]
  /\ polls \in [Messages -> 0 .. MaxPolls]
  /\ stored \in [Messages -> {"none", "processing", "done", "error", "expired"}]
  /\ running \in [Messages -> BOOLEAN]

PageInit ==
  /\ signedIn = FALSE /\ signing = FALSE
  /\ inFlight = FALSE /\ sendOn = FALSE
  /\ flight = [m \in Messages |-> "unsent"]
  /\ polls = [m \in Messages |-> 0]
  /\ stored = [m \in Messages |-> "none"]
  /\ running = [m \in Messages |-> FALSE]

-----------------------------------------------------------------------------
(* Signing in; the form stays enabled while a message is in flight. *)

\* The button also looks at the lock, as it is by then.
SetChatEnabled(enabled, locked) == sendOn' = (enabled /\ ~locked)

SignIn ==
  /\ ~signing /\ signing' = TRUE
  /\ UNCHANGED <<signedIn, lock, flight, polls, pipeline>>

\* A failure loses the token, also that of an earlier sign-in.
SignInEnds ==
  /\ signing /\ signing' = FALSE
  /\ signedIn' \in BOOLEAN
  /\ SetChatEnabled(signedIn', inFlight)
  /\ UNCHANGED <<inFlight, flight, polls, pipeline>>

-----------------------------------------------------------------------------
(* sendChatMessage and pollStatus *)

\* Mutant: the lock is not looked at.
SubmitUnlocked(m) ==
  /\ flight[m] = "unsent"
  /\ signedIn
  /\ inFlight' = TRUE
  /\ SetChatEnabled(FALSE, inFlight')
  /\ flight' = [flight EXCEPT ![m] = "posting"]
  /\ UNCHANGED <<form, polls, pipeline>>

\* From the form or from a picker of an earlier answer.
Submit(m) ==
  /\ flight[m] = "unsent"
  /\ signedIn /\ ~inFlight
  /\ inFlight' = TRUE
  /\ SetChatEnabled(FALSE, inFlight')
  /\ flight' = [flight EXCEPT ![m] = "posting"]
  /\ UNCHANGED <<form, polls, pipeline>>

\* Mutant: only an answer releases the lock.
LandAnswered(m, how) ==
  /\ flight' = [flight EXCEPT ![m] = how]
  /\ inFlight' = (how # "answered")
  /\ SetChatEnabled(TRUE, inFlight')

\* Mutant: the button is enabled before the lock is released.
LandLocked(m, how) ==
  /\ flight' = [flight EXCEPT ![m] = how]
  /\ inFlight' = FALSE
  /\ SetChatEnabled(TRUE, inFlight)

\* The flight ends, well or not: finally releases the lock and enables the
\* button, whoever is signed in.
Land(m, how) ==
  /\ flight' = [flight EXCEPT ![m] = how]
  /\ inFlight' = FALSE
  /\ SetChatEnabled(TRUE, inFlight')

Posted(m) ==
  /\ flight[m] = "posting"
  /\ stored[m] # "none"
  /\ flight' = [flight EXCEPT ![m] = "polling"]
  /\ UNCHANGED <<form, lock, polls, pipeline>>

\* No answer to the POST or to a poll, or an error; the server may have
\* accepted the message all the same.
FetchFails(m) ==
  /\ flight[m] \in {"posting", "polling"}
  /\ Land(m, "abandoned")
  /\ UNCHANGED <<form, polls, pipeline>>

\* A stored result is shown.
Show(m) ==
  /\ stored[m] \in {"done", "error"}
  /\ Land(m, "answered")
  /\ UNCHANGED polls

\* Mutant: one poll too many.
WaitOnceMore(m) ==
  /\ stored[m] = "processing"
  /\ polls' = [polls EXCEPT ![m] = @ + 1]
  /\ IF polls'[m] <= MaxPolls THEN UNCHANGED <<flight, lock>> ELSE Land(m, "abandoned")

\* "processing": once more, if there are polls left.
Wait(m) ==
  /\ stored[m] = "processing"
  /\ polls' = [polls EXCEPT ![m] = @ + 1]
  /\ IF polls'[m] < MaxPolls THEN UNCHANGED <<flight, lock>> ELSE Land(m, "abandoned")

\* "not_found"
Lost(m) ==
  /\ stored[m] = "expired"
  /\ Land(m, "abandoned")
  /\ UNCHANGED polls

Poll(m) ==
  /\ flight[m] = "polling"
  /\ Show(m) \/ Wait(m) \/ Lost(m)
  /\ UNCHANGED <<form, pipeline>>

-----------------------------------------------------------------------------
(* The server *)

\* post_message: the marker is stored, then the message is processed, even
\* when the page has stopped waiting for the answer.
Accept(m) ==
  /\ flight[m] # "unsent"
  /\ stored[m] = "none"
  /\ stored' = [stored EXCEPT ![m] = "processing"]
  /\ running' = [running EXCEPT ![m] = TRUE]
  /\ UNCHANGED <<form, lock, flight, polls>>

\* Mutant: the result is stored before the pipeline is through.
RespondEarly(m) ==
  /\ running[m]
  /\ \/ /\ stored[m] = "processing"
        /\ \E how \in {"done", "error"} : stored' = [stored EXCEPT ![m] = how]
        /\ UNCHANGED running
     \/ /\ running' = [running EXCEPT ![m] = FALSE]
        /\ UNCHANGED stored
  /\ UNCHANGED <<form, lock, flight, polls>>

\* The last step of _process_message; storing the result may fail, or the
\* process may die.
Respond(m) ==
  /\ running[m]
  /\ running' = [running EXCEPT ![m] = FALSE]
  /\ \/ \E how \in {"done", "error"} : stored' = [stored EXCEPT ![m] = how]
     \/ UNCHANGED stored
  /\ UNCHANGED <<form, lock, flight, polls>>

\* REQUEST_RESULT_TTL passes.
ResultExpires(m) ==
  /\ stored[m] \notin {"none", "expired"}
  /\ stored' = [stored EXCEPT ![m] = "expired"]
  /\ UNCHANGED <<form, lock, flight, polls, running>>

PageNext ==
  \/ SignIn \/ SignInEnds
  \/ \E m \in Messages :
       \/ Submit(m) \/ Posted(m) \/ FetchFails(m) \/ Poll(m)
       \/ Accept(m) \/ Respond(m) \/ ResultExpires(m)

PageSpec == PageInit /\ [][PageNext]_pageVars

\* The page acts on every answer and every failure it is told of.
PageFairness == \A m \in Messages : WF_pageVars(Posted(m) \/ Poll(m) \/ FetchFails(m))

-----------------------------------------------------------------------------
(* Properties *)

Aloft == {m \in Messages : flight[m] \in {"posting", "polling"}}

\* The lock is held by exactly one message while one is in flight, whatever
\* sign-ins do meanwhile (sendChatMessage).
LockHeldByOne == Cardinality(Aloft) = IF inFlight THEN 1 ELSE 0

\* While somebody is signed in the send button works exactly when no message is
\* in flight, however sign-ins and messages interleave (setChatEnabled).
ButtonFollowsLock == signedIn => sendOn = ~inFlight

\* The input comes back: a message that was sent does not hold the lock for
\* ever, however slow the pipeline is (sendChatMessage, pollStatus).
LockReleased == inFlight ~> ~inFlight

\* Two messages of the page are processed at once only if it gave up waiting
\* for one of them: an answer is shown no earlier than the pipeline is through
\* (sendChatMessage, _process_message).
OverlapNeedsGivingUp ==
  \A m, n \in Messages :
    m # n /\ running[m] /\ running[n] => "abandoned" \in {flight[m], flight[n]}

=============================================================================
