----------------------------- MODULE PageProofs -----------------------------
(***************************************************************************)
(* Theorems about Page, for any number of messages and polls.              *)
(***************************************************************************)
EXTENDS Page, FiniteSetTheorems, TLAPS

-----------------------------------------------------------------------------
(* Types *)

LEMMA LandType ==
  ASSUME PageTypeOK, NEW m \in Messages, NEW how \in {"answered", "abandoned"}, Land(m, how)
  PROVE  /\ flight' \in [Messages -> {"unsent", "posting", "polling", "answered", "abandoned"}]
         /\ inFlight' \in BOOLEAN /\ sendOn' \in BOOLEAN
  BY DEF PageTypeOK, Land, SetChatEnabled

LEMMA PollType ==
  ASSUME PageTypeOK, NEW m \in Messages, Poll(m), polls[m] < MaxPolls
  PROVE  PageTypeOK'
<1>1. polls' \in [Messages -> 0 .. MaxPolls]
  BY PageAssumption DEF PageTypeOK, Poll, Show, Wait, Lost
<1>2. /\ flight' \in [Messages -> {"unsent", "posting", "polling", "answered", "abandoned"}]
      /\ inFlight' \in BOOLEAN /\ sendOn' \in BOOLEAN
  BY LandType DEF Poll, Show, Wait, Lost, lock, PageTypeOK
<1> QED BY <1>1, <1>2 DEF Poll, form, pipeline, PageTypeOK

\* A message that is polled for has polls left.
PollsLeft == \A m \in Messages : flight[m] \in {"unsent", "posting", "polling"} => polls[m] < MaxPolls

LEMMA PollsLeftStep ==
  ASSUME PageTypeOK, PollsLeft, [PageNext]_pageVars
  PROVE  PollsLeft'
<1>1. CASE UNCHANGED pageVars
  BY <1>1 DEF PollsLeft, pageVars
<1>2. CASE SignIn \/ SignInEnds
  BY <1>2 DEF PollsLeft, SignIn, SignInEnds
<1>3. ASSUME NEW m \in Messages, Submit(m) \/ Posted(m) PROVE PollsLeft'
  BY <1>3 DEF PollsLeft, Submit, Posted, PageTypeOK
<1>4. ASSUME NEW m \in Messages, FetchFails(m) PROVE PollsLeft'
  BY <1>4 DEF PollsLeft, FetchFails, Land, PageTypeOK
<1>5. ASSUME NEW m \in Messages, Poll(m) PROVE PollsLeft'
  <2>1. CASE Show(m) \/ Lost(m)
    BY <1>5, <2>1 DEF PollsLeft, Show, Lost, Land, PageTypeOK
  <2>2. CASE Wait(m)
    BY <1>5, <2>2 DEF PollsLeft, Wait, Land, PageTypeOK
  <2> QED BY <1>5, <2>1, <2>2 DEF Poll
<1>6. ASSUME NEW m \in Messages, Accept(m) \/ Respond(m) \/ ResultExpires(m)
      PROVE  PollsLeft'
  BY <1>6 DEF PollsLeft, Accept, Respond, ResultExpires
<1> QED BY <1>1, <1>2, <1>3, <1>4, <1>5, <1>6 DEF PageNext

LEMMA PageTypeStep ==
  ASSUME PageTypeOK, PollsLeft, [PageNext]_pageVars
  PROVE  PageTypeOK'
<1>1. CASE UNCHANGED pageVars
  BY <1>1 DEF PageTypeOK, pageVars, form, lock, pipeline
<1>2. CASE SignIn \/ SignInEnds
  BY <1>2 DEF PageTypeOK, SignIn, SignInEnds, SetChatEnabled, lock, pipeline
<1>3. ASSUME NEW m \in Messages, Submit(m) \/ Posted(m) PROVE PageTypeOK'
  BY <1>3 DEF PageTypeOK, Submit, Posted, SetChatEnabled, form, lock, pipeline
<1>4. ASSUME NEW m \in Messages, FetchFails(m) PROVE PageTypeOK'
  BY <1>4, LandType DEF PageTypeOK, FetchFails, form, pipeline
<1>5. ASSUME NEW m \in Messages, Poll(m) PROVE PageTypeOK'
  BY <1>5, PollType DEF PollsLeft, Poll
<1>6. ASSUME NEW m \in Messages, Accept(m) \/ Respond(m) \/ ResultExpires(m)
      PROVE  PageTypeOK'
  BY <1>6 DEF PageTypeOK, Accept, Respond, ResultExpires, form, lock
<1> QED BY <1>1, <1>2, <1>3, <1>4, <1>5, <1>6 DEF PageNext

\* Every variable of the page keeps its type and no message is polled for more
\* than MaxPolls times (pollStatus).
THEOREM PageTypeCorrect == PageSpec => []PageTypeOK
<1>1. PageInit => PageTypeOK /\ PollsLeft
  <2>1. 0 \in 0 .. MaxPolls /\ 0 < MaxPolls
    BY PageAssumption
  <2> QED BY <2>1 DEF PageInit, PageTypeOK, PollsLeft
<1>2. PageTypeOK /\ PollsLeft /\ [PageNext]_pageVars => (PageTypeOK /\ PollsLeft)'
  BY PollsLeftStep, PageTypeStep
<1> QED BY <1>1, <1>2, PTL DEF PageSpec

-----------------------------------------------------------------------------
(* The lock *)

\* What the lock stands for: the one message in flight.
Holder == IF inFlight THEN \E m \in Messages : Aloft = {m} ELSE Aloft = {}

LEMMA HolderStep ==
  ASSUME PageTypeOK, Holder, [PageNext]_pageVars
  PROVE  Holder'
<1> USE DEF Aloft
<1>1. ASSUME UNCHANGED <<flight, inFlight>> PROVE Holder'
  BY <1>1 DEF Holder
<1>2. ASSUME NEW m \in Messages, Submit(m) PROVE Holder'
  <2>1. Aloft' = {m}
    BY <1>2 DEF Submit, Holder, PageTypeOK
  <2> QED BY <1>2, <2>1 DEF Submit, Holder
<1>3. ASSUME NEW m \in Messages, Posted(m) PROVE Holder'
  <2>1. Aloft' = Aloft
    BY <1>3 DEF Posted, PageTypeOK
  <2> QED BY <1>3, <2>1 DEF Posted, Holder, lock
<1>4. ASSUME NEW m \in Messages, NEW how \in {"answered", "abandoned"}, m \in Aloft, Land(m, how)
      PROVE  Holder'
  <2>1. Aloft = {m}
    BY <1>4 DEF Holder
  <2>2. Aloft' = {}
    BY <1>4, <2>1 DEF Land, PageTypeOK
  <2> QED BY <1>4, <2>2 DEF Land, Holder
<1>5. ASSUME NEW m \in Messages, FetchFails(m) PROVE Holder'
  BY <1>4, <1>5 DEF FetchFails
<1>6. ASSUME NEW m \in Messages, Poll(m) PROVE Holder'
  BY <1>1, <1>4, <1>6 DEF Poll, Show, Wait, Lost, lock
<1> QED
  BY <1>1, <1>2, <1>3, <1>5, <1>6
  DEF PageNext, pageVars, lock, SignIn, SignInEnds, Accept, Respond, ResultExpires

LEMMA HolderAlways == PageSpec => []Holder
<1>1. PageInit => Holder
  BY DEF PageInit, Holder, Aloft
<1>2. PageTypeOK /\ Holder /\ [PageNext]_pageVars => Holder'
  BY HolderStep
<1> QED BY <1>1, <1>2, PageTypeCorrect, PTL DEF PageSpec

\* The lock is held by exactly one message while one is in flight, for any
\* number of messages and sign-ins (sendChatMessage).
THEOREM LockHeldByOneCorrect == PageSpec => []LockHeldByOne
<1>1. Holder => LockHeldByOne
  BY FS_EmptySet, FS_Singleton DEF Holder, LockHeldByOne
<1> QED BY <1>1, HolderAlways, PTL

\* While somebody is signed in the button works exactly when no message is in
\* flight (setChatEnabled).
THEOREM ButtonFollowsLockCorrect == PageSpec => []ButtonFollowsLock
<1>1. PageInit => ButtonFollowsLock
  BY DEF PageInit, ButtonFollowsLock
<1>2. PageTypeOK /\ ButtonFollowsLock /\ [PageNext]_pageVars => ButtonFollowsLock'
  BY DEF PageNext, pageVars, form, lock, ButtonFollowsLock, PageTypeOK, SetChatEnabled, SignIn,
         SignInEnds, Submit, Posted, FetchFails, Poll, Show, Wait, Lost, Land, Accept, Respond,
         ResultExpires
<1> QED BY <1>1, <1>2, PageTypeCorrect, PTL DEF PageSpec

-----------------------------------------------------------------------------
(* Overlapping messages *)

\* A message that the pipeline still processes was sent and has no result yet,
\* so the page cannot have shown one; once shown it is not accepted again.
Processed ==
  \A m \in Messages :
    /\ running[m] => stored[m] \in {"processing", "expired"} /\ flight[m] # "answered"
    /\ flight[m] = "unsent" => stored[m] = "none" /\ ~running[m]
    /\ flight[m] = "answered" => stored[m] # "none"

LEMMA ProcessedStep ==
  ASSUME PageTypeOK, Processed, [PageNext]_pageVars
  PROVE  Processed'
<1>1. CASE UNCHANGED <<flight, pipeline>>
  BY <1>1 DEF Processed, pipeline
<1>2. ASSUME NEW m \in Messages, Submit(m) \/ Posted(m) PROVE Processed'
  BY <1>2 DEF Processed, Submit, Posted, PageTypeOK, pipeline
<1>3. ASSUME NEW m \in Messages, FetchFails(m) PROVE Processed'
  BY <1>3 DEF Processed, FetchFails, Land, PageTypeOK, pipeline
<1>4. ASSUME NEW m \in Messages, Poll(m) PROVE Processed'
  BY <1>1, <1>4 DEF Processed, Poll, Show, Wait, Lost, Land, PageTypeOK, pipeline
<1>5. ASSUME NEW m \in Messages, Accept(m) PROVE Processed'
  BY <1>5 DEF Processed, Accept, PageTypeOK
<1>6. ASSUME NEW m \in Messages, Respond(m) PROVE Processed'
  <2>1. running'[m] = FALSE /\ flight[m] # "unsent"
    BY <1>6 DEF Processed, Respond, PageTypeOK
  <2>2. \A n \in Messages \ {m} : running'[n] = running[n] /\ stored'[n] = stored[n]
    BY <1>6 DEF Respond, PageTypeOK
  <2> QED BY <1>6, <2>1, <2>2 DEF Processed, Respond
<1>7. ASSUME NEW m \in Messages, ResultExpires(m) PROVE Processed'
  BY <1>7 DEF Processed, ResultExpires, PageTypeOK
<1> QED
  BY <1>1, <1>2, <1>3, <1>4, <1>5, <1>6, <1>7 DEF PageNext, pageVars, SignIn, SignInEnds

\* Two messages of the page are processed at once only if it gave up on one of
\* them: what the pipeline's serial properties assume of its client holds for
\* any number of messages (sendChatMessage, _process_message).
THEOREM OverlapNeedsGivingUpCorrect == PageSpec => []OverlapNeedsGivingUp
<1>1. PageInit => Processed
  BY DEF PageInit, Processed
<1>2. PageTypeOK /\ Processed /\ [PageNext]_pageVars => Processed'
  BY ProcessedStep
<1>3. PageTypeOK /\ Processed /\ Holder => OverlapNeedsGivingUp
  <2> SUFFICES ASSUME PageTypeOK, Processed, Holder,
                      NEW m \in Messages, NEW n \in Messages, m # n, running[m], running[n],
                      "abandoned" \notin {flight[m], flight[n]}
               PROVE  FALSE
    BY DEF OverlapNeedsGivingUp
  <2>1. m \in Aloft /\ n \in Aloft
    BY DEF Processed, PageTypeOK, Aloft
  <2> QED BY <2>1 DEF Holder
<1> QED BY <1>1, <1>2, <1>3, PageTypeCorrect, HolderAlways, PTL DEF PageSpec
=============================================================================
