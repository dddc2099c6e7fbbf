---------------------------- MODULE PolicyProofs ----------------------------
(***************************************************************************)
(* Theorems about Policy, for any number of calls, updates, rules and      *)
(* connections.                                                            *)
(***************************************************************************)
EXTENDS Policy, TLAPS

-----------------------------------------------------------------------------
(* Rows, lists and steps *)

LEMMA AnyRuleType == AnyRule \in Rules
  BY RulesAssumption DEF AnyRule, Rules

LEMMA DefaultType ==
  ASSUME NEW S, Keep \notin S, NEW old \in S, NEW new \in S \cup {Keep}
  PROVE  Default(new, old) \in S
  BY DEF Default

LEMMA MergedType ==
  ASSUME NEW old \in Rows, NEW p \in Patches
  PROVE  Merged(old, p) \in Rows
<1>1. Default(p.tool, old.tool) \in Tools
  BY DefaultType, KeepAssumption DEF Rows, Patches
<1>2. Default(p.capability, old.capability) \in Capabilities
  BY DefaultType, KeepAssumption DEF Rows, Patches
<1>3. Default(p.action, old.action) \in Actions
  BY DefaultType, KeepAssumption DEF Rows, Patches
<1>4. Default(p.active, old.active) \in BOOLEAN
  BY DefaultType, KeepAssumption DEF Rows, Patches
<1> QED BY <1>1, <1>2, <1>3, <1>4 DEF Merged, Rows

LEMMA ListedType ==
  ASSUME rules \in [Rules -> Rows], NEW k \in Keys
  PROVE  Listed(k) \subseteq Entries
  BY DEF Listed, Entry, Entries, Rows, Conditions

LEMMA DefaultsType == ASSUME NEW k \in Keys PROVE Defaults(k) \subseteq Entries
  BY DEF Defaults, Entries, Rules, Conditions, Actions

LEMMA NoPatchType == NoPatch \in Patches /\ ConfirmRow \in Rows
  BY DEF NoPatch, Patches, ConfirmRow, Rows, Capabilities, Tools, Actions

LEMMA KeyType == ASSUME NEW old \in Rows PROVE Key(old) \in Keys
  BY DEF Key, Keys, Rows

LEMMA CallKeyType ==
  ASSUME NEW t \in Tools PROVE <<"facility_booking", t>> \in Keys
  BY DEF Keys, Capabilities

CallsOK ==
  /\ stage \in [ToolCalls -> Stages]
  /\ tool \in [ToolCalls -> Tools]
  /\ list \in [ToolCalls -> SUBSET Entries]
  /\ todo \in [ToolCalls -> SUBSET Entries]
  /\ found \in [ToolCalls -> BOOLEAN]
  /\ confirmed \in [ToolCalls -> BOOLEAN]

UpdatesOK ==
  /\ step \in [Updates -> Steps]
  /\ rule \in [Updates -> Rules]
  /\ patch \in [Updates -> Patches]
  /\ approved \in [Updates -> BOOLEAN]
  /\ row \in [Updates -> Rows]
  /\ overlapped \in BOOLEAN
  /\ doubtful \in BOOLEAN

StoreOK ==
  /\ rules \in [Rules -> Rows]
  /\ cached \in [Keys -> SUBSET SUBSET Entries]
  /\ stale \in [Keys -> BOOLEAN]

LEMMA TypeParts == PolicyTypeOK <=> CallsOK /\ UpdatesOK /\ StoreOK
  BY DEF PolicyTypeOK, CallsOK, UpdatesOK, StoreOK

LEMMA EnterType ==
  ASSUME CallsOK, NEW c \in ToolCalls, NEW l \in SUBSET Entries, Enter(c, l)
  PROVE  /\ stage' \in [ToolCalls -> Stages]
         /\ list' \in [ToolCalls -> SUBSET Entries] /\ todo' \in [ToolCalls -> SUBSET Entries]
         /\ found' \in [ToolCalls -> BOOLEAN]
<1>1. stage' \in [ToolCalls -> Stages]
  BY DEF CallsOK, Enter, Goto, Stages
<1>2. list' \in [ToolCalls -> SUBSET Entries] /\ todo' \in [ToolCalls -> SUBSET Entries]
  BY DEF CallsOK, Enter
<1>3. found' \in [ToolCalls -> BOOLEAN]
  BY DEF CallsOK, Enter
<1> QED BY <1>1, <1>2, <1>3

LEMMA LookupType ==
  ASSUME CallsOK, StoreOK, NEW c \in ToolCalls, NEW k \in Keys, Lookup(c, k),
         tool' \in [ToolCalls -> Tools], confirmed' \in [ToolCalls -> BOOLEAN]
  PROVE  CallsOK'
<1>1. CASE \E l \in cached[k] : Enter(c, l)
  <2>1. PICK l \in SUBSET Entries : Enter(c, l)
    BY <1>1 DEF StoreOK
  <2> QED BY <2>1, EnterType DEF CallsOK
<1>2. CASE Goto(c, "load") /\ UNCHANGED <<list, todo, found>>
  BY <1>2 DEF CallsOK, Goto, Stages
<1>3. CASE Enter(c, Defaults(k))
  BY <1>3, EnterType, DefaultsType DEF CallsOK
<1> QED BY <1>1, <1>2, <1>3 DEF Lookup

LEMMA LoadType ==
  ASSUME CallsOK, StoreOK, NEW c \in ToolCalls, Load(c)
  PROVE  CallsOK'
<1>0. CallKey(c) \in Keys /\ tool' = tool /\ confirmed' = confirmed
  BY CallKeyType DEF CallsOK, Load, CallKey
<1>1. CASE /\ Goto(c, "fill") /\ list' = [list EXCEPT ![c] = Listed(CallKey(c))]
           /\ UNCHANGED <<todo, found>>
  <2>1. Listed(CallKey(c)) \in SUBSET Entries
    BY <1>0, ListedType DEF StoreOK
  <2>2. list' \in [ToolCalls -> SUBSET Entries]
    BY <1>1, <2>1 DEF CallsOK
  <2> QED BY <1>0, <1>1, <2>2 DEF CallsOK, Goto, Stages
<1>2. CASE Enter(c, Defaults(CallKey(c)))
  BY <1>0, <1>2, EnterType, DefaultsType DEF CallsOK
<1> QED BY <1>1, <1>2 DEF Load

LEMMA FillType ==
  ASSUME CallsOK, StoreOK, NEW c \in ToolCalls, Fill(c)
  PROVE  CallsOK' /\ StoreOK'
<1>1. /\ CallKey(c) \in Keys /\ tool' = tool /\ confirmed' = confirmed
      /\ list[c] \in SUBSET Entries
  BY CallKeyType DEF CallsOK, Fill, CallKey
<1>2. CallsOK'
  BY <1>1, EnterType, DefaultsType DEF Fill, CallsOK
<1>3. cached' \in [Keys -> SUBSET SUBSET Entries]
  BY <1>1 DEF Fill, StoreOK
<1>4. stale' \in [Keys -> BOOLEAN]
  BY DEF Fill, StoreOK
<1> QED BY <1>2, <1>3, <1>4 DEF Fill, StoreOK

LEMMA VisitType ==
  ASSUME CallsOK, NEW c \in ToolCalls, Visit(c)
  PROVE  CallsOK'
<1>1. PICK e \in todo[c] : Matches(c, e)
  BY DEF Visit
<1>2. stage' \in [ToolCalls -> Stages]
  BY <1>1 DEF CallsOK, Matches, Match, Goto, Stages
<1>3. todo' \in [ToolCalls -> SUBSET Entries]
  BY <1>1 DEF CallsOK, Matches, Match
<1>4. found' \in [ToolCalls -> BOOLEAN]
  BY <1>1 DEF CallsOK, Matches, Match
<1> QED BY <1>2, <1>3, <1>4 DEF Visit, CallsOK

LEMMA EndType ==
  ASSUME UpdatesOK, NEW u \in Updates, NEW s \in Steps, End(u, s), UNCHANGED <<overlapped, doubtful>>
  PROVE  UpdatesOK'
<1>1. rule' \in [Updates -> Rules]
  BY AnyRuleType DEF UpdatesOK, End
<1>2. patch' \in [Updates -> Patches] /\ row' \in [Updates -> Rows]
  BY NoPatchType DEF UpdatesOK, End
<1>3. step' \in [Updates -> Steps] /\ approved' \in [Updates -> BOOLEAN]
  BY DEF UpdatesOK, End, Advance
<1> QED BY <1>1, <1>2, <1>3 DEF UpdatesOK

LEMMA StartType ==
  ASSUME UpdatesOK, StoreOK, NEW u \in Updates, Start(u)
  PROVE  UpdatesOK'
<1>1. ASSUME NEW r \in Rules, NEW p \in Patches, NEW ok \in BOOLEAN, ReadRow(u, r, p, ok)
      PROVE  UpdatesOK'
  <2>1. rules[r] \in Rows
    BY DEF StoreOK
  <2>2. rule' \in [Updates -> Rules] /\ patch' \in [Updates -> Patches]
    BY <1>1 DEF ReadRow, UpdatesOK
  <2>3. row' \in [Updates -> Rows] /\ approved' \in [Updates -> BOOLEAN]
    BY <1>1, <2>1 DEF ReadRow, UpdatesOK
  <2>4. step' \in [Updates -> Steps]
    BY <1>1 DEF ReadRow, Advance, UpdatesOK, Steps
  <2>5. doubtful' \in BOOLEAN /\ overlapped' \in BOOLEAN
    BY <1>1 DEF ReadRow, UpdatesOK
  <2> QED BY <2>2, <2>3, <2>4, <2>5 DEF UpdatesOK
<1>2. CASE Advance(u, "rejectRole") /\ UNCHANGED <<locals, overlapped, doubtful>>
  BY <1>2 DEF UpdatesOK, Advance, Steps, locals
<1>3. CASE Advance(u, "failed") /\ UNCHANGED <<locals, overlapped, doubtful>>
  BY <1>3 DEF UpdatesOK, Advance, Steps, Ended, locals
<1> QED BY <1>1, <1>2, <1>3 DEF Start

LEMMA UpdatingType ==
  ASSUME UpdatesOK, StoreOK, NEW u \in Updates, Updating(u)
  PROVE  UpdatesOK' /\ StoreOK'
<1>0. /\ {"refused", "failed", "done", "broken", "log", "drop", "dropMoved"} \subseteq Steps
      /\ row[u] \in Rows /\ rule[u] \in Rules /\ Merged(row[u], patch[u]) \in Rows
  BY MergedType DEF Steps, Ended, UpdatesOK
<1>1. ASSUME NEW s \in Steps, Advance(u, s), UNCHANGED <<locals, overlapped, doubtful>>
      PROVE  UpdatesOK'
  BY <1>1 DEF Advance, UpdatesOK, locals
<1>2. UpdatesOK'
  BY <1>0, <1>1, EndType
  DEF Updating, Reject, WriteRow, LogChange, DropOld, DropMoved, Break
<1>3. rules' \in [Rules -> Rows]
  BY <1>0
  DEF Updating, Reject, WriteRow, LogChange, DropOld, DropMoved, StoreOK, store
<1>4. cached' \in [Keys -> SUBSET SUBSET Entries]
  BY DEF Updating, Reject, WriteRow, LogChange, DropOld, DropMoved, Break, Drop, StoreOK, store
<1>5. stale' \in [Keys -> BOOLEAN]
  BY DEF Updating, Reject, WriteRow, LogChange, DropOld, DropMoved, Break, Drop, StoreOK, store
<1> QED BY <1>2, <1>3, <1>4, <1>5 DEF StoreOK

LEMMA PolicyTypeStep ==
  ASSUME PolicyTypeOK, [PolicyNext]_policyVars
  PROVE  PolicyTypeOK'
<1>0. CallsOK /\ UpdatesOK /\ StoreOK
  BY TypeParts
<1>a. UNCHANGED callVars => CallsOK'
  BY <1>0 DEF CallsOK, callVars
<1>b. UNCHANGED updVars => UpdatesOK'
  BY <1>0 DEF UpdatesOK, updVars, locals
<1>c. UNCHANGED store => StoreOK'
  BY <1>0 DEF StoreOK, store
<1> SUFFICES CallsOK' /\ UpdatesOK' /\ StoreOK'
  BY DEF PolicyTypeOK, CallsOK, UpdatesOK, StoreOK
<1>1. CASE UNCHANGED policyVars
  BY <1>1, <1>a, <1>b, <1>c DEF policyVars
<1>2. ASSUME NEW c \in ToolCalls, Propose(c) PROVE CallsOK' /\ UpdatesOK' /\ StoreOK'
  <2>1. PICK t \in Tools :
          tool' = [tool EXCEPT ![c] = t] /\ Lookup(c, <<"facility_booking", t>>)
    BY <1>2 DEF Propose
  <2>2. tool' \in [ToolCalls -> Tools] /\ confirmed' \in [ToolCalls -> BOOLEAN]
    BY <1>0, <1>2, <2>1 DEF Propose, CallsOK
  <2> QED BY <1>0, <1>b, <1>c, <2>1, <2>2, CallKeyType, LookupType DEF Lookup
<1>3. ASSUME NEW c \in ToolCalls, Confirm(c) PROVE CallsOK' /\ UpdatesOK' /\ StoreOK'
  <2>1. tool' \in [ToolCalls -> Tools] /\ confirmed' \in [ToolCalls -> BOOLEAN]
    BY <1>0, <1>3 DEF Confirm, CallsOK
  <2>2. CallKey(c) \in Keys
    BY <1>0, CallKeyType DEF CallsOK, CallKey
  <2> QED BY <1>0, <1>3, <1>b, <1>c, <2>1, <2>2, LookupType DEF Lookup, Confirm
<1>4. ASSUME NEW c \in ToolCalls, Load(c) PROVE CallsOK' /\ UpdatesOK' /\ StoreOK'
  BY <1>0, <1>4, <1>b, <1>c, LoadType DEF Load
<1>5. ASSUME NEW c \in ToolCalls, Fill(c) PROVE CallsOK' /\ UpdatesOK' /\ StoreOK'
  BY <1>0, <1>5, <1>b, FillType DEF Fill
<1>6. ASSUME NEW c \in ToolCalls, Visit(c) PROVE CallsOK' /\ UpdatesOK' /\ StoreOK'
  BY <1>0, <1>6, <1>b, <1>c, VisitType DEF Visit
<1>7. ASSUME NEW c \in ToolCalls, Decide(c) PROVE CallsOK' /\ UpdatesOK' /\ StoreOK'
  <2>1. stage' \in [ToolCalls -> Stages]
    BY <1>0, <1>7 DEF Decide, Goto, CallsOK, Stages
  <2> QED BY <1>0, <1>7, <1>b, <1>c, <2>1 DEF Decide, CallsOK
<1>8. ASSUME NEW u \in Updates, Start(u) PROVE CallsOK' /\ UpdatesOK' /\ StoreOK'
  BY <1>0, <1>8, <1>a, <1>c, StartType DEF Start
<1>9. ASSUME NEW u \in Updates, Updating(u) PROVE CallsOK' /\ UpdatesOK' /\ StoreOK'
  BY <1>0, <1>9, <1>a, UpdatingType
  DEF Updating, Reject, WriteRow, LogChange, DropOld, DropMoved
<1>10. ASSUME NEW k \in Keys, Expire(k) PROVE CallsOK' /\ UpdatesOK' /\ StoreOK'
  BY <1>0, <1>10, <1>a, <1>b DEF Expire, Drop, StoreOK
<1> QED
  BY <1>1, <1>2, <1>3, <1>4, <1>5, <1>6, <1>7, <1>8, <1>9, <1>10
  DEF PolicyNext, Evaluating

\* Every variable keeps its type: what an update merges is a row again, and
\* what the cache holds a list of rules (policy_store.py).
THEOREM PolicyTypeCorrect == PolicySpec => []PolicyTypeOK
<1>1. ASSUME PolicyInit PROVE PolicyTypeOK
  <2>1. rules \in [Rules -> Rows]
    BY <1>1 DEF PolicyInit, Rows, ConfirmRow, HourlyRow, Capabilities, Tools, Actions
  <2>2. rule \in [Updates -> Rules]
    BY <1>1, AnyRuleType DEF PolicyInit
  <2>3. patch \in [Updates -> Patches] /\ row \in [Updates -> Rows]
    BY <1>1, NoPatchType DEF PolicyInit
  <2>4. stage \in [ToolCalls -> Stages] /\ tool \in [ToolCalls -> Tools] /\ step \in [Updates -> Steps]
    BY <1>1 DEF PolicyInit, Stages, Tools, Steps
  <2> QED BY <1>1, <2>1, <2>2, <2>3, <2>4 DEF PolicyInit, PolicyTypeOK
<1>2. PolicyTypeOK /\ [PolicyNext]_policyVars => PolicyTypeOK'
  BY PolicyTypeStep
<1> QED BY <1>1, <1>2, PTL DEF PolicySpec

-----------------------------------------------------------------------------
(* Verdicts *)

\* What the loop has decided so far, and what followed from it.
Verdict(c) ==
  /\ stage[c] = "loop" =>
       /\ todo[c] \subseteq list[c]
       /\ \A e \in list[c] \ todo[c] :
            /\ e.cond = "none"
            /\ e.action = "ALLOW" \/ (e.action = "REQUIRE_CONFIRMATION" /\ found[c])
       /\ found[c] => \E e \in list[c] : e.action = "REQUIRE_CONFIRMATION"
  /\ stage[c] = "made" =>
       \A e \in list[c] :
         /\ e.cond = "none"
         /\ e.action = "ALLOW" \/ (e.action = "REQUIRE_CONFIRMATION" /\ confirmed[c])
  /\ stage[c] = "asked" => \E e \in list[c] : e.action = "REQUIRE_CONFIRMATION"

CallStep(c) == Propose(c) \/ Confirm(c) \/ Evaluating(c)

\* A step of one call leaves the others alone.
LEMMA CallFrame ==
  ASSUME CallsOK, NEW c \in ToolCalls, CallStep(c), NEW d \in ToolCalls, d # c
  PROVE  /\ stage'[d] = stage[d] /\ tool'[d] = tool[d] /\ list'[d] = list[d]
         /\ todo'[d] = todo[d] /\ found'[d] = found[d] /\ confirmed'[d] = confirmed[d]
<1> USE DEF CallsOK
<1>1. \A l : Enter(c, l) =>
        /\ stage'[d] = stage[d] /\ list'[d] = list[d] /\ todo'[d] = todo[d]
        /\ found'[d] = found[d]
  BY DEF Enter, Goto
<1>2. \A t : Lookup(c, t) =>
        /\ stage'[d] = stage[d] /\ list'[d] = list[d] /\ todo'[d] = todo[d]
        /\ found'[d] = found[d]
  BY <1>1 DEF Lookup, Goto
<1>3. CASE Propose(c)
  BY <1>2, <1>3 DEF Propose
<1>4. CASE Confirm(c)
  BY <1>2, <1>4 DEF Confirm
<1>5. CASE Load(c)
  BY <1>1, <1>5 DEF Load, Goto
<1>6. CASE Fill(c)
  BY <1>1, <1>6 DEF Fill
<1>7. CASE Visit(c)
  BY <1>7 DEF Visit, Matches, Match, Goto
<1>8. CASE Decide(c)
  BY <1>8 DEF Decide, Goto
<1> QED BY <1>3, <1>4, <1>5, <1>6, <1>7, <1>8 DEF CallStep, Evaluating

LEMMA EnterVerdict ==
  ASSUME CallsOK, NEW c \in ToolCalls, NEW l, Enter(c, l)
  PROVE  Verdict(c)'
  BY DEF CallsOK, Enter, Goto, Verdict

LEMMA MatchVerdict ==
  ASSUME CallsOK, NEW c \in ToolCalls, Verdict(c), stage[c] = "loop",
         NEW e \in todo[c], e.cond = "none", Match(c, e), list' = list
  PROVE  Verdict(c)'
<1>1. e \in list[c] /\ e.action \in Actions
  BY DEF Verdict, CallsOK, Entries
<1>2. CASE e.action = "DENY"
  BY <1>1, <1>2 DEF Match, Goto, Verdict, CallsOK
<1>3. CASE e.action # "DENY"
  <2>1. /\ stage'[c] = "loop" /\ todo'[c] = todo[c] \ {e}
        /\ found'[c] = (found[c] \/ e.action = "REQUIRE_CONFIRMATION")
    BY <1>3 DEF Match, CallsOK
  <2>2. e.action = "ALLOW" \/ e.action = "REQUIRE_CONFIRMATION"
    BY <1>1, <1>3 DEF Actions
  <2>3. CASE e.action = "ALLOW"
    BY <1>1, <2>1, <2>3 DEF Verdict
  <2>4. CASE e.action = "REQUIRE_CONFIRMATION"
    BY <1>1, <2>1, <2>4 DEF Verdict
  <2> QED BY <2>2, <2>3, <2>4
<1> QED BY <1>2, <1>3

LEMMA VisitVerdict ==
  ASSUME CallsOK, NEW c \in ToolCalls, Verdict(c), Visit(c)
  PROVE  Verdict(c)'
<1>1. stage[c] = "loop" /\ list' = list /\ confirmed' = confirmed
  BY DEF Visit
<1>2. PICK e \in todo[c] : Matches(c, e)
  BY DEF Visit
<1>3. CASE e.cond = "none"
  BY <1>1, <1>2, <1>3, MatchVerdict DEF Matches
<1>4. CASE e.cond # "none"
  BY <1>1, <1>2, <1>4 DEF Matches, Goto, Verdict, CallsOK
<1> QED BY <1>3, <1>4

LEMMA VerdictStep ==
  ASSUME PolicyTypeOK, \A c \in ToolCalls : Verdict(c), [PolicyNext]_policyVars,
         NEW c \in ToolCalls
  PROVE  Verdict(c)'
<1>0. CallsOK /\ Verdict(c)
  BY TypeParts
<1>1. CASE UNCHANGED <<stage, list, todo, found, confirmed>>
  BY <1>0, <1>1 DEF Verdict
<1>2. CASE Propose(c) \/ Confirm(c)
  <2>1. PICK k : Lookup(c, k)
    BY <1>2 DEF Propose, Confirm
  <2>2. CASE stage'[c] = "load"
    BY <2>2 DEF Verdict
  <2>3. CASE \E l : Enter(c, l)
    BY <1>0, <2>3, EnterVerdict
  <2> QED BY <1>0, <2>1, <2>2, <2>3 DEF Lookup, Goto, CallsOK
<1>3. CASE Load(c)
  <2>1. CASE stage'[c] = "fill"
    BY <2>1 DEF Verdict
  <2>2. CASE Enter(c, Defaults(CallKey(c)))
    BY <1>0, <2>2, EnterVerdict
  <2> QED BY <1>0, <1>3, <2>1, <2>2 DEF Load, Goto, CallsOK
<1>4. CASE Fill(c)
  BY <1>0, <1>4, EnterVerdict DEF Fill
<1>5. CASE Visit(c)
  BY <1>0, <1>5, VisitVerdict
<1>6. CASE Decide(c)
  BY <1>0, <1>6 DEF Decide, Goto, Verdict, CallsOK
<1>7. ASSUME NEW d \in ToolCalls, d # c, CallStep(d) PROVE Verdict(c)'
  BY <1>0, <1>7, CallFrame DEF Verdict
<1>8. ASSUME NEW u \in Updates, Start(u) \/ Updating(u) PROVE Verdict(c)'
  BY <1>1, <1>8
  DEF Start, Updating, Reject, WriteRow, LogChange, DropOld, DropMoved, callVars
<1>9. CASE UNCHANGED policyVars \/ \E k \in Keys : Expire(k)
  BY <1>1, <1>9 DEF policyVars, callVars, Expire
<1> QED
  BY <1>2, <1>3, <1>4, <1>5, <1>6, <1>7, <1>8, <1>9
  DEF PolicyNext, Evaluating, CallStep

LEMMA VerdictAlways == PolicySpec => [](\A c \in ToolCalls : Verdict(c))
<1> DEFINE Verdicts == \A c \in ToolCalls : Verdict(c)
<1>1. PolicyInit => Verdicts
  BY DEF PolicyInit, Verdict
<1>2. PolicyTypeOK /\ Verdicts /\ [PolicyNext]_policyVars => Verdicts'
  <2> SUFFICES ASSUME PolicyTypeOK, Verdicts, [PolicyNext]_policyVars PROVE Verdicts'
    OBVIOUS
  <2> QED BY VerdictStep
<1> HIDE DEF Verdicts
<1>3. PolicySpec => []Verdicts
  BY <1>1, <1>2, PolicyTypeCorrect, PTL DEF PolicySpec
<1> QED BY <1>3 DEF Verdicts

\* The verdict is the strictest of the rules the evaluation used, for any rules
\* and any interleaving (policy_engine.evaluate).
THEOREM NoRuleOverlookedCorrect == PolicySpec => []NoRuleOverlooked
<1>1. (\A c \in ToolCalls : Verdict(c)) => NoRuleOverlooked
  BY DEF Verdict, NoRuleOverlooked
<1> QED BY <1>1, VerdictAlways, PTL

-----------------------------------------------------------------------------
(* Confirmed bookings *)

\* Whatever list an evaluation of a booking finds asks for a confirmation.
Asks(l) == \A r \in ConfirmRules : \E e \in l : e.id = r /\ e.action = "REQUIRE_CONFIRMATION"

Asking ==
  ~doubtful =>
    /\ \A r \in ConfirmRules : rules[r] = ConfirmRow
    /\ \A u \in Updates : step[u] = "write" /\ rule[u] \in ConfirmRules =>
         Merged(row[u], patch[u]) = ConfirmRow
    /\ \A l \in cached[BookingKey] : Asks(l)
    /\ \A c \in ToolCalls :
         tool[c] = "create_booking" /\ stage[c] \in {"fill", "loop", "made"} => Asks(list[c])

LEMMA BookingKeyType == BookingKey \in Keys
  BY DEF BookingKey, Keys, Capabilities, Tools

LEMMA ListedAsks ==
  ASSUME \A r \in ConfirmRules : rules[r] = ConfirmRow
  PROVE  Asks(Listed(BookingKey))
<1> SUFFICES ASSUME NEW r \in ConfirmRules
             PROVE \E e \in Listed(BookingKey) : e.id = r /\ e.action = "REQUIRE_CONFIRMATION"
  BY DEF Asks
<1>1. r \in Rules /\ rules[r].active /\ Key(rules[r]) = BookingKey
  BY DEF Rules, ConfirmRow, Key, BookingKey
<1>2. Entry(r).id = r /\ Entry(r).action = "REQUIRE_CONFIRMATION"
  BY DEF Entry, ConfirmRow
<1>3. Entry(r) \in Listed(BookingKey)
  BY <1>1 DEF Listed
<1> QED BY <1>2, <1>3

LEMMA DefaultsAsk == Asks(Defaults(BookingKey))
<1> SUFFICES ASSUME NEW r \in ConfirmRules
             PROVE \E e \in Defaults(BookingKey) : e.id = r /\ e.action = "REQUIRE_CONFIRMATION"
  BY DEF Asks
<1>1. [id |-> r, cond |-> "none", action |-> "REQUIRE_CONFIRMATION"] \in Defaults(BookingKey)
  BY DEF Defaults
<1> QED BY <1>1

\* An update without approval that moves nothing leaves a confirmation rule
\* alone or is rejected.
LEMMA UnapprovedRejected ==
  ASSUME NEW p \in Patches, p.tool = Keep, p.capability = Keep,
         ~IsCritical(ConfirmRow, Merged(ConfirmRow, p))
  PROVE  Merged(ConfirmRow, p) = ConfirmRow
<1> DEFINE new == Merged(ConfirmRow, p)
<1>1. new = [capability |-> "facility_booking", tool |-> "create_booking",
             action |-> new.action, active |-> new.active]
  BY DEF Merged, Default, ConfirmRow
<1> HIDE DEF new
<1>2. new.action = "REQUIRE_CONFIRMATION" /\ new.active = TRUE
  <2>1. ~IsCritical(ConfirmRow, new)
    BY DEF new
  <2> QED BY <1>1, <2>1 DEF IsCritical, ConfirmRow
<1>3. new = ConfirmRow
  BY <1>1, <1>2 DEF ConfirmRow
<1> QED BY <1>3 DEF new

\* A step of one update leaves the others alone.
LEMMA UpdateFrame ==
  ASSUME UpdatesOK, NEW u \in Updates, Start(u) \/ Updating(u), NEW v \in Updates, v # u
  PROVE  /\ step'[v] = step[v] /\ rule'[v] = rule[v] /\ patch'[v] = patch[v]
         /\ approved'[v] = approved[v] /\ row'[v] = row[v]
<1> USE DEF UpdatesOK
<1>1. \A s : Advance(u, s) => step'[v] = step[v]
  BY DEF Advance
<1>2. \A s : End(u, s) =>
        /\ step'[v] = step[v] /\ rule'[v] = rule[v] /\ patch'[v] = patch[v]
        /\ approved'[v] = approved[v] /\ row'[v] = row[v]
  BY <1>1 DEF End
<1>3. CASE Start(u)
  BY <1>1, <1>3 DEF Start, ReadRow, locals
<1>4. CASE Updating(u)
  BY <1>1, <1>2, <1>4
  DEF Updating, Reject, WriteRow, LogChange, DropOld, DropMoved, Break, locals
<1> QED BY <1>3, <1>4

\* Only WriteRow leaves "write" behind, and only Start leads there.
LEMMA UpdatingSteps ==
  ASSUME UpdatesOK, NEW u \in Updates, Updating(u)
  PROVE  /\ step'[u] # "write"
         /\ \A s \in {"write", "log"} : step[u] # s => step'[u] # s \/ s = "log"
         /\ UNCHANGED <<overlapped, doubtful, callVars>>
  BY DEF UpdatesOK, Updating, Reject, WriteRow, LogChange, DropOld, DropMoved, Break, End,
         Advance, store, callVars, locals

LEMMA AskingStart ==
  ASSUME PolicyTypeOK, Asking, NEW u \in Updates, Start(u)
  PROVE  Asking'
<1>0. UpdatesOK /\ UNCHANGED <<store, callVars>>
  BY TypeParts DEF Start
<1>1. doubtful => doubtful'
  BY DEF Start, ReadRow
<1> SUFFICES ASSUME ~doubtful'
             PROVE  \A v \in Updates : step'[v] = "write" /\ rule'[v] \in ConfirmRules =>
                      Merged(row'[v], patch'[v]) = ConfirmRow
  BY <1>0, <1>1 DEF Asking, store, callVars, Merged
<1>2. step'[u] = "write" /\ rule'[u] \in ConfirmRules => Merged(row'[u], patch'[u]) = ConfirmRow
  <2>1. ASSUME NEW r \in Rules, NEW p \in Patches, NEW ok \in BOOLEAN, ReadRow(u, r, p, ok),
               step'[u] = "write", rule'[u] \in ConfirmRules
        PROVE  Merged(row'[u], patch'[u]) = ConfirmRow
    <3>1. /\ rule'[u] = r /\ row'[u] = rules[r] /\ patch'[u] = p
          /\ step'[u] = IF IsCritical(rules[r], Merged(rules[r], p)) /\ ~ok
                        THEN "rejectCritical" ELSE "write"
      BY <1>0, <2>1 DEF ReadRow, Advance, UpdatesOK
    <3>2. ~ok /\ p.tool = Keep /\ p.capability = Keep
      BY <2>1, <3>1 DEF ReadRow
    <3>3. rules[r] = ConfirmRow
      BY <1>1, <2>1, <3>1 DEF Asking
    <3>4. ~IsCritical(ConfirmRow, Merged(ConfirmRow, p))
      BY <2>1, <3>1, <3>2, <3>3
    <3> QED BY <3>1, <3>2, <3>3, <3>4, UnapprovedRejected
  <2>2. CASE Advance(u, "rejectRole") \/ Advance(u, "failed")
    BY <1>0, <2>2 DEF Advance, UpdatesOK
  <2> QED BY <2>1, <2>2 DEF Start
<1>3. \A v \in Updates \ {u} :
        step'[v] = step[v] /\ rule'[v] = rule[v] /\ row'[v] = row[v] /\ patch'[v] = patch[v]
  BY <1>0, UpdateFrame
<1> QED BY <1>1, <1>2, <1>3 DEF Asking

LEMMA AskingUpdating ==
  ASSUME PolicyTypeOK, Asking, NEW u \in Updates, Updating(u)
  PROVE  Asking'
<1>0. UpdatesOK /\ StoreOK
  BY TypeParts
<1>1. UNCHANGED <<overlapped, doubtful, callVars>> /\ step'[u] # "write"
  BY <1>0, UpdatingSteps
<1> SUFFICES ASSUME ~doubtful PROVE Asking'
  BY <1>1 DEF Asking
<1>2. \A r \in ConfirmRules : rules'[r] = ConfirmRow
  <2>1. CASE WriteRow(u)
    <3>1. rule[u] \in ConfirmRules => Merged(row[u], patch[u]) = ConfirmRow
      BY <2>1 DEF WriteRow, Asking
    <3> QED BY <1>0, <2>1, <3>1 DEF WriteRow, Asking, StoreOK, Rules
  <2>2. CASE Reject(u) \/ LogChange(u) \/ DropOld(u) \/ DropMoved(u)
    BY <2>2 DEF Reject, LogChange, DropOld, DropMoved, store, Asking
  <2> QED BY <2>1, <2>2 DEF Updating
<1>3. ASSUME NEW v \in Updates, step'[v] = "write", rule'[v] \in ConfirmRules
      PROVE  Merged(row'[v], patch'[v]) = ConfirmRow
  <2>1. v # u
    BY <1>1, <1>3
  <2> QED BY <1>0, <1>3, <2>1, UpdateFrame DEF Asking
<1>4. cached'[BookingKey] \subseteq cached[BookingKey]
  BY <1>0, BookingKeyType
  DEF Updating, Reject, WriteRow, LogChange, DropOld, DropMoved, Break, Drop, store, StoreOK
<1> QED BY <1>1, <1>2, <1>3, <1>4 DEF Asking, callVars

LEMMA AskingCall ==
  ASSUME PolicyTypeOK, Asking, NEW c \in ToolCalls, CallStep(c)
  PROVE  Asking'
<1>0. CallsOK /\ StoreOK
  BY TypeParts
<1>1. UNCHANGED <<rules, updVars>>
  BY DEF CallStep, Evaluating, Propose, Confirm, Lookup, Load, Fill, Visit, Decide, store
<1> SUFFICES ASSUME ~doubtful,
                    \A r \in ConfirmRules : rules[r] = ConfirmRow
             PROVE  /\ \A l \in cached'[BookingKey] : Asks(l)
                    /\ tool'[c] = "create_booking" /\ stage'[c] \in {"fill", "loop", "made"} =>
                         Asks(list'[c])
  BY <1>0, <1>1, CallFrame DEF Asking, updVars, locals
<1>2. ASSUME NEW l, Enter(c, l) PROVE list'[c] = l
  BY <1>0, <1>2 DEF Enter, CallsOK
<1>3. \A l \in cached[BookingKey] : Asks(l)
  BY DEF Asking
<1>4. ASSUME NEW t, Lookup(c, <<"facility_booking", t>>), tool'[c] = t
      PROVE  tool'[c] = "create_booking" /\ stage'[c] \in {"fill", "loop", "made"} => Asks(list'[c])
  <2> SUFFICES ASSUME t = "create_booking", stage'[c] \in {"fill", "loop", "made"}
               PROVE  Asks(list'[c])
    BY <1>4
  <2>1. <<"facility_booking", t>> = BookingKey
    BY DEF BookingKey
  <2>2. stage'[c] # "load"
    OBVIOUS
  <2>3. \E l \in cached[BookingKey] \cup {Defaults(BookingKey)} : Enter(c, l)
    BY <1>0, <1>4, <2>1, <2>2 DEF Lookup, Goto, CallsOK
  <2> QED BY <1>2, <1>3, <2>3, DefaultsAsk
<1>5. CASE Propose(c) \/ Confirm(c)
  <2>1. PICK t : Lookup(c, <<"facility_booking", t>>) /\ tool'[c] = t
    BY <1>0, <1>5 DEF Propose, Confirm, CallsOK, CallKey
  <2>2. cached' = cached
    BY <2>1 DEF Lookup, store
  <2> QED BY <1>3, <1>4, <2>1, <2>2
<1>6. CASE Load(c)
  <2>1. cached' = cached /\ tool' = tool
    BY <1>6 DEF Load, store
  <2>2. list'[c] \in {Listed(CallKey(c)), Defaults(CallKey(c))}
    BY <1>0, <1>2, <1>6 DEF Load, CallsOK
  <2>3. tool[c] = "create_booking" => CallKey(c) = BookingKey
    BY DEF CallKey, BookingKey
  <2> QED BY <1>3, <2>1, <2>2, <2>3, ListedAsks, DefaultsAsk
<1>7. CASE Fill(c)
  <2>1. tool' = tool /\ list'[c] \in {list[c], Defaults(CallKey(c))}
    BY <1>2, <1>7 DEF Fill
  <2>2. tool[c] = "create_booking" => Asks(list[c])
    BY <1>7 DEF Fill, Asking
  <2>3. CallKey(c) = BookingKey <=> tool[c] = "create_booking"
    BY DEF CallKey, BookingKey
  <2>4. \/ cached'[BookingKey] = cached[BookingKey]
        \/ CallKey(c) = BookingKey /\ cached'[BookingKey] = {list[c]}
    BY <1>0, <1>7, BookingKeyType DEF Fill, StoreOK
  <2> QED BY <1>3, <2>1, <2>2, <2>3, <2>4, DefaultsAsk
<1>8. CASE Visit(c) \/ Decide(c)
  <2>1. UNCHANGED <<cached, tool, list>> /\ stage[c] = "loop"
    BY <1>8 DEF Visit, Decide, store
  <2> QED BY <1>3, <2>1 DEF Asking
<1> QED BY <1>5, <1>6, <1>7, <1>8 DEF CallStep, Evaluating

LEMMA AskingAlways == PolicySpec => []Asking
<1>1. ASSUME PolicyInit PROVE Asking
  <2>1. \A r \in ConfirmRules : rules[r] = ConfirmRow
    BY <1>1 DEF PolicyInit, Rules
  <2>2. cached[BookingKey] = {}
    BY <1>1, BookingKeyType DEF PolicyInit
  <2>3. /\ \A u \in Updates : step[u] # "write"
        /\ \A c \in ToolCalls : stage[c] = "idle"
    BY <1>1 DEF PolicyInit
  <2> QED BY <2>1, <2>2, <2>3 DEF Asking
<1>2. ASSUME PolicyTypeOK, Asking, [PolicyNext]_policyVars PROVE Asking'
  <2>1. CASE UNCHANGED policyVars
    BY <1>2, <2>1 DEF policyVars, store, callVars, updVars, locals, Asking, Merged
  <2>2. ASSUME NEW k \in Keys, Expire(k) PROVE Asking'
    <3>1. StoreOK
      BY <1>2, TypeParts
    <3>2. cached'[BookingKey] \subseteq cached[BookingKey]
      BY <2>2, <3>1, BookingKeyType DEF Expire, Drop, StoreOK
    <3> QED BY <1>2, <2>2, <3>2 DEF Expire, Asking, callVars, updVars, locals, Merged
  <2> QED
    BY <1>2, <2>1, <2>2, AskingStart, AskingUpdating, AskingCall
    DEF PolicyNext, CallStep
<1> QED BY <1>1, <1>2, PolicyTypeCorrect, PTL DEF PolicySpec

\* Bookings are made after a confirmation only, as long as nobody starts to
\* change that with an approval or to move a confirmation rule, by whatever way
\* the rules reach the evaluation (policy_store.py, policy_engine.py).
THEOREM BookingsStayConfirmedCorrect == PolicySpec => []BookingsStayConfirmed
<1>1. (\A c \in ToolCalls : Verdict(c)) /\ Asking => BookingsStayConfirmed
  <2> SUFFICES ASSUME \A d \in ToolCalls : Verdict(d), Asking, ~doubtful, NEW c \in ToolCalls,
                      stage[c] = "made", tool[c] = "create_booking"
               PROVE  confirmed[c]
    BY DEF BookingsStayConfirmed
  <2>1. PICK r \in ConfirmRules : TRUE
    BY RulesAssumption
  <2>2. PICK e \in list[c] : e.action = "REQUIRE_CONFIRMATION"
    BY <2>1 DEF Asking, Asks
  <2> QED BY <2>2 DEF Verdict
<1> QED BY <1>1, VerdictAlways, AskingAlways, PTL

-----------------------------------------------------------------------------
(* Approved changes *)

\* Without overlap an update is about to write over the row it read, and
\* nobody else is about to write it.
Current ==
  /\ ~overlapped =>
       /\ \A u \in Updates : step[u] = "write" => row[u] = rules[rule[u]]
       /\ \A u, v \in Updates :
            step[u] = "write" /\ step[v] = "write" /\ rule[u] = rule[v] => u = v
  /\ \A u \in Updates :
       step[u] = "write" => approved[u] \/ ~IsCritical(row[u], Merged(row[u], patch[u]))

LEMMA CriticalIsCritical ==
  ASSUME NEW old \in Rows, NEW new \in Rows, Critical(old, new)
  PROVE  IsCritical(old, new)
  BY DEF Critical, IsCritical, Rows, Actions

LEMMA CurrentStart ==
  ASSUME PolicyTypeOK, Current, NEW u \in Updates, Start(u)
  PROVE  Current'
<1>0. UpdatesOK /\ rules' = rules /\ step[u] = "idle"
  BY TypeParts DEF Start, store
<1>1. \A v \in Updates \ {u} :
        /\ step'[v] = step[v] /\ rule'[v] = rule[v] /\ patch'[v] = patch[v]
        /\ approved'[v] = approved[v] /\ row'[v] = row[v]
  BY <1>0, UpdateFrame
<1>2. ASSUME NEW r \in Rules, NEW p \in Patches, NEW ok \in BOOLEAN, ReadRow(u, r, p, ok)
      PROVE  Current'
  <2>1. /\ rule'[u] = r /\ patch'[u] = p /\ approved'[u] = ok /\ row'[u] = rules[r]
        /\ step'[u] = IF IsCritical(rules[r], Merged(rules[r], p)) /\ ~ok
                      THEN "rejectCritical" ELSE "write"
    BY <1>0, <1>2 DEF ReadRow, Advance, UpdatesOK
  <2>2. ~overlapped' => ~overlapped /\ \A v \in Updates : step[v] = "write" => rule[v] # r
    BY <1>2 DEF ReadRow
  <2>3. step'[u] = "write" =>
          approved'[u] \/ ~IsCritical(row'[u], Merged(row'[u], patch'[u]))
    BY <2>1
  <2>4. \A v \in Updates :
          step'[v] = "write" => approved'[v] \/ ~IsCritical(row'[v], Merged(row'[v], patch'[v]))
    BY <1>1, <2>3 DEF Current
  <2>5. ~overlapped' => \A v \in Updates : step'[v] = "write" => row'[v] = rules'[rule'[v]]
    BY <1>0, <1>1, <2>1, <2>2 DEF Current
  <2>6. ~overlapped' =>
          \A v, w \in Updates :
            step'[v] = "write" /\ step'[w] = "write" /\ rule'[v] = rule'[w] => v = w
    BY <1>1, <2>1, <2>2 DEF Current
  <2> QED BY <2>4, <2>5, <2>6 DEF Current
<1>3. CASE /\ Advance(u, "rejectRole") \/ Advance(u, "failed")
           /\ UNCHANGED <<locals, overlapped, doubtful>>
  <2>1. step'[u] # "write"
    BY <1>0, <1>3 DEF Advance, UpdatesOK
  <2> QED BY <1>0, <1>1, <1>3, <2>1 DEF Current
<1> QED BY <1>2, <1>3 DEF Start

LEMMA CurrentUpdating ==
  ASSUME PolicyTypeOK, Current, NEW u \in Updates, Updating(u)
  PROVE  Current'
<1>0. UpdatesOK /\ StoreOK
  BY TypeParts
<1>1. overlapped' = overlapped /\ step'[u] # "write"
  BY <1>0, UpdatingSteps
<1>2. \A v \in Updates \ {u} :
        /\ step'[v] = step[v] /\ rule'[v] = rule[v] /\ patch'[v] = patch[v]
        /\ approved'[v] = approved[v] /\ row'[v] = row[v]
  BY <1>0, UpdateFrame
<1>3. ~overlapped => \A v \in Updates \ {u} : step[v] = "write" => rules'[rule[v]] = rules[rule[v]]
  <2>1. CASE WriteRow(u)
    BY <1>0, <2>1 DEF WriteRow, Current, StoreOK, UpdatesOK
  <2>2. CASE Reject(u) \/ LogChange(u) \/ DropOld(u) \/ DropMoved(u)
    BY <2>2 DEF Reject, LogChange, DropOld, DropMoved, store
  <2> QED BY <2>1, <2>2 DEF Updating
<1> QED BY <1>1, <1>2, <1>3 DEF Current

LEMMA CurrentAlways == PolicySpec => []Current
<1>1. PolicyInit => Current
  BY DEF PolicyInit, Current
<1>2. ASSUME PolicyTypeOK, Current, [PolicyNext]_policyVars PROVE Current'
  <2>1. CASE UNCHANGED <<rules, updVars>>
    BY <1>2, <2>1 DEF Current, updVars, locals
  <2>2. ASSUME NEW c \in ToolCalls, CallStep(c) PROVE Current'
    BY <2>1, <2>2
    DEF CallStep, Evaluating, Propose, Confirm, Lookup, Load, Fill, Visit, Decide, store
  <2> QED
    BY <1>2, <2>1, <2>2, CurrentStart, CurrentUpdating
    DEF PolicyNext, CallStep, policyVars, store, Expire
<1> QED BY <1>1, <1>2, PolicyTypeCorrect, PTL DEF PolicySpec

\* A critical change belongs to an approved update, unless updates of one rule
\* overlapped, for any number of updates (policy_store.update_rule).
THEOREM CriticalChangesApprovedCorrect == PolicySpec => CriticalChangesApproved
<1>1. ASSUME PolicyTypeOK, Current, [PolicyNext]_policyVars, ~overlapped, NEW r \in Rules
      PROVE  ApprovedChange(r)
  <2>0. UpdatesOK /\ StoreOK
    BY <1>1, TypeParts
  <2>1. ASSUME NEW u \in Updates, WriteRow(u) PROVE ApprovedChange(r)
    <3>1. CASE rules'[r] = rules[r]
      BY <3>1 DEF ApprovedChange, Critical
    <3>2. CASE rules'[r] # rules[r]
      <4>1. /\ rule[u] = r /\ step[u] = "write" /\ step'[u] # "write"
            /\ rules'[r] = Merged(row[u], patch[u])
        BY <2>0, <2>1, <3>2 DEF WriteRow, Advance, StoreOK, UpdatesOK
      <4>2. row[u] = rules[r] /\ row[u] \in Rows /\ Merged(row[u], patch[u]) \in Rows
        BY <1>1, <2>0, <4>1, MergedType DEF Current, UpdatesOK
      <4>3. Critical(rules[r], rules'[r]) => approved[u]
        BY <1>1, <4>1, <4>2, CriticalIsCritical DEF Current
      <4> QED BY <4>1, <4>3 DEF ApprovedChange
    <3> QED BY <3>1, <3>2
  <2>2. CASE rules' = rules
    BY <2>2 DEF ApprovedChange, Critical
  <2> QED
    BY <1>1, <2>1, <2>2
    DEF PolicyNext, policyVars, store, Evaluating, Propose, Confirm, Lookup, Load, Fill, Visit,
        Decide, Start, Updating, Reject, LogChange, DropOld, DropMoved, Expire
<1>2. PolicyTypeOK /\ Current /\ [PolicyNext]_policyVars =>
        [~overlapped => \A r \in Rules : ApprovedChange(r)]_policyVars
  BY <1>1
<1> QED
  BY <1>2, PolicyTypeCorrect, CurrentAlways, PTL DEF PolicySpec, CriticalChangesApproved
-----------------------------------------------------------------------------
(* The cached lists *)

Follows(k) == cached[k] \subseteq {Listed(k)} \/ stale[k] \/ \E u \in Updates : OwesDrop(u, k)

\* A list depends on the rules only, and on those that are or were in it.
LEMMA ListedFrame ==
  ASSUME NEW k \in Keys,
         \A r \in Rules : rules'[r] = rules[r] \/ k \notin {Key(rules[r]), Key(rules'[r])}
  PROVE  Listed(k)' = Listed(k)
<1>1. \A r \in Rules :
        (rules'[r].active /\ Key(rules'[r]) = k) <=> (rules[r].active /\ Key(rules[r]) = k)
  OBVIOUS
<1>2. \A r \in Rules : Key(rules[r]) = k => Entry(r)' = Entry(r)
  BY DEF Entry
<1> QED BY <1>1, <1>2 DEF Listed

\* Nothing but updates changes what they owe.
LEMMA FollowsFrame ==
  ASSUME NEW k \in Keys, Follows(k), UNCHANGED rules,
         cached'[k] = {} \/ UNCHANGED <<cached, stale>>,
         \A u \in Updates : OwesDrop(u, k) => OwesDrop(u, k)'
  PROVE  Follows(k)'
<1>1. Listed(k)' = Listed(k)
  BY ListedFrame
<1> QED BY <1>1 DEF Follows

LEMMA DebtsFrame ==
  ASSUME NEW u \in Updates, NEW k,
         step'[u] = step[u] /\ row'[u] = row[u] /\ patch'[u] = patch[u]
  PROVE  OwesDrop(u, k) <=> OwesDrop(u, k)'
  BY DEF OwesDrop, Touched, NewKey, Key, Merged

\* A list that is stored late is marked stale.
LEMMA FollowsFill ==
  ASSUME PolicyTypeOK, NEW c \in ToolCalls, Fill(c), NEW k \in Keys, Follows(k)
  PROVE  Follows(k)'
<1>0. StoreOK /\ CallsOK /\ rules' = rules /\ UNCHANGED updVars
  BY TypeParts DEF Fill
<1>1. \A u \in Updates : OwesDrop(u, k) => OwesDrop(u, k)'
  BY <1>0, DebtsFrame DEF updVars, locals
<1>2. Listed(k)' = Listed(k)
  BY <1>0, ListedFrame
<1>3. CASE UNCHANGED <<cached, stale>>
  BY <1>0, <1>1, <1>3, FollowsFrame
<1>4. CASE /\ cached' = [cached EXCEPT ![CallKey(c)] = {list[c]}]
           /\ stale' = [stale EXCEPT ![CallKey(c)] = list[c] # Listed(CallKey(c))]
  <2>1. CASE k = CallKey(c)
    <3>1. cached'[k] = {list[c]} /\ stale'[k] = (list[c] # Listed(k))
      BY <1>0, <1>4, <2>1 DEF StoreOK
    <3> QED BY <1>2, <3>1 DEF Follows
  <2>2. CASE k # CallKey(c)
    <3>1. cached'[k] = cached[k] /\ stale'[k] = stale[k]
      BY <1>0, <1>4, <2>2 DEF StoreOK
    <3> QED BY <1>1, <1>2, <3>1 DEF Follows
  <2> QED BY <2>1, <2>2
<1> QED BY <1>3, <1>4 DEF Fill

\* The write makes the update owe the deletions.
LEMMA FollowsWrite ==
  ASSUME PolicyTypeOK, Current, ~overlapped, NEW u \in Updates, WriteRow(u),
         NEW k \in Keys, Follows(k)
  PROVE  Follows(k)'
<1>0. UpdatesOK /\ StoreOK /\ step[u] = "write" /\ UNCHANGED <<cached, stale>>
  BY TypeParts DEF WriteRow
<1>1. ASSUME NEW v \in Updates, OwesDrop(v, k) PROVE OwesDrop(v, k)'
  <2>1. v # u
    BY <1>0, <1>1 DEF OwesDrop
  <2>2. step'[v] = step[v] /\ row'[v] = row[v] /\ patch'[v] = patch[v]
    BY <1>0, <2>1, UpdateFrame DEF Updating
  <2> QED BY <1>1, <2>2, DebtsFrame
<1>2. CASE rules' = rules
  BY <1>0, <1>1, <1>2, FollowsFrame
<1>3. CASE /\ rules' = [rules EXCEPT ![rule[u]] = Merged(row[u], patch[u])]
           /\ Advance(u, "log") /\ UNCHANGED locals
  <2>1. step'[u] = "log" /\ row'[u] = row[u] /\ patch'[u] = patch[u]
    BY <1>0, <1>3 DEF Advance, UpdatesOK, locals
  <2>2. row[u] = rules[rule[u]]
    BY <1>0 DEF Current
  <2>3. CASE k \in Touched(u)
    <3>1. OwesDrop(u, k)'
      BY <2>1, <2>3 DEF OwesDrop, Touched, NewKey, Key, Merged
    <3> QED BY <3>1 DEF Follows
  <2>4. CASE k \notin Touched(u)
    <3>1. \A r \in Rules : rules'[r] = rules[r] \/ k \notin {Key(rules[r]), Key(rules'[r])}
      BY <1>0, <1>3, <2>2, <2>4 DEF StoreOK, UpdatesOK, Touched, NewKey
    <3>2. Listed(k)' = Listed(k)
      BY <3>1, ListedFrame
    <3> QED BY <1>0, <1>1, <3>2 DEF Follows
  <2> QED BY <2>3, <2>4
<1> QED BY <1>2, <1>3 DEF WriteRow

\* A list whose deletion is no longer owed was deleted or is marked stale.
LEMMA FollowsSettling ==
  ASSUME PolicyTypeOK, NEW u \in Updates, Reject(u) \/ LogChange(u) \/ DropOld(u) \/ DropMoved(u),
         NEW k \in Keys, Follows(k)
  PROVE  Follows(k)'
<1>0. UpdatesOK /\ StoreOK /\ rules' = rules
  BY TypeParts DEF Reject, LogChange, DropOld, DropMoved, store
<1>1. \A v \in Updates \ {u} : OwesDrop(v, k) => OwesDrop(v, k)'
  <2> TAKE v \in Updates \ {u}
  <2>1. step'[v] = step[v] /\ row'[v] = row[v] /\ patch'[v] = patch[v]
    BY <1>0, UpdateFrame DEF Updating
  <2> QED BY <2>1, DebtsFrame
<1>2. Listed(k)' = Listed(k)
  BY <1>0, ListedFrame
<1>3. /\ cached'[k] \in {{}, cached[k]}
      /\ cached'[k] = {} \/ (stale[k] => stale'[k])
  BY <1>0 DEF Reject, LogChange, DropOld, DropMoved, Break, Drop, store, StoreOK
<1>4. OwesDrop(u, k) => OwesDrop(u, k)' \/ cached'[k] = {} \/ stale'[k]
  <2>1. CASE Reject(u)
    BY <2>1 DEF Reject, OwesDrop
  <2>2. CASE Break(u)
    BY <2>2 DEF Break, OwesDrop, Touched
  <2>3. CASE LogChange(u) /\ ~Break(u)
    <3>1. /\ step[u] = "log" /\ step'[u] = "drop"
          /\ row'[u] = row[u] /\ patch'[u] = patch[u]
      BY <1>0, <2>3 DEF LogChange, Advance, UpdatesOK, locals
    <3> QED BY <3>1 DEF OwesDrop, Touched, NewKey, Key, Merged
  <2>4. CASE DropOld(u) /\ ~Break(u)
    <3>1. CASE k = Key(row[u])
      BY <1>0, <2>4, <3>1 DEF DropOld, Drop, StoreOK
    <3>2. CASE k # Key(row[u]) /\ k \in Touched(u)
      <4>1. k = NewKey(u)
        BY <3>2 DEF Touched
      <4>2. step'[u] = "dropMoved" /\ row'[u] = row[u] /\ patch'[u] = patch[u]
        BY <1>0, <2>4, <3>2, <4>1 DEF DropOld, Advance, UpdatesOK, locals
      <4> QED BY <4>1, <4>2 DEF OwesDrop, NewKey, Key, Merged
    <3>3. CASE k \notin Touched(u)
      BY <2>4, <3>3 DEF DropOld, OwesDrop
    <3> QED BY <3>1, <3>2, <3>3
  <2>5. CASE DropMoved(u) /\ ~Break(u)
    BY <1>0, <2>5 DEF DropMoved, Drop, StoreOK, OwesDrop
  <2> QED BY <2>1, <2>2, <2>3, <2>4, <2>5
<1> QED BY <1>1, <1>2, <1>3, <1>4 DEF Follows

LEMMA FollowsStart ==
  ASSUME PolicyTypeOK, NEW u \in Updates, Start(u), NEW k \in Keys, Follows(k)
  PROVE  Follows(k)'
<1>0. UpdatesOK /\ UNCHANGED <<rules, cached, stale>> /\ step[u] = "idle"
  BY TypeParts DEF Start, store
<1>1. ASSUME NEW v \in Updates, OwesDrop(v, k) PROVE OwesDrop(v, k)'
  <2>1. v # u
    BY <1>0, <1>1 DEF OwesDrop
  <2>2. step'[v] = step[v] /\ row'[v] = row[v] /\ patch'[v] = patch[v]
    BY <1>0, <2>1, UpdateFrame
  <2> QED BY <1>1, <2>2, DebtsFrame
<1> QED BY <1>0, <1>1, FollowsFrame

\* A cached list differs from the rules only while its deletion is owed or when
\* it is marked stale, for any number of updates and evaluations that do not
\* overlap on a rule (policy_store.update_rule, get_active_rules).
THEOREM CacheFollowsStoreCorrect == PolicySpec => []CacheFollowsStore
<1>1. PolicyInit => CacheFollowsStore
  BY DEF PolicyInit, CacheFollowsStore
<1>2. ASSUME PolicyTypeOK, Current, CacheFollowsStore, [PolicyNext]_policyVars
      PROVE  CacheFollowsStore'
  <2>1. overlapped => overlapped'
    <3>1. ASSUME NEW u \in Updates, Start(u) PROVE overlapped => overlapped'
      BY <3>1 DEF Start, ReadRow
    <3>2. ASSUME NEW u \in Updates, Updating(u) PROVE UNCHANGED overlapped
      BY <3>2 DEF Updating, Reject, WriteRow, LogChange, DropOld, DropMoved
    <3>3. ASSUME NEW c \in ToolCalls, CallStep(c) PROVE UNCHANGED overlapped
      BY <3>3
      DEF CallStep, Evaluating, Propose, Confirm, Lookup, Load, Fill, Visit, Decide, updVars
    <3>4. ASSUME NEW j \in Keys, Expire(j) PROVE UNCHANGED overlapped
      BY <3>4 DEF Expire, updVars
    <3>5. CASE UNCHANGED policyVars
      BY <3>5 DEF policyVars, updVars
    <3> QED BY <1>2, <3>1, <3>2, <3>3, <3>4, <3>5 DEF PolicyNext, CallStep
  <2> SUFFICES ASSUME ~overlapped, NEW k \in Keys PROVE Follows(k)'
    BY <2>1 DEF CacheFollowsStore, Follows
  <2>2. Follows(k)
    BY <1>2 DEF CacheFollowsStore, Follows
  <2>3. ASSUME UNCHANGED <<rules, updVars>>,
               cached'[k] = {} \/ UNCHANGED <<cached, stale>>
        PROVE  Follows(k)'
    <3>1. \A u \in Updates : OwesDrop(u, k) => OwesDrop(u, k)'
      BY <2>3, DebtsFrame DEF updVars, locals
    <3> QED BY <2>2, <2>3, <3>1, FollowsFrame
  <2>4. ASSUME NEW c \in ToolCalls, CallStep(c) PROVE Follows(k)'
    <3>1. CASE Fill(c)
      BY <1>2, <2>2, <3>1, FollowsFill
    <3>2. CASE Propose(c) \/ Confirm(c) \/ Load(c) \/ Visit(c) \/ Decide(c)
      BY <2>3, <3>2 DEF Propose, Confirm, Lookup, Load, Visit, Decide, store
    <3> QED BY <2>4, <3>1, <3>2 DEF CallStep, Evaluating
  <2>5. ASSUME NEW u \in Updates, Start(u) \/ Updating(u) PROVE Follows(k)'
    BY <1>2, <2>2, <2>5, FollowsStart, FollowsWrite, FollowsSettling DEF Updating
  <2>6. ASSUME NEW j \in Keys, Expire(j) PROVE Follows(k)'
    <3>0. StoreOK /\ UNCHANGED <<rules, updVars>>
      BY <1>2, <2>6, TypeParts DEF Expire
    <3>1. CASE j = k
      BY <2>3, <2>6, <3>0, <3>1 DEF Expire, Drop, StoreOK
    <3>2. CASE j # k
      <4>1. cached'[k] = cached[k] /\ stale'[k] = stale[k]
        BY <2>6, <3>0, <3>2 DEF Expire, Drop, StoreOK
      <4>2. \A u \in Updates : OwesDrop(u, k) => OwesDrop(u, k)'
        BY <3>0, DebtsFrame DEF updVars, locals
      <4>3. Listed(k)' = Listed(k)
        BY <3>0, ListedFrame
      <4> QED BY <2>2, <4>1, <4>2, <4>3 DEF Follows
    <3> QED BY <3>1, <3>2
  <2>7. CASE UNCHANGED policyVars
    BY <2>3, <2>7 DEF policyVars, store
  <2> QED BY <1>2, <2>4, <2>5, <2>6, <2>7 DEF PolicyNext, CallStep
<1> QED BY <1>1, <1>2, PolicyTypeCorrect, CurrentAlways, PTL DEF PolicySpec

=============================================================================
