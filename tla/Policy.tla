------------------------------- MODULE Policy -------------------------------
(***************************************************************************)
(* PolicyEngine and PolicyStore: the rules in Postgres, the list of active *)
(* rules per capability and tool that Redis caches, the evaluations of     *)
(* tool calls that read them, and the updates by which admins change them. *)
(* One action is one access to Redis or Postgres; nothing locks the rules  *)
(* and no transaction spans the statements of an update.                   *)
(*                                                                         *)
(* A rule's conditions_json does not survive the store.  asyncpg, without  *)
(* a codec, hands a jsonb column over as its text, and list(...) of a text *)
(* is the list of its characters: not empty even for '[]', and without the *)
(* .get that the evaluation calls on each element.  So whatever conditions *)
(* a row holds, and whatever an update writes there, the rule that is read *)
(* has "characters", and an evaluation that comes to it raises.  The count *)
(* of an hourly_limit is never reached and not modelled.                   *)
(***************************************************************************)
EXTENDS Integers, FiniteSets

CONSTANTS ToolCalls,     \* calls of a tool through the harness, by one user
          Updates,       \* calls of update_rule
          ConfirmRules,  \* seeded: REQUIRE_CONFIRMATION for every booking
          HourlyRules,   \* seeded: DENY bookings beyond an hourly limit
          PoolSize,      \* 10: connections to Postgres
          MaxPatched,    \* bound: fields one update changes
          MaxStarted,    \* bound: calls and updates started
          Keep           \* a field that new_value does not name

Capabilities == {"facility_booking", "none"}
Tools == {"create_booking", "get_facility_list"}
Conditions == {"none", "characters"}  \* [], and what is read from Postgres
Actions == {"DENY", "REQUIRE_CONFIRMATION", "ALLOW"}
Rules == ConfirmRules \cup HourlyRules

ASSUME RulesAssumption == ConfirmRules \cap HourlyRules = {} /\ ConfirmRules # {}
ASSUME CallsAssumption == IsFiniteSet(ToolCalls)
ASSUME KeepAssumption ==
  Keep \notin Capabilities /\ Keep \notin Tools /\ Keep \notin Actions /\ Keep \notin BOOLEAN

\* A row without the fields that decide nothing: conditions_json, risk_level,
\* reason and version.  An update that names none but those patches nothing.
Rows == [capability : Capabilities, tool : Tools, action : Actions, active : BOOLEAN]
Patches == [capability : Capabilities \cup {Keep}, tool : Tools \cup {Keep},
            action : Actions \cup {Keep}, active : BOOLEAN \cup {Keep}]

\* What a list of rules is selected, and cached, by.
Keys == Capabilities \X Tools
Key(old) == <<old.capability, old.tool>>
BookingKey == <<"facility_booking", "create_booking">>

\* A rule as the evaluation finds it.
Entries == [id : Rules, cond : Conditions, action : Actions]

VARIABLES
  rules,       \* table policy_rules
  cached,      \* Redis: policy:{capability}:{tool}, {} or {a list}
  stage,       \* where each tool call stands
  tool,        \* the tool it calls
  list,        \* the rules its evaluation uses
  todo,        \* those it has still to look at
  found,       \* matched_confirmation is set
  confirmed,   \* pre_confirmed
  step,        \* where each update stands
  rule,        \* the rule it changes
  patch,       \* new_value
  approved,    \* a second super_admin approves
  row,         \* current: the row it read
  overlapped,  \* history: an update read a row another was about to write
  doubtful,    \* history: an update was started that may end the confirmation
               \* of bookings
  stale        \* history: the cached list may be outdated for good, having been
               \* stored late or left by an update that failed half-way

store == <<rules, cached, stale>>
callVars == <<stage, tool, list, todo, found, confirmed>>
locals == <<rule, patch, approved, row>>
updVars == <<step, locals, overlapped, doubtful>>
policyVars == <<store, callVars, updVars>>

Stages == {"idle", "load", "fill", "loop", "asked", "made", "denied",
           "raised"}
Ended == {"done", "refused", "failed", "broken"}
Steps == {"idle", "rejectRole", "rejectCritical", "write", "log", "drop",
          "dropMoved"} \cup Ended

PolicyTypeOK ==
  /\ rules \in [Rules -> Rows]
  /\ cached \in [Keys -> SUBSET SUBSET Entries]
  /\ stage \in [ToolCalls -> Stages]
  /\ tool \in [ToolCalls -> Tools]
  /\ list \in [ToolCalls -> SUBSET Entries]
  /\ todo \in [ToolCalls -> SUBSET Entries]
  /\ found \in [ToolCalls -> BOOLEAN]
  /\ confirmed \in [ToolCalls -> BOOLEAN]
  /\ step \in [Updates -> Steps]
  /\ rule \in [Updates -> Rules]
  /\ patch \in [Updates -> Patches]
  /\ approved \in [Updates -> BOOLEAN]
  /\ row \in [Updates -> Rows]
  /\ overlapped \in BOOLEAN
  /\ doubtful \in BOOLEAN
  /\ stale \in [Keys -> BOOLEAN]

-----------------------------------------------------------------------------
ConfirmRow == [capability |-> "facility_booking", tool |-> "create_booking",
               action |-> "REQUIRE_CONFIRMATION", active |-> TRUE]
HourlyRow == [ConfirmRow EXCEPT !.action = "DENY"]
AnyRule == CHOOSE r \in Rules : TRUE
NoPatch == [capability |-> Keep, tool |-> Keep, action |-> Keep, active |-> Keep]

PolicyInit ==
  /\ rules = [r \in Rules |-> IF r \in ConfirmRules THEN ConfirmRow ELSE HourlyRow]
  /\ cached = [k \in Keys |-> {}]
  /\ stage = [c \in ToolCalls |-> "idle"]
  /\ tool = [c \in ToolCalls |-> "create_booking"]
  /\ list = [c \in ToolCalls |-> {}]
  /\ todo = [c \in ToolCalls |-> {}]
  /\ found = [c \in ToolCalls |-> FALSE]
  /\ confirmed = [c \in ToolCalls |-> FALSE]
  /\ step = [u \in Updates |-> "idle"]
  /\ rule = [u \in Updates |-> AnyRule]
  /\ patch = [u \in Updates |-> NoPatch]
  /\ approved = [u \in Updates |-> FALSE]
  /\ row = [u \in Updates |-> ConfirmRow]
  /\ overlapped = FALSE
  /\ doubtful = FALSE
  /\ stale = [k \in Keys |-> FALSE]

-----------------------------------------------------------------------------
(* Evaluating a call: PolicyEngine.evaluate and get_active_rules. *)

\* A PolicyRuleRecord: list(row["conditions_json"]) makes characters.
Entry(r) == [id |-> r, cond |-> "characters", action |-> rules[r].action]

\* The active rules of a list, as Postgres has them now.
Listed(k) == {Entry(r) : r \in {q \in Rules : rules[q].active /\ Key(rules[q]) = k}}

\* Mutant: no rules when none could be loaded.
DefaultsNone(k) == {}

\* _default_rules: used whenever the rules could not be loaded.
Defaults(k) ==
  IF k = BookingKey
  THEN {[id |-> r, cond |-> "none", action |-> "REQUIRE_CONFIRMATION"]
        : r \in ConfirmRules}
  ELSE {}

\* The harness refuses tools outside the capability of their domain, so every
\* call that is evaluated runs under facility_booking.
CallKey(c) == <<"facility_booking", tool[c]>>

\* Connections that updates hold: the rejection of a critical change is
\* logged over a second connection while the first is still held.
Held == Cardinality({u \in Updates : step[u] \in {"rejectCritical", "write", "log"}})
FreeConnection == Held < PoolSize

Goto(c, s) == stage' = [stage EXCEPT ![c] = s]

Started == Cardinality({c \in ToolCalls : stage[c] # "idle"})
           + Cardinality({u \in Updates : step[u] # "idle"})

\* The loop over the rules starts.
Enter(c, l) ==
  /\ Goto(c, "loop")
  /\ list' = [list EXCEPT ![c] = l]
  /\ todo' = [todo EXCEPT ![c] = l]
  /\ found' = [found EXCEPT ![c] = FALSE]

\* get_active_rules reads the cache.
Lookup(c, k) ==
  /\ \/ \E l \in cached[k] : Enter(c, l)
     \/ cached[k] = {} /\ Goto(c, "load") /\ UNCHANGED <<list, todo, found>>
     \/ Enter(c, Defaults(k))  \* Redis fails
  /\ UNCHANGED <<store, updVars>>

Propose(c) ==
  /\ stage[c] = "idle"
  /\ Started < MaxStarted
  /\ \E t \in Tools : tool' = [tool EXCEPT ![c] = t] /\ Lookup(c, <<"facility_booking", t>>)
  /\ UNCHANGED confirmed

\* The user says yes: the same call again, pre_confirmed.
Confirm(c) ==
  /\ stage[c] = "asked"
  /\ confirmed' = [confirmed EXCEPT ![c] = TRUE]
  /\ Lookup(c, CallKey(c))
  /\ UNCHANGED tool

Load(c) ==
  /\ stage[c] = "load"
  /\ FreeConnection
  /\ \/ Goto(c, "fill") /\ list' = [list EXCEPT ![c] = Listed(CallKey(c))]
        /\ UNCHANGED <<todo, found>>
     \/ Enter(c, Defaults(CallKey(c)))  \* Postgres fails
  /\ UNCHANGED <<store, updVars, tool, confirmed>>

\* When storing the list fails the list is dropped for the default rules.
Fill(c) ==
  /\ stage[c] = "fill"
  /\ \/ Enter(c, list[c]) \/ Enter(c, Defaults(CallKey(c)))
  /\ \/ /\ cached' = [cached EXCEPT ![CallKey(c)] = {list[c]}]
        /\ stale' = [stale EXCEPT ![CallKey(c)] = list[c] # Listed(CallKey(c))]
     \/ list'[c] = Defaults(CallKey(c)) /\ UNCHANGED <<cached, stale>>
  /\ UNCHANGED <<rules, updVars, tool, confirmed>>

\* The rule matches.  A DENY only would if its conditions could be read.
Match(c, e) ==
  IF e.action = "DENY"
  THEN Goto(c, "denied") /\ todo' = [todo EXCEPT ![c] = {}] /\ UNCHANGED found
  ELSE /\ todo' = [todo EXCEPT ![c] = @ \ {e}]
       /\ found' = [found EXCEPT ![c] = @ \/ e.action = "REQUIRE_CONFIRMATION"]
       /\ UNCHANGED stage

\* Mutant: a condition that cannot be read does not match.
MatchesSkipping(c, e) ==
  IF e.cond = "none" THEN Match(c, e)
  ELSE todo' = [todo EXCEPT ![c] = @ \ {e}] /\ UNCHANGED <<stage, found>>

\* No condition always matches.  A character is no condition: condition.get
\* raises, nothing catches it before the pipeline's outer handler, and the
\* call is neither asked about nor made.
Matches(c, e) ==
  IF e.cond = "none" THEN Match(c, e)
  ELSE Goto(c, "raised") /\ todo' = [todo EXCEPT ![c] = {}] /\ UNCHANGED found

\* The next rule of the loop; the order of the list decides nothing.
Visit(c) ==
  /\ stage[c] = "loop"
  /\ \E e \in todo[c] : Matches(c, e)
  /\ UNCHANGED <<store, updVars, tool, list, confirmed>>

\* What the harness does with the verdict.
Decide(c) ==
  /\ stage[c] = "loop"
  /\ todo[c] = {}
  /\ Goto(c, IF found[c] /\ ~confirmed[c] THEN "asked" ELSE "made")
  /\ UNCHANGED <<store, updVars, tool, list, todo, found, confirmed>>

-----------------------------------------------------------------------------
(* PolicyStore.update_rule *)

\* Mutant: a field that is not named becomes null.
DefaultNull(new, old) == new

\* new_value.get(field, current.field)
Default(new, old) == IF new = Keep THEN old ELSE new

Merged(old, p) ==
  [capability |-> Default(p.capability, old.capability), tool |-> Default(p.tool, old.tool),
   action |-> Default(p.action, old.action), active |-> Default(p.active, old.active)]

\* Mutant: switching a rule off is not critical.
IsCriticalAction(old, new) ==
  \/ "create_booking" \in {old.tool, new.tool} /\ old.action # new.action
  \/ old.action # "ALLOW" /\ old.action # new.action

\* _is_critical_change
IsCritical(old, new) ==
  \/ /\ "create_booking" \in {old.tool, new.tool}
     /\ old.action # new.action \/ old.active # new.active
  \/ old.action # "ALLOW" /\ old.action # new.action

Advance(u, s) == step' = [step EXCEPT ![u] = s]

\* The update ends, its locals with it.
End(u, s) ==
  /\ Advance(u, s)
  /\ rule' = [rule EXCEPT ![u] = AnyRule]
  /\ patch' = [patch EXCEPT ![u] = NoPatch]
  /\ approved' = [approved EXCEPT ![u] = FALSE]
  /\ row' = [row EXCEPT ![u] = ConfirmRow]

Patched(p) == Cardinality({f \in DOMAIN p : p[f] # Keep})

\* The row is read, or reading it fails: the connection is held from here to
\* the end of the statements.
ReadRow(u, r, p, ok) ==
  LET old == rules[r] IN
  /\ rule' = [rule EXCEPT ![u] = r]
  /\ patch' = [patch EXCEPT ![u] = p]
  /\ approved' = [approved EXCEPT ![u] = ok]
  /\ row' = [row EXCEPT ![u] = old]
  /\ Advance(u, IF IsCritical(old, Merged(old, p)) /\ ~ok THEN "rejectCritical" ELSE "write")
  /\ doubtful' = (doubtful \/ /\ r \in ConfirmRules
                              /\ ok \/ p.tool # Keep \/ p.capability # Keep)
  /\ overlapped' = (overlapped \/ \E v \in Updates : step[v] = "write" /\ rule[v] = r)

\* An admin, or a user whose role is not enough.
Start(u) ==
  /\ step[u] = "idle"
  /\ Started < MaxStarted
  /\ \/ /\ FreeConnection
        /\ \E r \in Rules, p \in Patches, ok \in BOOLEAN :
             /\ Patched(p) <= MaxPatched
             /\ ReadRow(u, r, p, ok)
     \/ Advance(u, "rejectRole") /\ UNCHANGED <<locals, overlapped, doubtful>>
     \/ Advance(u, "failed") /\ UNCHANGED <<locals, overlapped, doubtful>>
  /\ UNCHANGED <<store, callVars>>

\* _record_rejected_attempt swallows the failure of its INSERT.
Reject(u) ==
  /\ step[u] \in {"rejectRole", "rejectCritical"}
  /\ FreeConnection
  /\ End(u, "refused")
  /\ UNCHANGED <<store, callVars, overlapped, doubtful>>

WriteRow(u) ==
  /\ step[u] = "write"
  /\ \/ /\ rules' = [rules EXCEPT ![rule[u]] = Merged(row[u], patch[u])]
        /\ Advance(u, "log") /\ UNCHANGED locals
     \/ End(u, "failed") /\ UNCHANGED rules
  /\ UNCHANGED <<cached, stale, callVars, overlapped, doubtful>>

\* Where the rule of an update is to be found afterwards.
NewKey(u) == Key(Merged(row[u], patch[u]))

\* The lists that an update may have changed.
Touched(u) == {Key(row[u]), NewKey(u)}

\* An access fails after the row was changed: it stays changed, and the
\* cached lists stay as they are.
Break(u) ==
  /\ End(u, "broken")
  /\ stale' = [k \in Keys |-> stale[k] \/ k \in Touched(u)]
  /\ UNCHANGED cached

Drop(k) ==
  /\ cached' = [cached EXCEPT ![k] = {}]
  /\ stale' = [stale EXCEPT ![k] = FALSE]

\* The INSERT fails on an actor id that is no UUID, for one.
LogChange(u) ==
  /\ step[u] = "log"
  /\ \/ Advance(u, "drop") /\ UNCHANGED <<cached, stale, locals>>
     \/ Break(u)
  /\ UNCHANGED <<rules, callVars, overlapped, doubtful>>

DropOld(u) ==
  /\ step[u] = "drop"
  /\ \/ /\ Drop(Key(row[u]))
        /\ IF NewKey(u) # Key(row[u])
           THEN Advance(u, "dropMoved") /\ UNCHANGED locals
           ELSE End(u, "done")
     \/ Break(u)
  /\ UNCHANGED <<rules, callVars, overlapped, doubtful>>

\* Mutant: the list the rule left is deleted again.
DropMovedOld(u) ==
  /\ step[u] = "dropMoved"
  /\ \/ Drop(Key(row[u])) /\ End(u, "done")
     \/ Break(u)
  /\ UNCHANGED <<rules, callVars, overlapped, doubtful>>

\* The rule moved to another capability or tool.
DropMoved(u) ==
  /\ step[u] = "dropMoved"
  /\ \/ Drop(NewKey(u)) /\ End(u, "done")
     \/ Break(u)
  /\ UNCHANGED <<rules, callVars, overlapped, doubtful>>

-----------------------------------------------------------------------------
\* POLICY_CACHE_TTL passes.
Expire(k) ==
  /\ cached[k] # {}
  /\ Drop(k)
  /\ UNCHANGED <<rules, callVars, updVars>>

Evaluating(c) == Load(c) \/ Fill(c) \/ Visit(c) \/ Decide(c)
Updating(u) ==
  Reject(u) \/ WriteRow(u) \/ LogChange(u) \/ DropOld(u) \/ DropMoved(u)

PolicyNext ==
  \/ \E c \in ToolCalls : Propose(c) \/ Evaluating(c) \/ Confirm(c)
  \/ \E u \in Updates : Start(u) \/ Updating(u)
  \/ \E k \in Keys : Expire(k)

PolicySpec == PolicyInit /\ [][PolicyNext]_policyVars

-----------------------------------------------------------------------------
(* Properties *)

\* The verdict is the strictest of the rules the evaluation used: no call is
\* made past a rule whose conditions could not be read, past a DENY, or
\* unconfirmed past a REQUIRE_CONFIRMATION, and none is asked about without a
\* rule that says so (policy_engine.evaluate).
NoRuleOverlooked ==
  \A c \in ToolCalls :
    /\ stage[c] = "made" =>
         \A e \in list[c] :
           /\ e.cond = "none"
           /\ \/ e.action = "ALLOW"
              \/ e.action = "REQUIRE_CONFIRMATION" /\ confirmed[c]
    /\ stage[c] = "asked" => \E e \in list[c] : e.action = "REQUIRE_CONFIRMATION"

\* As long as no update of a confirmation rule was started that has a second
\* approval or moves the rule to another capability or tool, which needs none,
\* every booking that is made was confirmed: by the cached list, by the rules,
\* and by the default rules when neither can be read (policy_store.update_rule,
\* policy_engine.evaluate).
BookingsStayConfirmed ==
  ~doubtful =>
    \A c \in ToolCalls :
      stage[c] = "made" /\ tool[c] = "create_booking" => confirmed[c]

\* "Bookings always require explicit user confirmation." (the reason of the
\* rule that 0005_policy_rules.py seeds): a booking the user has not confirmed
\* is asked about or denied.  But no rule read from Postgres can be evaluated.
BookingsAreAsked ==
  \A c \in ToolCalls :
    tool[c] = "create_booking" /\ ~confirmed[c] => stage[c] \notin {"made", "raised"}

\* An update that changed a rule of the list k will still delete it.
OwesDrop(u, k) ==
  \/ step[u] \in {"log", "drop"} /\ k \in Touched(u)
  \/ step[u] = "dropMoved" /\ k = NewKey(u)

\* A cached list differs from the rules only while an update owes its deletion,
\* or when a reader stored it that had loaded it before an update, or when an
\* update failed half-way: updates of one rule that do not overlap leave no
\* other outdated list, wherever they move it (policy_store.update_rule,
\* get_active_rules).
CacheFollowsStore ==
  ~overlapped =>
    \A k \in Keys :
      cached[k] \subseteq {Listed(k)} \/ stale[k] \/ \E u \in Updates : OwesDrop(u, k)

\* What the error message and the tests call a critical change: a rule of a
\* booking tool changes its action or is switched, or any rule that denies or
\* asks changes its action.
Critical(old, new) ==
  \/ "create_booking" \in {old.tool, new.tool}
     /\ <<old.action, old.active>> # <<new.action, new.active>>
  \/ old.action \in {"DENY", "REQUIRE_CONFIRMATION"} /\ old.action # new.action

\* A step that changes the row of r critically belongs to an approved update.
ApprovedChange(r) ==
  Critical(rules[r], rules'[r]) =>
    \E u \in Updates :
      step[u] = "write" /\ step'[u] # "write" /\ rule[u] = r /\ approved[u]

\* Critical changes require a second approval, unless updates of one rule
\* overlapped (policy_store.update_rule).
CriticalChangesApproved ==
  [][~overlapped => \A r \in Rules : ApprovedChange(r)]_policyVars

\* The same without the exception: "Critical policy changes require a second
\* super_admin approval" (policy_store.py).  An update that read its row before
\* an approved critical change writes all fields of that row back.
EveryCriticalChangeApproved == [][\A r \in Rules : ApprovedChange(r)]_policyVars

=============================================================================
