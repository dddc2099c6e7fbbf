---------------------------- MODULE MemoryProofs ----------------------------
(***************************************************************************)
(* Theorems about what is remembered: the preferences, for any number of   *)
(* upserts and readings, and the planner's memory, for any limits.         *)
(***************************************************************************)
EXTENDS Preferences, Planner, TLAPS

WritingOK ==
  /\ saved \in Nat /\ settled \in Nat
  /\ saving \in [Upserts -> {"idle", "insert", "delete", "done", "swallowed"}]

ReadingOK ==
  /\ reading \in [Readings -> {"idle", "get", "fetch", "set", "done"}]
  /\ loaded \in [Readings -> SUBSET Nat]
  /\ floor \in [Readings -> Nat]

\* What a reading has loaded is one state of the table, or nothing.
Single(S) == S \subseteq Nat /\ \A v, w \in S : v = w

PrefOK ==
  /\ WritingOK /\ ReadingOK /\ hidden \in BOOLEAN
  /\ Single(entry)
  /\ \A g \in Readings : Single(loaded[g])

-----------------------------------------------------------------------------
(* Types *)

LEMMA WriterType ==
  ASSUME PrefOK, NEW w \in Upserts, UpsertStarts(w) \/ Insert(w) \/ DeleteEntry(w)
  PROVE  PrefOK'
<1>1. WritingOK'
  BY DEF PrefOK, WritingOK, UpsertStarts, Insert, DeleteEntry, Saving
<1>2. UNCHANGED readingVars /\ entry' \in {entry, {}} /\ hidden' \in BOOLEAN
  BY DEF PrefOK, UpsertStarts, Insert, DeleteEntry
<1> QED BY <1>1, <1>2 DEF PrefOK, ReadingOK, readingVars, Single

LEMMA ReaderType ==
  ASSUME PrefOK, NEW g \in Readings, ReadingStarts(g) \/ Get(g) \/ Fetch(g) \/ SetEntry(g)
  PROVE  PrefOK'
<1>0. UNCHANGED writing /\ WritingOK /\ ReadingOK
  BY DEF PrefOK, ReadingStarts, Get, Fetch, SetEntry
<1>1. WritingOK'
  BY <1>0 DEF WritingOK, writing
<1>2. Single({}) /\ Single({saved}) /\ Single(entry) /\ Single(loaded[g])
  BY <1>0 DEF PrefOK, Single, WritingOK
<1>3. ASSUME NEW S, Single(S), NEW s \in {"set", "done"}, Reading(g, s),
             loaded' = [loaded EXCEPT ![g] = S], floor' = floor
      PROVE  ReadingOK' /\ \A h \in Readings : Single(loaded'[h])
  <2>1. ReadingOK'
    BY <1>0, <1>3 DEF ReadingOK, Reading, Single
  <2>2. ASSUME NEW h \in Readings PROVE Single(loaded'[h])
    <3>1. loaded'[h] \in {S, loaded[h]}
      BY <1>0, <1>3 DEF ReadingOK
    <3> QED BY <1>3, <3>1 DEF PrefOK
  <2> QED BY <2>1, <2>2
<1>4. CASE ReadingStarts(g)
  <2>1. ReadingOK'
    BY <1>0, <1>4 DEF ReadingStarts, ReadingOK, WritingOK, Reading
  <2> QED BY <1>1, <1>4, <2>1 DEF ReadingStarts, PrefOK
<1>5. CASE Get(g)
  <2>1. entry' = entry /\ hidden' = hidden
    BY <1>5 DEF Get
  <2>2. CASE Return(g, entry) \/ Return(g, {})
    BY <1>1, <1>2, <1>3, <1>5, <2>1, <2>2 DEF Get, Return, PrefOK
  <2>3. CASE Reading(g, "fetch") /\ UNCHANGED loaded
    <3>1. ReadingOK'
      BY <1>0, <1>5, <2>3 DEF Get, ReadingOK, Reading
    <3> QED BY <1>1, <2>1, <2>3, <3>1 DEF PrefOK
  <2> QED BY <1>5, <2>2, <2>3 DEF Get
<1>6. CASE Fetch(g)
  <2>1. entry' = entry /\ hidden' = hidden /\ floor' = floor
    BY <1>6 DEF Fetch
  <2> QED BY <1>1, <1>2, <1>3, <1>6, <2>1 DEF Fetch, Return, PrefOK
<1>7. CASE SetEntry(g)
  <2>1. floor' = floor /\ Single(entry') /\ hidden' \in BOOLEAN
    BY <1>2, <1>7 DEF SetEntry, PrefOK
  <2> QED BY <1>1, <1>2, <1>3, <1>7, <2>1 DEF SetEntry, Return, PrefOK
<1> QED BY <1>4, <1>5, <1>6, <1>7

LEMMA PrefOKAlways == PrefSpec => []PrefOK
<1>1. ASSUME PrefInit PROVE PrefOK
  <2>1. WritingOK /\ ReadingOK
    BY <1>1 DEF PrefInit, WritingOK, ReadingOK
  <2>2. entry = {} /\ hidden = FALSE /\ \A g \in Readings : loaded[g] = {}
    BY <1>1 DEF PrefInit
  <2> QED BY <2>1, <2>2 DEF PrefOK, Single
<1>2. ASSUME PrefOK, [PrefNext]_prefVars PROVE PrefOK'
  <2>1. CASE EntryExpires
    BY <1>2, <2>1
    DEF EntryExpires, PrefOK, WritingOK, ReadingOK, Single, writing, readingVars
  <2>2. CASE UNCHANGED prefVars
    BY <1>2, <2>2
    DEF prefVars, PrefOK, WritingOK, ReadingOK, Single, writing, readingVars
  <2> QED BY <1>2, <2>1, <2>2, WriterType, ReaderType DEF PrefNext
<1> QED BY <1>1, <1>2, PTL DEF PrefSpec

\* The preferences module keeps its types, and the entry holds at most one
\* state of the table (PreferencesManager).
THEOREM PrefTypeCorrect == PrefSpec => []PrefTypeOK
<1>1. PrefOK => PrefTypeOK
  BY DEF PrefOK, PrefTypeOK, WritingOK, ReadingOK, Single
<1> QED BY <1>1, PrefOKAlways, PTL

-----------------------------------------------------------------------------
(* Outdated readings *)

\* What was fetched, and an entry nobody hid, is no older than the last
\* deletion.
Fresh ==
  /\ settled <= saved
  /\ \A g \in Readings : floor[g] <= settled
  /\ ~hidden => \A v \in entry : v >= settled
  /\ \A g \in Readings : reading[g] = "set" => \A v \in loaded[g] : v >= floor[g]

LEMMA FreshWriter ==
  ASSUME PrefOK, Fresh, NEW w \in Upserts, UpsertStarts(w) \/ Insert(w) \/ DeleteEntry(w)
  PROVE  Fresh'
<1> USE DEF PrefOK, WritingOK, ReadingOK, Fresh, readingVars, Saving
<1>1. CASE UpsertStarts(w)
  BY <1>1 DEF UpsertStarts
<1>2. CASE Insert(w)
  BY <1>2 DEF Insert
<1>3. CASE DeleteEntry(w)
  <2>1. UNCHANGED <<saved, readingVars>> /\ settled' \in {settled, saved}
    BY <1>3 DEF DeleteEntry
  <2>2. ~hidden' => \A v \in entry' : v >= settled'
    BY <1>3 DEF DeleteEntry
  <2>3. settled' <= saved' /\ \A g \in Readings : floor'[g] <= settled'
    BY <2>1
  <2> QED BY <2>1, <2>2, <2>3
<1> QED BY <1>1, <1>2, <1>3

LEMMA FreshReader ==
  ASSUME PrefOK, Fresh, NEW g \in Readings, ReadingStarts(g) \/ Get(g) \/ Fetch(g) \/ SetEntry(g)
  PROVE  Fresh'
<1>0. UNCHANGED writing
  BY DEF ReadingStarts, Get, Fetch, SetEntry
<1>1. \A h \in Readings : floor'[h] <= settled'
  BY <1>0 DEF ReadingStarts, Get, Fetch, SetEntry, Fresh, PrefOK, ReadingOK, WritingOK, writing
<1>2. ~hidden' => \A v \in entry' : v >= settled'
  <2>1. CASE ReadingStarts(g) \/ Get(g) \/ Fetch(g)
    BY <1>0, <2>1 DEF ReadingStarts, Get, Fetch, Fresh, writing
  <2>2. CASE SetEntry(g)
    <3>1. /\ saved' = saved /\ settled' = settled
          /\ saved \in Nat /\ settled \in Nat /\ settled <= saved
      BY <1>0 DEF Fresh, writing, PrefOK, WritingOK
    <3>2. CASE UNCHANGED <<entry, hidden>>
      BY <3>1, <3>2 DEF Fresh
    <3>3. CASE entry' = loaded[g] /\ hidden' = (hidden \/ loaded[g] # {saved})
      <4>1. ~hidden' => entry' = {saved}
        BY <3>3
      <4> QED BY <3>1, <4>1
    <3> QED BY <2>2, <3>2, <3>3 DEF SetEntry
  <2> QED BY <2>1, <2>2
<1>3. ASSUME NEW h \in Readings, reading'[h] = "set" PROVE \A v \in loaded'[h] : v >= floor'[h]
  <2>1. CASE h # g
    <3>1. reading'[h] = reading[h] /\ loaded'[h] = loaded[h] /\ floor'[h] = floor[h]
      BY <2>1
      DEF ReadingStarts, Get, Fetch, SetEntry, Reading, Return, PrefOK, ReadingOK
    <3> QED BY <1>3, <3>1 DEF Fresh
  <2>2. CASE h = g
    <3>1. loaded'[g] = {saved} /\ floor'[g] = floor[g]
      BY <1>3, <2>2
      DEF ReadingStarts, Get, Fetch, SetEntry, Reading, Return, PrefOK, ReadingOK
    <3>2. saved \in Nat /\ settled \in Nat /\ floor[g] \in Nat
      BY DEF PrefOK, ReadingOK, WritingOK
    <3> QED BY <2>2, <3>1, <3>2 DEF Fresh
  <2> QED BY <2>1, <2>2
<1> QED BY <1>0, <1>1, <1>2, <1>3 DEF Fresh, writing

LEMMA FreshAlways == PrefSpec => []Fresh
<1>1. PrefInit => Fresh
  BY DEF PrefInit, Fresh
<1>2. ASSUME PrefOK, Fresh, [PrefNext]_prefVars PROVE Fresh'
  <2>1. CASE EntryExpires \/ UNCHANGED prefVars
    BY <1>2, <2>1 DEF EntryExpires, Fresh, writing, readingVars, prefVars
  <2> QED BY <1>2, <2>1, FreshWriter, FreshReader DEF PrefNext
<1> QED BY <1>1, <1>2, PrefOKAlways, PTL DEF PrefSpec

\* Unless the entry was stored late or its deletion failed, a reading returns
\* nothing older than the last deletion before it began, for any number of
\* upserts and readings (PreferencesManager.get_all).
THEOREM PreferencesNotOutdatedCorrect == PrefSpec => PreferencesNotOutdated
<1> DEFINE Outcome(g) ==
      reading[g] # "done" /\ reading'[g] = "done" /\ ~hidden =>
        \A v \in loaded'[g] : v >= floor[g]
<1>1. ASSUME PrefOK, Fresh, [PrefNext]_prefVars, NEW g \in Readings,
             reading[g] # "done", reading'[g] = "done", ~hidden
      PROVE  \A v \in loaded'[g] : v >= floor[g]
  <2>1. PICK h \in Readings : ReadingStarts(h) \/ Get(h) \/ Fetch(h) \/ SetEntry(h)
    BY <1>1
    DEF PrefNext, prefVars, readingVars, UpsertStarts, Insert, DeleteEntry, EntryExpires
  <2>2. h = g
    BY <1>1, <2>1
    DEF ReadingStarts, Get, Fetch, SetEntry, Reading, Return, PrefOK, ReadingOK
  <2>3. \/ loaded'[g] = {}
        \/ loaded'[g] = entry
        \/ reading[g] = "set" /\ loaded'[g] = loaded[g]
    BY <1>1, <2>1, <2>2
    DEF ReadingStarts, Get, Fetch, SetEntry, Reading, Return, PrefOK, ReadingOK
  <2>4. \A v \in entry : v >= floor[g]
    <3>1. settled \in Nat /\ floor[g] \in Nat /\ entry \subseteq Nat
      BY <1>1 DEF PrefOK, Single, WritingOK, ReadingOK
    <3> QED BY <1>1, <3>1 DEF Fresh
  <2> QED BY <1>1, <2>3, <2>4 DEF Fresh
<1>2. PrefOK /\ Fresh /\ [PrefNext]_prefVars => [\A g \in Readings : Outcome(g)]_prefVars
  BY <1>1
<1> QED
  BY <1>2, PrefOKAlways, FreshAlways, PTL DEF PrefSpec, PreferencesNotOutdated
-----------------------------------------------------------------------------
(* The planner's memory *)

Limit(u) == MaxEntries + 1 + (2 * MaxIterations + 1) * u

LEMMA LimitGrows ==
  ASSUME NEW u \in Nat
  PROVE  /\ Limit(u) \in Nat
         /\ Limit(u) >= MaxEntries + 1
         /\ Limit(u + 1) = Limit(u) + 2 * MaxIterations + 1
<1>1. (2 * MaxIterations + 1) * (u + 1) = (2 * MaxIterations + 1) * u + 2 * MaxIterations + 1
  BY PlannerAssumption
<1>2. (2 * MaxIterations + 1) * u \in Nat
  BY PlannerAssumption
<1> QED BY <1>1, <1>2, PlannerAssumption DEF Limit

PlannerOK ==
  /\ memory \in Nat /\ awaiting \in BOOLEAN
  /\ phase \in {"rest", "chat", "tool", "prune", "store"}
  /\ draft \in Nat /\ iteration \in Nat /\ unpruned \in Nat

\* A pending call may add one entry, when it is rejected.
Rejection == IF awaiting THEN 1 ELSE 0

\* Each iteration adds at most two entries, and a run that stores without
\* pruning has been counted.
Within ==
  /\ memory + Rejection <= Limit(unpruned)
  /\ phase = "chat" => iteration <= MaxIterations /\ draft <= memory + 2 * iteration
  /\ phase \in {"tool", "prune"} =>
       iteration < MaxIterations /\ draft <= memory + 2 * iteration + 1
  /\ phase = "store" =>
       /\ draft <= memory + 2 * MaxIterations
       /\ memory + 2 * MaxIterations + Rejection <= Limit(unpruned)

LEMMA KeptBound == ASSUME NEW n \in Nat PROVE Kept(n) \in Nat /\ Kept(n) <= MaxEntries
  BY PlannerAssumption DEF Kept

LEMMA PlannerOKStep == PlannerOK /\ [PlannerNext]_plannerVars => PlannerOK'
<1> SUFFICES ASSUME PlannerOK, [PlannerNext]_plannerVars PROVE PlannerOK'
  OBVIOUS
<1> USE DEF PlannerOK
<1>1. CASE StartRun \/ ReachCap
  BY <1>1 DEF StartRun, ReachCap
<1>2. CASE Think
  <2>1. draft' \in {0, draft, draft + 1} /\ iteration' \in {0, iteration, iteration + 1}
    BY <1>2 DEF Think, RunOver, NextIteration
  <2>2. phase' \in {"rest", "chat", "tool", "prune"}
    BY <1>2 DEF Think, RunOver, NextIteration
  <2> QED BY <1>2, <2>1, <2>2 DEF Think
<1>3. CASE UseTool
  <2>1. draft' \in {0, draft + 1} /\ iteration' \in {0, iteration, iteration + 1}
    BY <1>3 DEF UseTool, RunOver, NextIteration
  <2>2. unpruned' \in {unpruned, unpruned + 1} /\ phase' \in {"rest", "chat", "store"}
    BY <1>3 DEF UseTool, RunOver, NextIteration
  <2>3. awaiting' \in BOOLEAN /\ memory' = memory
    BY <1>3 DEF UseTool
  <2> QED BY <2>1, <2>2, <2>3
<1>4. CASE StoreMemory
  BY <1>4 DEF StoreMemory, RunOver
<1>5. CASE PruneAndPersist
  <2>1. Kept(draft) \in Nat
    BY KeptBound
  <2>2. memory' \in {Kept(draft), memory} /\ unpruned' \in {0, unpruned}
    BY <1>5 DEF PruneAndPersist
  <2> QED BY <1>5, <2>1, <2>2 DEF PruneAndPersist, RunOver
<1>6. CASE RejectCall \/ EndWaiting \/ TaskReplaced \/ UNCHANGED plannerVars
  <2>1. memory' \in {0, memory, memory + 1} /\ unpruned' \in {0, unpruned}
    BY <1>6 DEF RejectCall, EndWaiting, TaskReplaced, plannerVars
  <2>2. awaiting' \in BOOLEAN /\ UNCHANGED <<phase, draft, iteration>>
    BY <1>6 DEF RejectCall, EndWaiting, TaskReplaced, plannerVars
  <2> QED BY <2>1, <2>2
<1> QED BY <1>1, <1>2, <1>3, <1>4, <1>5, <1>6 DEF PlannerNext

LEMMA WithinStep == PlannerOK /\ Within /\ [PlannerNext]_plannerVars => Within'
<1> SUFFICES ASSUME PlannerOK, Within, [PlannerNext]_plannerVars PROVE Within'
  OBVIOUS
<1>0. /\ Limit(unpruned) \in Nat /\ Limit(unpruned) >= MaxEntries + 1
      /\ Limit(unpruned + 1) = Limit(unpruned) + 2 * MaxIterations + 1
      /\ Limit(0) >= MaxEntries + 1 /\ Limit(0) \in Nat
  BY LimitGrows DEF PlannerOK
<1>1. MaxIterations \in Nat /\ MaxEntries \in Nat /\ Rejection \in {0, 1}
  BY PlannerAssumption DEF Rejection
<1> USE DEF PlannerOK, Within
<1>2. CASE StartRun
  <2>1. Rejection' = Rejection
    BY <1>2 DEF StartRun, Rejection
  <2>2. Limit(unpruned)' = Limit(unpruned)
    BY <1>2 DEF StartRun, Limit
  <2> QED BY <1>0, <1>1, <1>2, <2>1, <2>2 DEF StartRun
<1>3. CASE Think
  <2>1. Rejection' = Rejection /\ Limit(unpruned)' = Limit(unpruned)
    BY <1>3 DEF Think, Rejection, Limit
  <2> QED BY <1>0, <1>1, <1>3, <2>1 DEF Think, RunOver, NextIteration
<1>4. CASE UseTool
  <2>1. CASE awaiting' = awaiting /\ unpruned' = unpruned
    <3>1. Rejection' = Rejection /\ Limit(unpruned)' = Limit(unpruned)
      BY <2>1 DEF Rejection, Limit
    <3>2. phase' # "store"
      BY <1>4, <2>1 DEF UseTool, RunOver, NextIteration
    <3> QED BY <1>0, <1>1, <1>4, <2>1, <3>1, <3>2 DEF UseTool, RunOver, NextIteration
  <2>2. CASE /\ awaiting' = TRUE /\ unpruned' = unpruned + 1
             /\ draft' = draft + 1 /\ phase' = "store" /\ UNCHANGED iteration
    <3>1. Rejection' = 1 /\ Limit(unpruned)' = Limit(unpruned + 1)
      BY <2>2 DEF Rejection, Limit
    <3> QED BY <1>0, <1>1, <1>4, <2>2, <3>1 DEF UseTool
  <2> QED BY <1>4, <2>1, <2>2 DEF UseTool
<1>5. CASE ReachCap
  <2>1. Rejection' = Rejection /\ Limit(unpruned)' = Limit(unpruned + 1)
    BY <1>5 DEF ReachCap, Rejection, Limit
  <2> QED BY <1>0, <1>1, <1>5, <2>1 DEF ReachCap
<1>6. CASE StoreMemory
  <2>1. Rejection' = Rejection /\ Limit(unpruned)' = Limit(unpruned)
    BY <1>6 DEF StoreMemory, Rejection, Limit
  <2> QED BY <1>0, <1>1, <1>6, <2>1 DEF StoreMemory, RunOver
<1>7. CASE PruneAndPersist
  <2>1. Rejection' = Rejection
    BY <1>7 DEF PruneAndPersist, Rejection
  <2>2. CASE memory' = Kept(draft) /\ unpruned' = 0
    <3>1. Limit(unpruned)' = Limit(0)
      BY <2>2 DEF Limit
    <3>2. memory' \in Nat /\ memory' <= MaxEntries
      BY <2>2, KeptBound
    <3> QED BY <1>0, <1>1, <1>7, <2>1, <3>1, <3>2 DEF PruneAndPersist, RunOver
  <2>3. CASE UNCHANGED <<memory, unpruned>>
    <3>1. Limit(unpruned)' = Limit(unpruned)
      BY <2>3 DEF Limit
    <3> QED BY <1>0, <1>1, <1>7, <2>1, <2>3, <3>1 DEF PruneAndPersist, RunOver
  <2> QED BY <1>7, <2>2, <2>3 DEF PruneAndPersist
<1>8. CASE RejectCall \/ EndWaiting
  <2>1. Limit(unpruned)' = Limit(unpruned)
    BY <1>8 DEF RejectCall, EndWaiting, Limit
  <2> QED BY <1>0, <1>1, <1>8, <2>1 DEF RejectCall, EndWaiting, Rejection
<1>9. CASE TaskReplaced
  <2>1. Rejection' = 0 /\ Limit(unpruned)' = Limit(0)
    BY <1>9 DEF TaskReplaced, Rejection, Limit
  <2> QED BY <1>0, <1>1, <1>9, <2>1 DEF TaskReplaced
<1>10. CASE UNCHANGED plannerVars
  BY <1>10 DEF plannerVars, Rejection, Limit
<1> QED BY <1>2, <1>3, <1>4, <1>5, <1>6, <1>7, <1>8, <1>9, <1>10 DEF PlannerNext

\* The memory is bounded by its maximum and by what runs without pruning add,
\* for any maximum and any number of iterations (BasePlanner.run).
THEOREM MemoryBoundedCorrect == PlannerSpec => []MemoryBounded
<1>1. ASSUME PlannerInit PROVE PlannerOK /\ Within
  <2>1. Limit(0) >= MaxEntries + 1 /\ Limit(0) \in Nat
    BY LimitGrows
  <2>2. PlannerOK
    BY <1>1 DEF PlannerInit, PlannerOK
  <2>3. memory = 0 /\ Rejection = 0 /\ phase = "rest" /\ unpruned = 0
    BY <1>1 DEF PlannerInit, Rejection
  <2> QED BY <2>1, <2>2, <2>3, PlannerAssumption DEF Within
<1>2. ASSUME PlannerOK, Within PROVE MemoryBounded
  <2>1. memory <= memory + Rejection /\ memory + Rejection \in Nat
    BY <1>2 DEF PlannerOK, Rejection
  <2>2. memory <= Limit(unpruned)
    BY <1>2, <2>1, LimitGrows DEF PlannerOK, Within
  <2> QED BY <2>2 DEF MemoryBounded, Limit
<1> QED BY <1>1, <1>2, PlannerOKStep, WithinStep, PTL DEF PlannerSpec

=============================================================================
