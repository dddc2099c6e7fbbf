---------------------------- MODULE Preferences ----------------------------
(***************************************************************************)
(* PreferencesManager: the preferences of one user in Postgres, read       *)
(* through a Redis entry that lives for a day.  Failures are swallowed: a  *)
(* reader then has no preferences, a writer's change is lost or stays      *)
(* hidden.  The table is abstracted to the number of upserts it has seen.  *)
(***************************************************************************)
EXTENDS Integers

CONSTANTS Upserts,   \* calls of upsert
          Readings   \* calls of get_all

VARIABLES
  saved,    \* table user_preferences
  entry,    \* Redis: prefs:{user_id}, {} or {what it holds}
  saving,   \* where each upsert stands
  reading,  \* where each reading stands
  loaded,   \* what a reading loaded, or returned
  floor,    \* history: what was saved and no longer cached when it began
  settled,  \* history: what was saved when the entry was last deleted
  hidden    \* history: the entry was stored late, or its deletion failed

writing == <<saved, settled, saving>>
readingVars == <<reading, loaded, floor>>
prefVars == <<writing, entry, readingVars, hidden>>

PrefTypeOK ==
  /\ saved \in Nat
  /\ entry \in SUBSET Nat /\ \A v, w \in entry : v = w
  /\ saving \in [Upserts -> {"idle", "insert", "delete", "done", "swallowed"}]
  /\ reading \in [Readings -> {"idle", "get", "fetch", "set", "done"}]
  /\ loaded \in [Readings -> SUBSET Nat]
  /\ floor \in [Readings -> Nat]
  /\ settled \in Nat
  /\ hidden \in BOOLEAN

PrefInit ==
  /\ saved = 0 /\ entry = {}
  /\ saving = [w \in Upserts |-> "idle"]
  /\ reading = [g \in Readings |-> "idle"]
  /\ loaded = [g \in Readings |-> {}]
  /\ floor = [g \in Readings |-> 0]
  /\ settled = 0
  /\ hidden = FALSE

-----------------------------------------------------------------------------
Saving(w, s) == saving' = [saving EXCEPT ![w] = s]
Reading(g, s) == reading' = [reading EXCEPT ![g] = s]

UpsertStarts(w) ==
  /\ saving[w] = "idle"
  /\ Saving(w, "insert")
  /\ UNCHANGED <<saved, settled, entry, readingVars, hidden>>

Insert(w) ==
  /\ saving[w] = "insert"
  /\ \/ saved' = saved + 1 /\ Saving(w, "delete")
     \/ Saving(w, "swallowed") /\ UNCHANGED saved
  /\ UNCHANGED <<entry, settled, readingVars, hidden>>

\* Mutant: the entry of the day is left to expire.
DeleteNothing(w) ==
  /\ saving[w] = "delete"
  /\ settled' = saved
  /\ Saving(w, "done")
  /\ UNCHANGED <<saved, entry, readingVars, hidden>>

DeleteEntry(w) ==
  /\ saving[w] = "delete"
  /\ \/ entry' = {} /\ settled' = saved /\ hidden' = FALSE /\ Saving(w, "done")
     \/ Saving(w, "swallowed") /\ hidden' = TRUE /\ UNCHANGED <<entry, settled>>
  /\ UNCHANGED <<saved, readingVars>>

ReadingStarts(g) ==
  /\ reading[g] = "idle"
  /\ Reading(g, "get")
  /\ floor' = [floor EXCEPT ![g] = settled]
  /\ UNCHANGED <<writing, entry, loaded, hidden>>

Return(g, what) ==
  /\ Reading(g, "done")
  /\ loaded' = [loaded EXCEPT ![g] = what]

Get(g) ==
  /\ reading[g] = "get"
  /\ \/ entry # {} /\ Return(g, entry)
     \/ entry = {} /\ Reading(g, "fetch") /\ UNCHANGED loaded
     \/ Return(g, {})  \* Redis fails
  /\ UNCHANGED <<writing, entry, floor, hidden>>

Fetch(g) ==
  /\ reading[g] = "fetch"
  /\ \/ loaded' = [loaded EXCEPT ![g] = {saved}] /\ Reading(g, "set")
     \/ Return(g, {})
  /\ UNCHANGED <<writing, entry, floor, hidden>>

\* When the entry cannot be stored, what was fetched is not returned either.
SetEntry(g) ==
  /\ reading[g] = "set"
  /\ \/ /\ entry' = loaded[g]
        /\ hidden' = (hidden \/ loaded[g] # {saved})
        /\ Return(g, loaded[g])
     \/ Return(g, {}) /\ UNCHANGED <<entry, hidden>>
  /\ UNCHANGED <<writing, floor>>

\* PREFERENCES_CACHE_TTL passes.
EntryExpires ==
  /\ entry # {}
  /\ entry' = {}
  /\ hidden' = FALSE
  /\ UNCHANGED <<writing, readingVars>>

PrefNext ==
  \/ \E w \in Upserts : UpsertStarts(w) \/ Insert(w) \/ DeleteEntry(w)
  \/ \E g \in Readings : ReadingStarts(g) \/ Get(g) \/ Fetch(g) \/ SetEntry(g)
  \/ EntryExpires

PrefSpec == PrefInit /\ [][PrefNext]_prefVars
-----------------------------------------------------------------------------
(* Properties *)

\* A reading that returns preferences returns those of every upsert that had
\* deleted the entry before the reading began, unless a reader stored the entry
\* after an upsert had changed the table, or a deletion failed; either lasts
\* until the entry goes (PreferencesManager.upsert, get_all).
PreferencesNotOutdated ==
  [][\A g \in Readings :
       reading[g] # "done" /\ reading'[g] = "done" /\ ~hidden =>
         \A v \in loaded'[g] : v >= floor[g]]_prefVars

=============================================================================
