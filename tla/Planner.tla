------------------------------ MODULE Planner ------------------------------
(***************************************************************************)
(* BasePlanner.run and the memory of the task it works on, one message at  *)
(* a time: the loop of LLM answers, tool calls and their results, and the  *)
(* pruning.  Entries are counted, their text is left out.                  *)
(***************************************************************************)
EXTENDS Integers

CONSTANTS MaxIterations,  \* FACILITY_PLANNER_MAX_ITERATIONS
          MaxEntries,     \* PLANNER_MEMORY_MAX_ENTRIES
          MaxUnpruned     \* bound: runs after which nothing was pruned

ASSUME PlannerAssumption == MaxIterations \in Nat /\ MaxEntries \in Nat

VARIABLES
  memory,     \* active_task.planner_memory: its number of entries
  awaiting,   \* the task has a pending call
  phase,      \* where the run stands
  draft,      \* planner_memory, the run's own copy
  iteration,
  unpruned    \* history: runs that attached a call or reached the cap since
              \* the memory was pruned

plannerVars == <<memory, awaiting, phase, draft, iteration, unpruned>>

PlannerInit ==
  /\ memory = 0 /\ awaiting = FALSE
  /\ phase = "rest" /\ draft = 0 /\ iteration = 0
  /\ unpruned = 0

\* The run is over: what it has not stored is lost.
RunOver == phase' = "rest" /\ draft' = 0 /\ iteration' = 0

StartRun ==
  /\ phase = "rest" /\ unpruned < MaxUnpruned
  /\ phase' = "chat" /\ draft' = memory /\ iteration' = 0
  /\ UNCHANGED <<memory, awaiting, unpruned>>

NextIteration == phase' = "chat" /\ iteration' = iteration + 1

\* The LLM fails, answers in a wrong format, calls a tool, asks or answers
\* the user, or acts in a way the loop does not know.
Think ==
  /\ phase = "chat" /\ iteration < MaxIterations
  /\ \/ RunOver
     \/ NextIteration /\ UNCHANGED draft
     \/ draft' = draft + 1 /\ phase' \in {"tool", "prune"} /\ UNCHANGED iteration
     \/ draft' = draft + 1 /\ NextIteration
  /\ UNCHANGED <<memory, awaiting, unpruned>>

\* The harness returns a result or demands a confirmation, which attaches the
\* call to the task; either may raise.
UseTool ==
  /\ phase = "tool"
  /\ \/ draft' = draft + 1 /\ NextIteration /\ UNCHANGED <<awaiting, unpruned>>
     \/ /\ awaiting' = TRUE /\ unpruned' = unpruned + 1
        /\ draft' = draft + 1 /\ phase' = "store" /\ UNCHANGED iteration
     \/ RunOver /\ UNCHANGED <<awaiting, unpruned>>
  /\ UNCHANGED memory

ReachCap ==
  /\ phase = "chat" /\ iteration = MaxIterations
  /\ phase' = "store" /\ unpruned' = unpruned + 1
  /\ UNCHANGED <<memory, awaiting, draft, iteration>>

\* Mutant: the summary is made and the entries it stands for stay.
KeptAll(n) == n

\* _summarize_memory keeps the newest half, even if the LLM fails.
Kept(n) == IF n > MaxEntries THEN MaxEntries \div 2 ELSE n

\* A failure to store is swallowed.
StoreMemory ==
  /\ phase = "store"
  /\ memory' \in {draft, memory}
  /\ RunOver
  /\ UNCHANGED <<awaiting, unpruned>>

PruneAndPersist ==
  /\ phase = "prune"
  /\ \/ memory' = Kept(draft) /\ unpruned' = 0
     \/ UNCHANGED <<memory, unpruned>>
  /\ RunOver
  /\ UNCHANGED awaiting

\* reject_confirmation adds an entry; the run that follows is StartRun.
RejectCall ==
  /\ phase = "rest" /\ awaiting
  /\ awaiting' = FALSE /\ memory' = memory + 1
  /\ UNCHANGED <<phase, draft, iteration, unpruned>>

\* The call is released, corrected or left unanswered.
EndWaiting ==
  /\ phase = "rest" /\ awaiting
  /\ awaiting' = FALSE
  /\ UNCHANGED <<memory, phase, draft, iteration, unpruned>>

\* init_task, or clear_task and a later init_task.
TaskReplaced ==
  /\ phase = "rest"
  /\ memory' = 0 /\ awaiting' = FALSE /\ unpruned' = 0
  /\ UNCHANGED <<phase, draft, iteration>>

PlannerNext ==
  \/ StartRun \/ Think \/ UseTool \/ ReachCap \/ StoreMemory \/ PruneAndPersist
  \/ RejectCall \/ EndWaiting \/ TaskReplaced

PlannerSpec == PlannerInit /\ [][PlannerNext]_plannerVars

\* The memory exceeds its maximum by one rejection, and by what each run adds
\* that ends with a pending call or at the iteration cap, where nothing is
\* pruned, with its own rejection: the next question or answer that is stored
\* undoes all of it (BasePlanner.run, reject_confirmation).
MemoryBounded == memory <= MaxEntries + 1 + (2 * MaxIterations + 1) * unpruned

=============================================================================
