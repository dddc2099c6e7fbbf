----------------------------- MODULE MCServices -----------------------------
(***************************************************************************)
(* The chat page, the preferences, the planner's memory and the answering  *)
(* of messages on small instances, with what eventually happens in them.   *)
(* They share no state and no step, so each behaviour moves one of them,   *)
(* which `part` picks, and leaves the others as they start: what holds of  *)
(* a component alone holds of it beside the others.                        *)
(***************************************************************************)
EXTENDS ChatPipeline, Page, Preferences, Planner

VARIABLE part

ServicesInit ==
  /\ part \in {"chat", "page", "preferences", "planner"}
  /\ Init /\ PageInit /\ PrefInit /\ PlannerInit

ServicesNext ==
  /\ UNCHANGED part
  /\ \/ part = "chat" /\ Next /\ UNCHANGED <<pageVars, prefVars, plannerVars>>
     \/ part = "page" /\ PageNext /\ UNCHANGED <<vars, prefVars, plannerVars>>
     \/ part = "preferences" /\ PrefNext /\ UNCHANGED <<vars, pageVars, plannerVars>>
     \/ part = "planner" /\ PlannerNext /\ UNCHANGED <<vars, pageVars, prefVars>>

ServicesSpec ==
  /\ ServicesInit /\ [][ServicesNext]_<<part, vars, pageVars, prefVars, plannerVars>>
  /\ Fairness /\ PageFairness
=============================================================================
