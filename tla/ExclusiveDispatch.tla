-------------------------- MODULE ExclusiveDispatch --------------------------
(***************************************************************************)
(* What the task queue promises its executors, without a word about how:   *)
(* no table, no tick, no locks.  A task is executed at most once; a task   *)
(* starts only while fewer than MaxConcurrent are executing and none of    *)
(* them shares its machine or its operation category; anchors never        *)
(* execute; an execution ends by itself or with the process.               *)
(***************************************************************************)
EXTENDS Naturals, FiniteSets

CONSTANTS Task, None, Anchors, MachineOf, CategoryOf, ExemptScopes, MaxConcurrent

VARIABLES
  executing,        \* tasks an executor is working on
  ran               \* tasks an executor has ever worked on

vars == <<executing, ran>>

Init == executing = {} /\ ran = {}

Compatible(s, t) ==
  /\ MachineOf[s] = MachineOf[t] => MachineOf[s] \in ExemptScopes
  /\ CategoryOf[s] = CategoryOf[t] => CategoryOf[s] = None

Start(t) ==
  /\ t \notin ran \cup Anchors
  /\ Cardinality(executing) < MaxConcurrent
  /\ \A s \in executing : Compatible(s, t)
  /\ executing' = executing \cup {t}
  /\ ran' = ran \cup {t}

End(t) ==
  /\ t \in executing
  /\ executing' = executing \ {t}
  /\ UNCHANGED ran

ProcessEnds == executing' = {} /\ UNCHANGED ran

Next == ProcessEnds \/ \E t \in Task : Start(t) \/ End(t)

Spec == Init /\ [][Next]_vars

FairSpec == Spec /\ \A t \in Task : WF_vars(End(t))
=============================================================================
