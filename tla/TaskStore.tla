------------------------------ MODULE TaskStore ------------------------------
(***************************************************************************)
(* The tasks table of tasks.sqlite and the SQL statements of               *)
(* internal/tasks/store*.go.  The database has one pooled connection       *)
(* (internal/db), so every statement is atomic and statements of different *)
(* goroutines interleave: each statement is one action here, and whatever  *)
(* the code does between two statements is left to the modules that        *)
(* compose them.                                                           *)
(*                                                                         *)
(* A task id is minted by its INSERT and never reused, so the immutable    *)
(* columns of a row (machine, operation category, priority, parent, kind)  *)
(* are functions of the id: the constants below are the workload.          *)
(***************************************************************************)
EXTENDS Naturals, FiniteSets

CONSTANTS
  Task,             \* the task ids of the workload
  None,             \* SQL NULL / Go nil
  Anchors,          \* ids created with Parent: true (progress anchors)
  Uploads,          \* ids created with Prepared: true (upload handshakes)
  MachineOf,        \* machine_name
  CategoryOf,       \* OperationCategory(operation), None when unmapped
  PriorityOf,       \* priority, higher first
  ParentOf,         \* parent_task_id
  DependsOnOf       \* depends_on given at creation

TaskOrNone == Task \cup {None}

ASSUME WorkloadAssumption ==
  /\ IsFiniteSet(Task)
  /\ None \notin Task
  /\ Anchors \subseteq Task
  /\ Uploads \subseteq Task
  /\ Anchors \cap Uploads = {}
  /\ PriorityOf \in [Task -> Nat]
  /\ ParentOf \in [Task -> TaskOrNone]
  /\ DependsOnOf \in [Task -> TaskOrNone]

VARIABLES
  status,           \* the status column; "absent" before the INSERT
  dependsOn,        \* the depends_on column
  created           \* created_at/rowid: the position in insertion order

rowVars == <<status, dependsOn, created>>

Finished == {"completed", "completed_with_errors", "failed", "cancelled"}
Unfinished == {"pending", "prepared", "running"}
Status == Finished \cup Unfinished \cup {"absent", "deleted"}

Present(t) == status[t] \in Finished \cup Unfinished

Children(p) == {t \in Task : ParentOf[t] = p /\ Present(t)}

StoreInit ==
  /\ status = [t \in Task |-> "absent"]
  /\ dependsOn = [t \in Task |-> None]
  /\ created = [t \in Task |-> 0]

----------------------------------------------------------------------------
(* Queries *)

\* Slip: any end of the predecessor will do
DependencyOver(t) ==
  dependsOn[t] # None => status[dependsOn[t]] \in Finished

DependencyMet(t) ==
  dependsOn[t] # None => status[dependsOn[t]] = "completed"

Runnable(busy) ==
  {t \in Task : /\ status[t] = "pending"
                /\ DependencyMet(t)
                /\ MachineOf[t] \notin busy}

\* ORDER BY priority DESC, created_at ASC, rowid ASC
Precedes(s, t) ==
  \/ PriorityOf[s] > PriorityOf[t]
  \/ PriorityOf[s] = PriorityOf[t] /\ created[s] < created[t]

\* t is the row NextPending(busy) returns; no such t means it returns nil
IsNextPending(t, busy) ==
  /\ t \in Runnable(busy)
  /\ \A s \in Runnable(busy) \ {t} : Precedes(t, s)

\* CountChildren folded into the verdict updateParentProgress takes from it
Tally(p) ==
  LET total  == Cardinality(Children(p))
      ok     == Cardinality({t \in Children(p) : status[t] = "completed"})
      failed == Cardinality({t \in Children(p) : status[t] \in {"failed", "cancelled"}})
  IN  CASE total = 0 \/ ok + failed # total -> "running"
        [] total > 0 /\ failed = total -> "failed"
        [] total > 0 /\ ok + failed = total /\ failed > 0 /\ failed # total
             -> "completed_with_errors"
        [] OTHER -> "completed"

----------------------------------------------------------------------------
(* Statements: each sets status' and dependsOn' and created' *)

Create(t) ==
  /\ status[t] = "absent"
  /\ status' = [status EXCEPT ![t] = IF t \in Uploads THEN "prepared"
                                     ELSE IF t \in Anchors THEN "running"
                                     ELSE "pending"]
  /\ dependsOn' = [dependsOn EXCEPT ![t] = DependsOnOf[t]]
  /\ created' = [created EXCEPT ![t] =
                   1 + Cardinality({s \in Task : status[s] # "absent"})]

SetStatus(t, s) ==
  /\ status' = IF Present(t) THEN [status EXCEPT ![t] = s] ELSE status
  /\ UNCHANGED <<dependsOn, created>>

MarkRunning(t) == SetStatus(t, "running")

Finish(t, s) == SetStatus(t, s)

CancelPending(t) ==
  /\ status' = IF status[t] = "pending" THEN [status EXCEPT ![t] = "cancelled"]
                                        ELSE status
  /\ UNCHANGED <<dependsOn, created>>

\* Slip: only one of the two unlucky ends of a predecessor counts
DoomedByFailure ==
  {t \in Task : /\ status[t] = "pending"
                /\ dependsOn[t] # None
                /\ status[dependsOn[t]] = "failed"}
DoomedByCancel ==
  {t \in Task : /\ status[t] = "pending"
                /\ dependsOn[t] # None
                /\ status[dependsOn[t]] = "cancelled"}

\* UPDATE ... WHERE status = 'pending' AND depends_on IN (failed, cancelled)
Doomed ==
  {t \in Task : /\ status[t] = "pending"
                /\ dependsOn[t] # None
                /\ status[dependsOn[t]] \in {"failed", "cancelled"}}

CancelDependents ==
  /\ status' = [t \in Task |-> IF t \in Doomed THEN "cancelled" ELSE status[t]]
  /\ UNCHANGED <<dependsOn, created>>

Requeue(t) ==
  /\ status[t] = "prepared"
  /\ status' = [status EXCEPT ![t] = "pending"]
  /\ UNCHANGED <<dependsOn, created>>

SetDependsOn(t, d) ==
  /\ dependsOn' = IF status[t] = "pending" THEN [dependsOn EXCEPT ![t] = d]
                                           ELSE dependsOn
  /\ UNCHANGED <<status, created>>

\* Every finished row created before the cutoff; DeleteFinished has no cutoff
DeleteFinishedBefore(cutoff) ==
  /\ status' = [t \in Task |-> IF status[t] \in Finished /\ created[t] < cutoff
                               THEN "deleted" ELSE status[t]]
  /\ UNCHANGED <<dependsOn, created>>

DeleteFinished ==
  /\ status' = [t \in Task |-> IF status[t] \in Finished THEN "deleted" ELSE status[t]]
  /\ UNCHANGED <<dependsOn, created>>

\* Slip: the resumable queue resumes what was running too
RecoverRunning(resume) ==
  /\ status' = [t \in Task |->
                  CASE status[t] = "running" /\ resume -> "pending"
                    [] status[t] = "running" /\ ~resume -> "failed"
                    [] status[t] \in {"pending", "prepared"} /\ ~resume -> "cancelled"
                    [] OTHER -> status[t]]
  /\ UNCHANGED <<dependsOn, created>>

\* Slip: rows left running by the previous process stay running
RecoverPending(resume) ==
  /\ status' = [t \in Task |->
                  IF status[t] \in {"pending", "prepared"} /\ ~resume THEN "cancelled"
                  ELSE status[t]]
  /\ UNCHANGED <<dependsOn, created>>

\* FailStaleRunning, then CancelAllPending unless the queue is resumable
Recover(resume) ==
  /\ status' = [t \in Task |->
                  CASE status[t] = "running" -> "failed"
                    [] status[t] \in {"pending", "prepared"} /\ ~resume -> "cancelled"
                    [] OTHER -> status[t]]
  /\ UNCHANGED <<dependsOn, created>>
=============================================================================
