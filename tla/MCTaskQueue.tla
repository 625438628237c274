------------------------------ MODULE MCTaskQueue ------------------------------
(* Small workloads of the task queue for TLC.                           *)
EXTENDS TaskQueue, TLC

CONSTANTS a, b, x, y                    \* the mixed workload
CONSTANTS anchor, first, second, upload \* the others

Machine1 == "machine1"
Scope == "system"
Template == "template"

\* Mixed: a and b work on one machine, b and x in one category, y with everybody,
\* unless a create has chained it behind x.
MixedTask == {a, b, x, y}
MixedMachineOf == [t \in MixedTask |-> IF t \in {a, b} THEN Machine1 ELSE Scope]
MixedCategoryOf == [t \in MixedTask |-> IF t \in {b, x} THEN Template ELSE None]
MixedPriorityOf == [t \in MixedTask |-> IF t = b THEN 2 ELSE 1]
MixedNothing == [t \in MixedTask |-> None]
MixedCancellable == {b}
MixedWaitFor == {<<x, y>>}

\* Create: an anchor with two chained children on one machine.
CreateTask == {anchor, first, second}
CreateAnchors == {anchor}
CreateMachineOf == [t \in CreateTask |-> Machine1]
CreateCategoryOf == [t \in CreateTask |-> None]
CreatePriorityOf == [t \in CreateTask |-> 1]
CreateParentOf == (first :> anchor) @@ (second :> anchor) @@ (anchor :> None)
CreateDependsOnOf == (first :> None) @@ (second :> first) @@ (anchor :> None)
CreateCancellable == {first}
CreatePrunable == {second}
CreateNone == {}

\* Upload: an anchor, its child on a machine, and behind an upload that takes
\* the category of the artifact store.
UploadTask == {anchor, first, upload}
UploadMachineOf == [t \in UploadTask |-> IF t = upload THEN Scope ELSE Machine1]
UploadCategoryOf == [t \in UploadTask |-> IF t = upload THEN Template ELSE None]
UploadPriorityOf == [t \in UploadTask |-> 1]
UploadParentOf == (first :> anchor) @@ (anchor :> None) @@ (upload :> None)
UploadDependsOnOf == (first :> upload) @@ (anchor :> None) @@ (upload :> None)
UploadUploads == {upload}
UploadPrunable == {first}

=============================================================================
