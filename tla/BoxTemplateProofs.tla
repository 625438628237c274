--------------------------- MODULE BoxTemplateProofs ---------------------------
(***************************************************************************)
(* What BoxTemplates says of a clone base in use and of stale rows, for    *)
(* any machines, roots, bounds and number of incidents: LinkedBaseKept by  *)
(* the invariant BaseInv, StaleRowsOnly by the invariant LookInv.          *)
(***************************************************************************)
EXTENDS BoxTemplates, TLAPS

Ops == {"none", "download", "move", "delete"}
TaskSteps == {"idle", "look", "fetch", "record", "move", "source", "row", "gate", "base", "image"}

TaskRecord == [op : Ops, step : TaskSteps, id : Nat, at : Place \cup {None},
               to : Place \cup {None}]
LookRecord == [id : Nat, at : Place, step : {"read", "missed"}]
BuildRecord == [step : {"idle", "found", "clone", "type", "attach", "stamp"},
                at : Place \cup {None}]

\* Every variable is well formed, a place is held where one is needed, and a create that has
\* attached has its link.
Shape ==
  /\ TypeOK
  /\ newest \in Nat
  /\ look \in [Reader -> LookRecord \cup {None}]
  /\ build \in [Machine -> BuildRecord]
  /\ task \in TaskRecord
  /\ task.op \in {"move", "delete"} => task.at \in Place
  /\ task.op = "move" => task.to \in Place
  /\ \A m \in Machine : build[m].step # "idle" => build[m].at \in Place
  /\ \A m \in Machine : build[m].step = "stamp" => link[m] \in Place

\* A delete that goes on to the base has nobody linked to it.
Unlinked ==
  task.op = "delete" /\ task.step = "base" =>
    orphan[task.at] # "left" /\ \A m \in Machine : link[m] # task.at

BaseInv == ordered => LinkedBaseStays /\ Unlinked

\* A row that a reader has read is where it was read, and without an image once that was missed.
Current(a) ==
  row # None /\ row.id = look[a].id =>
    look[a].at = row.at /\ (look[a].step = "missed" => row.at \notin image)

\* Ids are not used again.
IdsInv ==
  /\ row # None => row.id <= newest
  /\ \A a \in Reader : look[a] # None => look[a].id <= newest

\* The worker reads in its own step only and has the only row there is; once it has found none
\* there is none until it makes one.
WorkerInv ==
  /\ look[Worker] # None =>
       /\ task.op = "download" /\ task.step = "look"
       /\ row # None => row.id = look[Worker].id
  /\ task.op = "download" /\ task.step \in {"fetch", "record"} => row = None

ReadInv == ordered => \A a \in Reader : look[a] # None => task.op # "move" /\ Current(a)

LookInv == IdsInv /\ WorkerInv /\ ReadInv

-----------------------------------------------------------------------------
(* The shape *)

\* The readers are the machines, the handler and the template task's own lookup.
LEMMA Readers ==
  /\ Machine \subseteq Reader /\ Worker \in Reader /\ Handler \in Reader
  /\ Worker \notin Machine /\ Handler \notin Machine /\ Worker # Handler
BY BoxAssumption DEF Machine, Reader

\* At the start there is nothing yet.
LEMMA ShapeInit == Init => Shape
BY BoxAssumption
   DEF Init, Shape, TypeOK, Row, NoBuild, NoTask, TaskRecord, Ops, TaskSteps, LookRecord, BuildRecord

\* What an answer leaves of the creates and of the task (Answer).
LEMMA ShapeAnswer ==
  ASSUME Shape, NEW a \in Reader, NEW at \in Place \cup {None}, Answer(a, at)
  PROVE  /\ build' \in [Machine -> BuildRecord]
         /\ task' \in TaskRecord
         /\ \A m \in Machine : build'[m].step # "idle" => build'[m].at \in Place
         /\ \A m \in Machine : build'[m].step = "stamp" => build[m].step = "stamp"
         /\ task'.op \in {"move", "delete"} => task'.at \in Place
         /\ task'.op = "move" => task'.to \in Place
<1>1. CASE a \in Machine
  <2> DEFINE b == IF at = None THEN NoBuild ELSE [step |-> "found", at |-> at]
  <2>1. build' = [build EXCEPT ![a] = b] /\ task' = task
    BY <1>1, Readers DEF Answer
  <2>2. b \in BuildRecord /\ b.step # "stamp" /\ (b.step # "idle" => b.at \in Place)
    BY DEF NoBuild, BuildRecord
  <2> HIDE DEF b
  <2> QED BY <1>1, <2>1, <2>2 DEF Shape
<1>2. CASE a \notin Machine /\ a = Worker
  BY <1>2 DEF Answer, Shape, NoTask, TaskRecord, Ops, TaskSteps
<1>3. CASE a \notin Machine /\ a # Worker
  BY <1>3 DEF Answer, Shape
<1> QED BY <1>1, <1>2, <1>3

\* A lookup's steps keep the shape (FindTemplate).
LEMMA ShapeLookup ==
  ASSUME Shape, NEW a \in Reader, Read(a) \/ LookupStep(a)
  PROVE  Shape'
<1>1. CASE Read(a)
  <2>1. look' \in [Reader -> LookRecord \cup {None}]
    BY <1>1 DEF Read, Shape, TypeOK, Row, LookRecord
  <2>2. CASE row = None
    BY <1>1, <2>1, <2>2, ShapeAnswer DEF Read, Shape, TypeOK
  <2>3. CASE row # None
    BY <1>1, <2>1, <2>3 DEF Read, Shape, TypeOK
  <2> QED BY <2>2, <2>3
<1>2. CASE Stat(a)
  <2>1. look' \in [Reader -> LookRecord \cup {None}] /\ look[a].at \in Place
    BY <1>2 DEF Stat, Shape, LookRecord
  <2>2. CASE look[a].at \in image
    BY <1>2, <2>1, <2>2, ShapeAnswer DEF Stat, Shape, TypeOK
  <2>3. CASE look[a].at \notin image
    BY <1>2, <2>1, <2>3 DEF Stat, Shape, TypeOK
  <2> QED BY <2>2, <2>3
<1>3. CASE DropStale(a)
  BY <1>3, ShapeAnswer DEF DropStale, RowWithout, Shape, TypeOK
<1> QED BY <1>1, <1>2, <1>3 DEF LookupStep

\* What a sweep of a root makes of its children (templateDelete, sweepOrphanCloneChildren).
LEMMA SweepEffect ==
  ASSUME Shape, NEW p \in Place, NEW failed \in {"none", "left", "refused"}, Sweep(p, failed)
  PROVE  /\ orphan' \in [Place -> {"none", "left", "refused"}]
         /\ \A q \in Place \ {p} : orphan'[q] = orphan[q]
         /\ orphan'[p] \in {"none", failed}
<1>1. orphan \in [Place -> {"none", "left", "refused"}]
  BY DEF Shape, TypeOK
<1>2. PICK outcome \in {"none", failed} : orphan' = [orphan EXCEPT ![p] = outcome]
  BY DEF Sweep
<1> QED BY <1>1, <1>2

\* The steps of the template task keep the shape.
LEMMA ShapeTask ==
  ASSUME Shape,
         \/ StartDownload \/ Fetch \/ FetchFails \/ CreateTemplate
         \/ StartMove \/ MoveImage \/ RemoveSource \/ SetTemplateDiskPath
         \/ StartDelete \/ ChildrenGate \/ RemoveBase \/ RemoveImage \/ DeleteTemplate
  PROVE  Shape'
<1> USE BoxAssumption DEF Shape, TypeOK, TaskRecord, Ops, TaskSteps, NoTask
<1>1. CASE StartDownload
  BY <1>1 DEF StartDownload
<1>2. CASE Fetch \/ FetchFails
  BY <1>2 DEF Fetch, FetchFails
<1>3. CASE CreateTemplate
  BY <1>3 DEF CreateTemplate, NextId, Row
<1>4. CASE StartMove
  BY <1>4 DEF StartMove, Happens, Row
<1>5. CASE MoveImage \/ RemoveSource
  BY <1>5 DEF MoveImage, RemoveSource, Removal, Happens
<1>6. CASE SetTemplateDiskPath
  <2>1. row' \in Row \cup {None}
    BY <1>6 DEF SetTemplateDiskPath, RowAt, Row
  <2>2. task' = NoTask /\ UNCHANGED <<newest, image, base, orphan, link, look, build>>
    BY <1>6 DEF SetTemplateDiskPath
  <2> QED BY <2>1, <2>2
<1>7. CASE StartDelete
  <2>1. row.id \in Nat /\ row.at \in Place
    BY <1>7 DEF StartDelete, Row
  <2>2. task' = [op |-> "delete", step |-> "gate", id |-> row.id, at |-> row.at, to |-> None]
    BY <1>7 DEF StartDelete
  <2>3. UNCHANGED <<row, newest, image, base, orphan, link, look, build>>
    BY <1>7 DEF StartDelete
  <2> QED BY <2>1, <2>2, <2>3
<1>8. CASE ChildrenGate
  <2>1. task.at \in Place /\ orphan[task.at] \in {"none", "left", "refused"}
    BY <1>8 DEF ChildrenGate
  <2>2. orphan' \in [Place -> {"none", "left", "refused"}]
    BY <1>8, <2>1, SweepEffect DEF ChildrenGate, ListingFails
  <2>3. \/ task' = [task EXCEPT !.step = "image"] \/ task' = [task EXCEPT !.step = "base"]
        \/ task' = NoTask
    BY <1>8 DEF ChildrenGate, ListingFails
  <2>4. UNCHANGED <<row, newest, image, base, link, look, build>>
    BY <1>8 DEF ChildrenGate
  <2> QED BY <2>2, <2>3, <2>4
<1>9. CASE RemoveBase \/ RemoveImage
  BY <1>9 DEF RemoveBase, RemoveImage, Removal, Happens
<1>10. CASE DeleteTemplate
  BY <1>10 DEF DeleteTemplate, RowWithout
<1> QED BY <1>1, <1>2, <1>3, <1>4, <1>5, <1>6, <1>7, <1>8, <1>9, <1>10

\* A create goes on, or ends (createStorage).
LEMMA ShapeGoes ==
  ASSUME Shape, NEW m \in Machine, NEW b \in BuildRecord, Goes(m, b),
         b.step # "stamp", b.step # "idle" => b.at \in Place,
         UNCHANGED <<row, newest, image, link, look, task>>,
         base' \in [Place -> {None, "normal", "multiattach"}],
         orphan' \in [Place -> {"none", "left", "refused"}]
  PROVE  Shape'
BY DEF Shape, TypeOK, Goes

\* The steps of a create and of a machine's delete keep the shape.
LEMMA ShapeCreate ==
  ASSUME Shape, NEW m \in Machine, CreateStep(m) \/ DeleteMachine(m)
  PROVE  Shape'
<1> USE BoxAssumption DEF Shape, TypeOK, BuildRecord, Goes, Still
<1>1. CASE FindBase(m)
  BY <1>1 DEF FindBase
<1>2. CASE CloneBase(m)
  <2>1. build[m].at \in Place /\ build[m] \in BuildRecord
    BY <1>2 DEF CloneBase
  <2>2. base' \in [Place -> {None, "normal", "multiattach"}] /\ orphan' = orphan
    BY <1>2, <2>1 DEF CloneBase
  <2>3. Goes(m, [build[m] EXCEPT !.step = "type"]) \/ Goes(m, NoBuild)
    BY <1>2 DEF CloneBase
  <2>4. UNCHANGED <<row, newest, image, link, look, task>>
    BY <1>2 DEF CloneBase
  <2>5. PICK b \in BuildRecord : Goes(m, b) /\ b.step # "stamp" /\ (b.step # "idle" => b.at \in Place)
    BY <2>1, <2>3 DEF NoBuild
  <2> QED BY <2>2, <2>4, <2>5, ShapeGoes
<1>3. CASE ShareBase(m)
  <2>1. build[m].at \in Place /\ build[m] \in BuildRecord
    BY <1>3 DEF ShareBase
  <2>2. orphan[build[m].at] \in {"none", "left", "refused"}
    BY <2>1
  <2>3. /\ orphan' \in [Place -> {"none", "left", "refused"}]
        /\ base' \in [Place -> {None, "normal", "multiattach"}]
    BY <1>3, <2>1, <2>2, SweepEffect DEF ShareBase, SweepOrphans
  <2>4. Goes(m, [build[m] EXCEPT !.step = "attach"]) \/ Goes(m, NoBuild)
    BY <1>3 DEF ShareBase
  <2>5. UNCHANGED <<row, newest, image, link, look, task>>
    BY <1>3 DEF ShareBase
  <2>6. PICK b \in BuildRecord : Goes(m, b) /\ b.step # "stamp" /\ (b.step # "idle" => b.at \in Place)
    BY <2>1, <2>4 DEF NoBuild
  <2> QED BY <2>3, <2>5, <2>6, ShapeGoes
<1>4. CASE Attach(m)
  <2>1. build[m].at \in Place /\ build[m] \in BuildRecord
    BY <1>4 DEF Attach
  <2>2. CASE HasChild(build[m].at)
    BY <1>4, <2>1, <2>2 DEF Attach
  <2>3. CASE ~HasChild(build[m].at)
    BY <1>4, <2>3 DEF Attach, NoBuild
  <2> QED BY <2>2, <2>3
<1>5. CASE CallFails(m)
  BY <1>5 DEF CallFails, NoBuild
<1>6. CASE Finish(m)
  <2>1. /\ build' = [build EXCEPT ![m] = NoBuild]
        /\ UNCHANGED <<row, newest, image, base, look, task>>
    BY <1>6 DEF Finish
  <2>2. \A q \in Machine : build'[q].step # "idle" => build'[q] = build[q] /\ q # m
    BY <2>1 DEF NoBuild
  <2>3. /\ link' \in [Machine -> Place \cup {None}]
        /\ \A q \in Machine \ {m} : link'[q] = link[q]
    BY <1>6 DEF Finish
  <2>4. orphan' \in [Place -> {"none", "left", "refused"}]
    BY <1>6 DEF Finish
  <2>5. build' \in [Machine -> BuildRecord]
    BY <2>1 DEF NoBuild
  <2> QED BY <2>1, <2>2, <2>3, <2>4, <2>5
<1>7. CASE DeleteMachine(m)
  BY <1>7 DEF DeleteMachine, NoBuild
<1> QED BY <1>1, <1>2, <1>3, <1>4, <1>5, <1>6, <1>7 DEF CreateStep

\* Every step keeps the shape.
LEMMA ShapeStep == Shape /\ [Next]_boxVars => Shape'
<1> SUFFICES ASSUME Shape, [Next]_boxVars PROVE Shape'
  OBVIOUS
<1>1. CASE HandlerLooks
  BY <1>1, Readers, ShapeLookup DEF HandlerLooks
<1>2. CASE \E a \in Reader \ {Worker} : LookupStep(a)
  BY <1>2, ShapeLookup
<1>3. CASE StartDownload \/ Fetch \/ FetchFails \/ StartMove \/ StartDelete
  BY <1>3, ShapeTask
<1>4. CASE TaskStep
  BY <1>4, Readers, ShapeLookup, ShapeTask DEF TaskStep, DownloadLooks
<1>5. CASE \E m \in Machine : CreateLooks(m) \/ CreateStep(m) \/ DeleteMachine(m)
  BY <1>5, Readers, ShapeLookup, ShapeCreate DEF CreateLooks
<1>6. CASE RemovedByHand
  BY <1>6 DEF RemovedByHand, Happens, Shape, TypeOK
<1>7. CASE Crash
  BY <1>7, BoxAssumption
     DEF Crash, Happens, Shape, TypeOK, NoBuild, NoTask, BuildRecord, TaskRecord, Ops, TaskSteps
<1>8. CASE UNCHANGED boxVars
  BY <1>8 DEF boxVars, Shape, TypeOK
<1> QED BY <1>1, <1>2, <1>3, <1>4, <1>5, <1>6, <1>7, <1>8 DEF Next

-----------------------------------------------------------------------------
(* A base in use *)

\* What leaves the bases, the children, the links and a delete at its base alone keeps BaseInv.
LEMMA BaseKept ==
  ASSUME BaseInv, UNCHANGED <<ordered, base, orphan, link>>,
         task' = task \/ task'.op # "delete" \/ task'.step # "base"
  PROVE  BaseInv'
BY DEF BaseInv, LinkedBaseStays, Unlinked

\* No step of a lookup touches a base.
LEMMA BaseLookup ==
  ASSUME Shape, BaseInv, NEW a \in Reader, Read(a) \/ LookupStep(a)
  PROVE  BaseInv'
<1>1. UNCHANGED <<ordered, base, orphan, link>>
  BY DEF Read, LookupStep, Stat, DropStale
<1>2. task' = task \/ task'.step # "base"
  BY Readers DEF Read, LookupStep, Stat, DropStale, Answer, NoTask, Shape, TaskRecord
<1> QED BY <1>1, <1>2, BaseKept

\* Of the template task the gate of a delete and the removal of its base do (templateDelete).
LEMMA BaseTask ==
  ASSUME Shape, BaseInv,
         \/ StartDownload \/ Fetch \/ FetchFails \/ CreateTemplate
         \/ StartMove \/ MoveImage \/ RemoveSource \/ SetTemplateDiskPath
         \/ StartDelete \/ ChildrenGate \/ RemoveBase \/ RemoveImage \/ DeleteTemplate
  PROVE  BaseInv'
<1>1. CASE ChildrenGate
  <2>1. CASE base[task.at] = None \/ ListingFails
    <3>1. UNCHANGED <<ordered, base, orphan, link>> /\ task'.step # "base"
      BY <1>1, <2>1 DEF ChildrenGate, ListingFails, NoTask, Shape, TaskRecord
    <3> QED BY <3>1, BaseKept
  <2>2. CASE base[task.at] # None /\ ~ListingFails
    <3>1. task.at \in Place /\ orphan[task.at] \in {"none", "left", "refused"} /\ task \in TaskRecord
      BY <1>1 DEF ChildrenGate, Shape, TypeOK
    <3>2. /\ UNCHANGED <<ordered, base, link>>
          /\ \/ /\ task'.step = "base" /\ task'.at = task.at /\ Holders(task.at) = {}
                /\ Sweep(task.at, "refused")
             \/ task'.step # "base" /\ Sweep(task.at, orphan[task.at])
      BY <1>1, <2>2, <3>1 DEF ChildrenGate, NoTask, TaskRecord
    <3>3. /\ \A q \in Place \ {task.at} : orphan'[q] = orphan[q]
          /\ orphan'[task.at] \in {"none", "refused", orphan[task.at]}
      BY <3>1, <3>2, SweepEffect
    <3>4. task'.step = "base" => orphan'[task'.at] # "left"
      BY <3>1, <3>2, SweepEffect
    <3>5. \A q \in Place : orphan'[q] = "left" => orphan[q] = "left"
      BY <3>3
    <3> QED BY <3>2, <3>4, <3>5 DEF BaseInv, LinkedBaseStays, Unlinked, Holders
  <2> QED BY <2>1, <2>2
<1>2. CASE RemoveBase
  <2>1. /\ UNCHANGED <<ordered, orphan, link>> /\ task'.step # "base"
        /\ base' = base \/ base' = [base EXCEPT ![task.at] = None]
    BY <1>2 DEF RemoveBase, Removal, Happens, Shape, TaskRecord
  <2>2. SUFFICES ASSUME ordered PROVE LinkedBaseStays'
    BY <2>1 DEF BaseInv, Unlinked
  <2>3. orphan[task.at] # "left" /\ \A m \in Machine : link[m] # task.at
    BY <1>2, <2>2 DEF BaseInv, Unlinked, RemoveBase
  <2> QED BY <2>1, <2>2, <2>3 DEF BaseInv, LinkedBaseStays, Shape, TypeOK
<1>3. CASE StartDownload \/ Fetch \/ FetchFails \/ CreateTemplate
  <2>1. UNCHANGED <<ordered, base, orphan, link>>
    BY <1>3 DEF StartDownload, Fetch, FetchFails, CreateTemplate
  <2>2. \/ task'.step = "look"
        \/ task' = [task EXCEPT !.step = "record"]
        \/ task' = NoTask
    BY <1>3 DEF StartDownload, Fetch, FetchFails, CreateTemplate, NoTask
  <2>3. task \in TaskRecord
    BY DEF Shape
  <2>4. task'.step # "base"
    BY <2>2, <2>3 DEF NoTask, TaskRecord, Ops, TaskSteps
  <2> QED BY <2>1, <2>4, BaseKept
<1>4. CASE StartMove \/ MoveImage \/ RemoveSource \/ SetTemplateDiskPath
  <2>1. UNCHANGED <<ordered, base, orphan, link>>
    BY <1>4 DEF StartMove, MoveImage, RemoveSource, SetTemplateDiskPath
  <2>2. \/ task'.op = "move" /\ task'.step = "move"
        \/ task' = [task EXCEPT !.step = "row"] \/ task' = [task EXCEPT !.step = "source"]
        \/ task' = NoTask
    BY <1>4 DEF StartMove, MoveImage, RemoveSource, SetTemplateDiskPath
  <2>3. task \in TaskRecord
    BY DEF Shape
  <2>4. task'.step # "base"
    BY <2>2, <2>3 DEF NoTask, TaskRecord, Ops, TaskSteps
  <2> QED BY <2>1, <2>4, BaseKept
<1>5. CASE StartDelete \/ RemoveImage \/ DeleteTemplate
  <2>1. UNCHANGED <<ordered, base, orphan, link>>
    BY <1>5 DEF StartDelete, RemoveImage, DeleteTemplate
  <2>2. task'.step = "gate" \/ task' = [task EXCEPT !.step = "row"] \/ task' = NoTask
    BY <1>5 DEF StartDelete, RemoveImage, DeleteTemplate, NoTask
  <2>3. task \in TaskRecord
    BY DEF Shape
  <2>4. task'.step # "base"
    BY <2>2, <2>3 DEF NoTask, TaskRecord, Ops, TaskSteps
  <2> QED BY <2>1, <2>4, BaseKept
<1> QED BY <1>1, <1>2, <1>3, <1>4, <1>5

\* A create links to a base it shares, and not to one that a delete removes (attachInlineStorage).
LEMMA BaseCreate ==
  ASSUME Shape, BaseInv, NEW m \in Machine, CreateStep(m) \/ DeleteMachine(m)
  PROVE  BaseInv'
<1> SUFFICES ASSUME ordered PROVE (LinkedBaseStays /\ Unlinked)'
  BY DEF CreateStep, FindBase, CloneBase, ShareBase, Attach, CallFails, Finish, DeleteMachine,
         Still, BaseInv
<1> USE DEF BaseInv, LinkedBaseStays, Unlinked, Shape, TypeOK, Goes, Still
<1>1. CASE FindBase(m)
  BY <1>1 DEF FindBase
<1>2. CASE CloneBase(m)
  BY <1>2, BoxAssumption DEF CloneBase
<1>3. CASE ShareBase(m)
  <2>1. build[m].at \in Place
    BY <1>3 DEF ShareBase
  <2>2. CASE base[build[m].at] = None
    BY <1>3, <2>2 DEF ShareBase
  <2>3. CASE base[build[m].at] # None
    <3>1. orphan[build[m].at] \in {"none", "left", "refused"}
      BY <2>1
    <3>2. \A q \in Place : orphan'[q] = "left" => orphan[q] = "left"
      BY <1>3, <2>1, <2>3, <3>1, SweepEffect DEF ShareBase, SweepOrphans
    <3>3. /\ base' = [base EXCEPT ![build[m].at] = "multiattach"]
          /\ UNCHANGED <<ordered, link, task>>
      BY <1>3, <2>3 DEF ShareBase
    <3>4. task.op = "delete" /\ task.step = "base" => task.at \in Place
      OBVIOUS
    <3> QED BY <3>2, <3>3, <3>4
  <2> QED BY <2>2, <2>3
<1>4. CASE Attach(m)
  <2>1. CASE HasChild(build[m].at)
    BY <1>4, <2>1 DEF Attach, HasChild
  <2>2. CASE ~HasChild(build[m].at)
    BY <1>4, <2>2 DEF Attach
  <2> QED BY <2>1, <2>2
<1>5. CASE CallFails(m)
  BY <1>5 DEF CallFails
<1>6. CASE Finish(m)
  <2>1. link[m] \in Place /\ link[m] # None /\ base[link[m]] = "multiattach"
    BY <1>6, BoxAssumption DEF Finish
  <2> QED BY <1>6, <2>1, BoxAssumption DEF Finish
<1>7. CASE DeleteMachine(m)
  BY <1>7, BoxAssumption DEF DeleteMachine
<1> QED BY <1>1, <1>2, <1>3, <1>4, <1>5, <1>6, <1>7 DEF CreateStep

\* Every step keeps BaseInv.
LEMMA BaseStep == Shape /\ BaseInv /\ [Next]_boxVars => BaseInv'
<1> SUFFICES ASSUME Shape, BaseInv, [Next]_boxVars PROVE BaseInv'
  OBVIOUS
<1>1. CASE HandlerLooks
  BY <1>1, Readers, BaseLookup DEF HandlerLooks
<1>2. CASE \E a \in Reader \ {Worker} : LookupStep(a)
  BY <1>2, BaseLookup
<1>3. CASE StartDownload \/ Fetch \/ FetchFails \/ StartMove \/ StartDelete
  BY <1>3, BaseTask
<1>4. CASE TaskStep
  BY <1>4, Readers, BaseLookup, BaseTask DEF TaskStep, DownloadLooks
<1>5. CASE \E m \in Machine : CreateLooks(m) \/ CreateStep(m) \/ DeleteMachine(m)
  BY <1>5, Readers, BaseLookup, BaseCreate DEF CreateLooks
<1>6. CASE RemovedByHand
  BY <1>6, BaseKept DEF RemovedByHand
<1>7. CASE Crash
  BY <1>7, BaseKept DEF Crash, NoTask
<1>8. CASE UNCHANGED boxVars
  BY <1>8, BaseKept DEF boxVars
<1> QED BY <1>1, <1>2, <1>3, <1>4, <1>5, <1>6, <1>7, <1>8 DEF Next

\* Variables stay well formed, and a template delete that no create runs into takes no base that
\* a boot disk links from, nor one with a child that has not withstood its removal (templateDelete).
THEOREM BaseInUse == Spec => []LinkedBaseKept
<1>1. Init => Shape /\ BaseInv
  BY ShapeInit, BoxAssumption DEF Init, BaseInv, LinkedBaseStays, Unlinked, NoTask
<1>2. Shape /\ BaseInv /\ [Next]_boxVars => (Shape /\ BaseInv)'
  BY ShapeStep, BaseStep
<1>3. Shape /\ BaseInv => LinkedBaseKept
  BY DEF Shape, BaseInv, LinkedBaseKept
<1> QED BY <1>1, <1>2, <1>3, PTL DEF Spec

-----------------------------------------------------------------------------
(* Stale rows *)

\* What an answer leaves of the task (Answer).
LEMMA TaskAnswer ==
  ASSUME NEW a \in Reader, NEW at, Answer(a, at)
  PROVE  IF a # Worker THEN task' = task
         ELSE task' = IF at = None THEN [task EXCEPT !.step = "fetch"] ELSE NoTask
BY Readers DEF Answer

\* A reader takes the row as it is (FindTemplate).
LEMMA LookRead ==
  ASSUME Shape, LookInv, NEW a \in Reader, Read(a),
         a = Worker => task.op = "download" /\ task.step = "look"
  PROVE  LookInv'
<1> USE DEF LookInv, Shape, TypeOK
<1>1. CASE row = None
  <2>1. UNCHANGED <<ordered, row, newest, image, look>> /\ Answer(a, None)
    BY <1>1 DEF Read
  <2>2. task' = task \/ (a = Worker /\ task' = [task EXCEPT !.step = "fetch"])
    BY <2>1, TaskAnswer
  <2>3. task'.op = task.op
    BY <2>2 DEF TaskRecord
  <2>4. IdsInv' /\ ReadInv'
    BY <2>1, <2>3 DEF IdsInv, ReadInv, Current
  <2>5. look[Worker] = None \/ task' = task
    BY <2>2 DEF Read
  <2>6. WorkerInv'
    BY <1>1, <2>1, <2>5 DEF WorkerInv
  <2> QED BY <2>4, <2>6
<1>2. CASE row # None
  <2>1. /\ look' = [look EXCEPT ![a] = [id |-> row.id, at |-> row.at, step |-> "read"]]
        /\ UNCHANGED <<ordered, row, newest, image, task>>
        /\ ordered => task.op # "move"
    BY <1>2 DEF Read
  <2>2. IdsInv'
    BY <1>2, <2>1 DEF IdsInv
  <2>3. WorkerInv'
    BY <1>2, <2>1, Readers DEF WorkerInv
  <2>4. ReadInv'
    BY <1>2, <2>1 DEF ReadInv, Current
  <2> QED BY <2>2, <2>3, <2>4
<1> QED BY <1>1, <1>2

\* A reader that misses the image has missed the one its row names (FindTemplate).
LEMMA LookStat == ASSUME Shape, LookInv, NEW a \in Reader, Stat(a) PROVE LookInv'
<1> USE DEF LookInv, Shape, TypeOK
<1>1. UNCHANGED <<ordered, row, newest, image>> /\ look[a] # None /\ look[a] \in LookRecord
  BY DEF Stat
<1>2. CASE look[a].at \in image
  <2>1. look' = [look EXCEPT ![a] = None] /\ Answer(a, look[a].at) /\ look[a].at # None
    BY <1>1, <1>2, BoxAssumption DEF Stat, LookRecord
  <2>2. IF a # Worker THEN task' = task ELSE task' = NoTask
    BY <2>1, TaskAnswer
  <2>3. IdsInv'
    BY <1>1, <2>1 DEF IdsInv
  <2>4. WorkerInv'
    BY <1>1, <2>1, <2>2, Readers DEF WorkerInv, NoTask
  <2>5. ReadInv'
    BY <1>1, <2>1, <2>2 DEF ReadInv, Current, NoTask
  <2> QED BY <2>3, <2>4, <2>5
<1>3. CASE look[a].at \notin image
  <2>1. look' = [look EXCEPT ![a].step = "missed"] /\ task' = task
    BY <1>3 DEF Stat
  <2>2. look'[a].id = look[a].id /\ look'[a].at = look[a].at
    BY <1>1, <2>1 DEF LookRecord
  <2>3. \A b \in Reader : b # a => look'[b] = look[b]
    BY <2>1
  <2>4. IdsInv'
    BY <1>1, <2>2, <2>3 DEF IdsInv
  <2>5. WorkerInv'
    BY <1>1, <2>1, <2>2, <2>3, Readers DEF WorkerInv
  <2>6. ReadInv'
    BY <1>1, <1>3, <2>1, <2>2, <2>3 DEF ReadInv, Current
  <2> QED BY <2>4, <2>5, <2>6
<1> QED BY <1>2, <1>3

\* The row that is deleted is the one that was read (FindTemplate).
LEMMA LookDrop == ASSUME Shape, LookInv, NEW a \in Reader, DropStale(a) PROVE LookInv'
<1> USE DEF LookInv, Shape, TypeOK
<1>1. /\ look[a] # None /\ look' = [look EXCEPT ![a] = None] /\ Answer(a, None)
      /\ UNCHANGED <<ordered, newest, image>>
      /\ row' = None \/ (row' = row /\ row.id # look[a].id)
  BY DEF DropStale, RowWithout
<1>2. task' = task \/ (a = Worker /\ task' = [task EXCEPT !.step = "fetch"])
  BY <1>1, TaskAnswer
<1>3. task'.op = task.op
  BY <1>2 DEF TaskRecord
<1>4. IdsInv'
  <2>1. \A b \in Reader : look'[b] # None => look'[b] = look[b]
    BY <1>1
  <2>2. row' # None => row' = row
    BY <1>1
  <2> QED BY <1>1, <2>1, <2>2 DEF IdsInv
<1>5. WorkerInv'
  <2>1. CASE a = Worker
    BY <1>1, <2>1, Readers DEF WorkerInv
  <2>2. CASE a # Worker
    BY <1>1, <1>2, <2>2, Readers DEF WorkerInv
  <2> QED BY <2>1, <2>2
<1>6. ReadInv'
  BY <1>1, <1>3 DEF ReadInv, Current
<1> QED BY <1>4, <1>5, <1>6

\* What leaves the readers, the row and its id alone and takes images only keeps LookInv, when the
\* task goes on past the worker's lookup or is none of the two that the lookups meet.
LEMMA LookKept ==
  ASSUME LookInv, UNCHANGED <<ordered, row, newest, look>>, image' \subseteq image,
         \/ task' = task
         \/ look[Worker] = None /\ task'.op \in {"none", "delete"}
  PROVE  LookInv'
BY DEF LookInv, IdsInv, WorkerInv, ReadInv, Current

\* While the task is past the worker's lookup, the worker reads nothing.
LEMMA WorkerReads ==
  LookInv /\ ~(task.op = "download" /\ task.step = "look") => look[Worker] = None
BY DEF LookInv, WorkerInv

\* A pull finds no row, and the row it makes is nobody's that was read (templateDownload).
LEMMA LookDownload ==
  ASSUME Shape, LookInv, StartDownload \/ Fetch \/ FetchFails \/ CreateTemplate
  PROVE  LookInv'
<1> USE DEF LookInv, Shape, TypeOK
<1>1. look[Worker] = None
  BY WorkerReads DEF StartDownload, NoTask, Fetch, FetchFails, CreateTemplate
<1>2. CASE StartDownload
  BY <1>1, <1>2 DEF StartDownload, NoTask, IdsInv, WorkerInv, ReadInv, Current
<1>3. CASE Fetch
  <2>1. /\ UNCHANGED <<ordered, row, newest, look>> /\ row = None
        /\ task' = [task EXCEPT !.step = "record"] /\ task.op = "download"
    BY <1>3 DEF Fetch, WorkerInv
  <2>2. task'.op = "download"
    BY <2>1 DEF TaskRecord
  <2> QED BY <1>1, <2>1, <2>2 DEF IdsInv, WorkerInv, ReadInv, Current
<1>4. CASE FetchFails
  BY <1>1, <1>4, LookKept DEF FetchFails, NoTask
<1>5. CASE CreateTemplate
  <2>1. /\ UNCHANGED <<ordered, image, look>> /\ task' = NoTask
        /\ row' = [id |-> newest + 1, at |-> Library] /\ newest' = newest + 1
    BY <1>5 DEF CreateTemplate, WorkerInv, NextId
  <2>2. \A b \in Reader : look[b] # None => look[b].id \in Nat /\ look[b].id <= newest
    BY DEF IdsInv, LookRecord
  <2>3. IdsInv'
    BY <2>1, <2>2 DEF IdsInv
  <2>4. WorkerInv'
    BY <1>1, <2>1 DEF WorkerInv, NoTask
  <2>5. ReadInv'
    BY <2>1, <2>2 DEF ReadInv, Current, NoTask
  <2> QED BY <2>3, <2>4, <2>5
<1> QED BY <1>2, <1>3, <1>4, <1>5

\* A move has no reader beside it while it is ordered (templateMove).
LEMMA LookMove ==
  ASSUME Shape, LookInv, StartMove \/ MoveImage \/ RemoveSource \/ SetTemplateDiskPath
  PROVE  LookInv'
<1> USE DEF Shape, TypeOK
<1>1. look[Worker] = None
  BY WorkerReads DEF StartMove, NoTask, MoveImage, RemoveSource, SetTemplateDiskPath
<1>2. UNCHANGED <<ordered, newest, look>> /\ (ordered => \A b \in Reader : look[b] = None)
  BY DEF StartMove, Looking, MoveImage, RemoveSource, SetTemplateDiskPath, LookInv, ReadInv
<1>3. row' # None => row # None /\ row'.id = row.id
  BY DEF StartMove, MoveImage, RemoveSource, SetTemplateDiskPath, RowAt, Row
<1>4. task'.op # "download"
  BY DEF StartMove, MoveImage, RemoveSource, SetTemplateDiskPath, NoTask, TaskRecord
<1> QED BY <1>1, <1>2, <1>3, <1>4 DEF LookInv, IdsInv, WorkerInv, ReadInv

\* A delete takes an image and a row, and no lookup minds (templateDelete).
LEMMA LookDelete ==
  ASSUME Shape, LookInv,
         StartDelete \/ ChildrenGate \/ RemoveBase \/ RemoveImage \/ DeleteTemplate
  PROVE  LookInv'
<1> USE DEF Shape, TypeOK
<1>1. look[Worker] = None
  BY WorkerReads
     DEF StartDelete, NoTask, ChildrenGate, RemoveBase, RemoveImage, DeleteTemplate
<1>2. UNCHANGED <<ordered, newest, look>> /\ image' \subseteq image
  BY DEF StartDelete, ChildrenGate, RemoveBase, RemoveImage, Removal, DeleteTemplate
<1>3. row' = row \/ row' = None
  BY DEF StartDelete, ChildrenGate, RemoveBase, RemoveImage, DeleteTemplate, RowWithout
<1>4. task'.op \in {"none", "delete"}
  <2>1. CASE StartDelete
    <3>1. task' = [op |-> "delete", step |-> "gate", id |-> row.id, at |-> row.at, to |-> None]
      BY <2>1 DEF StartDelete, NoTask
    <3> QED BY <3>1
  <2>2. CASE ChildrenGate
    BY <2>2 DEF ChildrenGate, ListingFails, NoTask, TaskRecord
  <2>3. CASE RemoveBase \/ RemoveImage
    BY <2>3 DEF RemoveBase, RemoveImage, TaskRecord
  <2>4. CASE DeleteTemplate
    BY <2>4 DEF DeleteTemplate, NoTask
  <2> QED BY <2>1, <2>2, <2>3, <2>4
<1> QED BY <1>1, <1>2, <1>3, <1>4 DEF LookInv, IdsInv, WorkerInv, ReadInv, Current

\* Every step keeps LookInv.
LEMMA LookStep == Shape /\ LookInv /\ [Next]_boxVars => LookInv'
<1> SUFFICES ASSUME Shape, LookInv, [Next]_boxVars PROVE LookInv'
  OBVIOUS
<1>1. CASE HandlerLooks
  BY <1>1, Readers, LookRead DEF HandlerLooks
<1>2. CASE \E a \in Reader \ {Worker} : LookupStep(a)
  BY <1>2, LookStat, LookDrop DEF LookupStep
<1>3. CASE StartDownload \/ Fetch \/ FetchFails \/ StartMove \/ StartDelete
  BY <1>3, LookDownload, LookMove, LookDelete
<1>4. CASE TaskStep
  <2>1. CASE DownloadLooks \/ LookupStep(Worker)
    BY <2>1, Readers, LookRead, LookStat, LookDrop DEF DownloadLooks, LookupStep
  <2> QED BY <1>4, <2>1, LookDownload, LookMove, LookDelete DEF TaskStep
<1>5. CASE \E m \in Machine : CreateLooks(m) \/ CreateStep(m) \/ DeleteMachine(m)
  <2> PICK m \in Machine : CreateLooks(m) \/ CreateStep(m) \/ DeleteMachine(m)
    BY <1>5
  <2>1. CASE CreateLooks(m)
    BY <2>1, Readers, LookRead DEF CreateLooks
  <2>2. CASE CreateStep(m) \/ DeleteMachine(m)
    BY <2>2, LookKept DEF CreateStep, FindBase, CloneBase, ShareBase, Attach, CallFails, Finish,
                          DeleteMachine, Still
  <2> QED BY <2>1, <2>2
<1>6. CASE RemovedByHand
  BY <1>6, LookKept DEF RemovedByHand
<1>7. CASE Crash
  BY <1>7, Readers DEF Crash, NoTask, LookInv, IdsInv, WorkerInv, ReadInv
<1>8. CASE UNCHANGED boxVars
  BY <1>8, LookKept DEF boxVars
<1> QED BY <1>1, <1>2, <1>3, <1>4, <1>5, <1>6, <1>7, <1>8 DEF Next

\* A lookup that no move runs beside deletes no row that has its image, whatever is deleted, pulled
\* again, removed or lost beside it (FindTemplate).
THEOREM StaleRows == Spec => StaleRowsOnly
<1>1. Init => Shape /\ LookInv
  BY ShapeInit, Readers DEF Init, LookInv, IdsInv, WorkerInv, ReadInv, NoTask
<1>2. Shape /\ LookInv /\ [Next]_boxVars => (Shape /\ LookInv)'
  BY ShapeStep, LookStep
<1>3. Shape /\ LookInv /\ [Next]_boxVars => [ordered => DropsOnlyStale]_boxVars
  <2> SUFFICES ASSUME LookInv, ordered, NEW a \in Reader, DropStale(a), row' # row
               PROVE  row.at \notin image
    BY DEF DropsOnlyStale
  <2> QED BY DEF LookInv, ReadInv, Current, DropStale, RowWithout
<1> QED BY <1>1, <1>2, <1>3, PTL DEF Spec, StaleRowsOnly
=============================================================================
