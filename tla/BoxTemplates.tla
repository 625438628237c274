----------------------------- MODULE BoxTemplates -----------------------------
(***************************************************************************)
(* The local copy of one box (internal/machines/templates*.go): its row,   *)
(* its disk image, the shared clone base beside the image, and the         *)
(* machines whose boot disks link from that base.                          *)
(*                                                                         *)
(* The queue runs one template task at a time; lookups by handlers and the *)
(* storage and config steps of creates work beside it, without a lock.  A  *)
(* step is one SQL statement, one file operation or one VBoxManage call.   *)
(* A copied boot disk shares nothing with its template: only creates with  *)
(* the clone strategy are here.                                            *)
(***************************************************************************)
EXTENDS Naturals, FiniteSets

CONSTANTS
  Casts,            \* who there may be beside the template task: sets of machines that are created
                    \* with the clone strategy and of the request that looks the box up
  Place,            \* the roots an image may lie under
  Library,          \* the root that downloads write to
  Handler,          \* a request that looks the box up
  Worker,           \* the template task's own lookup
  None,
  MaxRows,          \* bound: the rows there may have been
  MaxEvents         \* bound: deletes, moves, images removed by hand, files that stay and crashes

Machine == (UNION Casts) \ {Handler}
Reader == Machine \cup {Handler, Worker}

VARIABLES
  cast,             \* environment: one of Casts, chosen at the start
  ordered,          \* environment: no move runs beside a lookup, and no create attaches between
                    \* a delete's gate and its removal of the base; chosen at the start
  row,              \* the box's row, or None
  newest,           \* the last id AUTOINCREMENT gave
  image,            \* the roots that hold the image
  base,             \* root -> type of the clone base there, or None
  orphan,           \* root -> whether its base has a differencing child that no machine uses:
                    \* "none", "left", or "refused": it did not let itself be removed by a delete
  link,             \* machine -> the root whose base its boot disk links from, or None
  look,             \* reader -> the row it has read and whether it missed the image, or None
  build,            \* machine -> where its create is
  task,             \* the template task that runs
  events

boxVars == <<cast, ordered, row, newest, image, base, orphan, link, look, build, task, events>>

Row == [id : 1..MaxRows, at : Place]
NoBuild == [step |-> "idle", at |-> None]
NoTask == [op |-> "none", step |-> "idle", id |-> 0, at |-> None, to |-> None]

ASSUME BoxAssumption ==
  /\ Library \in Place /\ None \notin Place \cup {"normal", "multiattach"}
  /\ Handler # Worker /\ Worker \notin UNION Casts
  /\ MaxRows \in Nat

Init ==
  /\ cast \in Casts /\ ordered \in BOOLEAN
  /\ row = None /\ newest = 0 /\ image = {}
  /\ base = [p \in Place |-> None] /\ orphan = [p \in Place |-> "none"]
  /\ link = [m \in Machine |-> None]
  /\ look = [a \in Reader |-> None]
  /\ build = [m \in Machine |-> NoBuild]
  /\ task = NoTask /\ events = 0

Happens == events < MaxEvents /\ events' = events + 1

\* Says how the removal of a file ends: one that does not let itself be removed stays, and the
\* task goes on
Removal(removed, stays) == (removed /\ UNCHANGED events) \/ (stays /\ Happens)

-----------------------------------------------------------------------------
(* The lookup: the row is read, its image is looked for, a row without one is deleted *)

Looking == \E a \in Reader : look[a] # None

\* What the reader does once it has an answer: at is the root of the image, or None
Answer(a, at) ==
  CASE a \in Machine ->
         /\ build' = [build EXCEPT ![a] = IF at = None THEN NoBuild ELSE [step |-> "found", at |-> at]]
         /\ task' = task
    [] a = Worker ->
         /\ task' = IF at = None THEN [task EXCEPT !.step = "fetch"] ELSE NoTask
         /\ build' = build
    [] OTHER -> build' = build /\ task' = task

Read(a) ==
  /\ look[a] = None
  /\ ordered => task.op # "move"
  /\ IF row = None
     THEN look' = look /\ Answer(a, None)
     ELSE look' = [look EXCEPT ![a] = [id |-> row.id, at |-> row.at, step |-> "read"]]
          /\ UNCHANGED <<build, task>>
  /\ UNCHANGED <<cast, ordered, row, newest, image, base, orphan, link, events>>

Stat(a) ==
  /\ look[a] # None /\ look[a].step = "read"
  /\ IF look[a].at \in image
     THEN look' = [look EXCEPT ![a] = None] /\ Answer(a, look[a].at)
     ELSE look' = [look EXCEPT ![a].step = "missed"] /\ UNCHANGED <<build, task>>
  /\ UNCHANGED <<cast, ordered, row, newest, image, base, orphan, link, events>>

\* Slip: the row of the box is deleted, whichever it is by now
RowOfBox(id) == None

\* Slip: a stale row stays
RowKept(id) == row

\* DELETE ... WHERE id = ?
RowWithout(id) == IF row # None /\ row.id = id THEN None ELSE row

DropStale(a) ==
  /\ look[a] # None /\ look[a].step = "missed"
  /\ row' = RowWithout(look[a].id)
  /\ look' = [look EXCEPT ![a] = None] /\ Answer(a, None)
  /\ UNCHANGED <<cast, ordered, newest, image, base, orphan, link, events>>

HandlerLooks == Handler \in cast /\ Read(Handler)

LookupStep(a) == Stat(a) \/ DropStale(a)

-----------------------------------------------------------------------------
(* template_download *)

StartDownload ==
  /\ task = NoTask
  /\ task' = [NoTask EXCEPT !.op = "download", !.step = "look"]
  /\ UNCHANGED <<cast, ordered, row, newest, image, base, orphan, link, look, build, events>>

DownloadLooks == task.op = "download" /\ task.step = "look" /\ Read(Worker)

\* The image is extracted over whatever lies there
Fetch ==
  /\ task.op = "download" /\ task.step = "fetch"
  /\ image' = image \cup {Library}
  /\ task' = [task EXCEPT !.step = "record"]
  /\ UNCHANGED <<cast, ordered, row, newest, base, orphan, link, look, build, events>>

FetchFails ==
  /\ task.op = "download" /\ task.step = "fetch"
  /\ task' = NoTask
  /\ UNCHANGED <<cast, ordered, row, newest, image, base, orphan, link, look, build, events>>

\* Slip: a plain rowid, which is used again
NextFree == 1

NextId == newest + 1

\* The INSERT fails while the tuple has a row
CreateTemplate ==
  /\ task.op = "download" /\ task.step = "record"
  /\ IF row # None THEN UNCHANGED <<row, newest>>
     ELSE /\ NextId <= MaxRows
          /\ row' = [id |-> NextId, at |-> Library] /\ newest' = NextId
  /\ task' = NoTask
  /\ UNCHANGED <<cast, ordered, image, base, orphan, link, look, build, events>>

-----------------------------------------------------------------------------
(* template_move *)

\* The row is there, the target is another root and has no image
StartMove ==
  /\ task = NoTask /\ row # None /\ Happens
  /\ ordered => ~Looking
  /\ \E p \in Place \ ({row.at} \cup image) :
       task' = [op |-> "move", step |-> "move", id |-> row.id, at |-> row.at, to |-> p]
  /\ UNCHANGED <<cast, ordered, row, newest, image, base, orphan, link, look, build>>

\* Renamed on one volume, copied to another; without an image both fail
MoveImage ==
  /\ task.op = "move" /\ task.step = "move"
  /\ IF task.at \notin image THEN task' = NoTask /\ image' = image
     ELSE \/ image' = (image \ {task.at}) \cup {task.to} /\ task' = [task EXCEPT !.step = "row"]
          \/ image' = image \cup {task.to} /\ task' = [task EXCEPT !.step = "source"]
  /\ UNCHANGED <<cast, ordered, row, newest, base, orphan, link, look, build, events>>

RemoveSource ==
  /\ task.op = "move" /\ task.step = "source"
  /\ Removal(image' = image \ {task.at}, image' = image) /\ task' = [task EXCEPT !.step = "row"]
  /\ UNCHANGED <<cast, ordered, row, newest, base, orphan, link, look, build>>

\* UPDATE ... WHERE id = ?
RowAt(id, p) == IF row # None /\ row.id = id THEN [row EXCEPT !.at = p] ELSE row

SetTemplateDiskPath ==
  /\ task.op = "move" /\ task.step = "row"
  /\ row' = RowAt(task.id, task.to) /\ task' = NoTask
  /\ UNCHANGED <<cast, ordered, newest, image, base, orphan, link, look, build, events>>

-----------------------------------------------------------------------------
(* template_delete *)

StartDelete ==
  /\ task = NoTask /\ row # None /\ Happens
  /\ task' = [NoTask EXCEPT !.op = "delete", !.step = "gate", !.id = row.id, !.at = row.at]
  /\ UNCHANGED <<cast, ordered, row, newest, image, base, orphan, link, look, build>>

\* Slip: the base is looked for where downloads go
HoldersAtLibrary(p) == {m \in Machine : link[m] = Library}

\* The machines that hold a child of the base there
Holders(p) == {m \in Machine : link[m] = p}

\* The child at p that no machine uses is gone, or it becomes what a failed removal makes of it
Sweep(p, failed) ==
  orphan' \in {[orphan EXCEPT ![p] = "none"],
              [orphan EXCEPT ![p] = IF @ = "none" THEN "none" ELSE failed]}

\* Without the list of the media the delete fails
ListingFails == base[task.at] # None /\ task' = NoTask /\ orphan' = orphan

\* Children that no machine uses are swept, and one that stays holds nothing up: the base goes,
\* by its file if need be.  A child in use refuses the delete
ChildrenGate ==
  /\ task.op = "delete" /\ task.step = "gate"
  /\ \/ base[task.at] = None /\ task' = [task EXCEPT !.step = "image"] /\ orphan' = orphan
     \/ /\ base[task.at] # None /\ Holders(task.at) = {}
        /\ task' = [task EXCEPT !.step = "base"] /\ Sweep(task.at, "refused")
     \/ /\ base[task.at] # None /\ Holders(task.at) # {}
        /\ task' = NoTask /\ Sweep(task.at, orphan[task.at])
     \/ ListingFails
  /\ UNCHANGED <<cast, ordered, row, newest, image, base, link, look, build, events>>

RemoveBase ==
  /\ task.op = "delete" /\ task.step = "base"
  /\ Removal(base' = [base EXCEPT ![task.at] = None], base' = base)
  /\ task' = [task EXCEPT !.step = "image"]
  /\ UNCHANGED <<cast, ordered, row, newest, image, orphan, link, look, build>>

RemoveImage ==
  /\ task.op = "delete" /\ task.step = "image"
  /\ Removal(image' = image \ {task.at}, image' = image)
  /\ task' = [task EXCEPT !.step = "row"]
  /\ UNCHANGED <<cast, ordered, row, newest, base, orphan, link, look, build>>

DeleteTemplate ==
  /\ task.op = "delete" /\ task.step = "row"
  /\ row' = RowWithout(task.id) /\ task' = NoTask
  /\ UNCHANGED <<cast, ordered, newest, image, base, orphan, link, look, build, events>>

TaskStep ==
  \/ DownloadLooks \/ LookupStep(Worker) \/ CreateTemplate
  \/ MoveImage \/ RemoveSource \/ SetTemplateDiskPath
  \/ ChildrenGate \/ RemoveBase \/ RemoveImage \/ DeleteTemplate

-----------------------------------------------------------------------------
(* The storage and config steps of a create with the clone strategy *)

Goes(m, b) == build' = [build EXCEPT ![m] = b]
Still == UNCHANGED <<cast, ordered, row, newest, image, look, task, events>>

CreateLooks(m) == m \in cast /\ build[m] = NoBuild /\ link[m] = None /\ Read(m)

FindBase(m) ==
  /\ build[m].step = "found"
  /\ Goes(m, [build[m] EXCEPT !.step = IF base[build[m].at] = None THEN "clone" ELSE "type"])
  /\ UNCHANGED <<base, orphan, link>> /\ Still

\* The clone fails without its source, or onto a medium that another create has made meanwhile
CloneBase(m) ==
  /\ build[m].step = "clone"
  /\ LET p == build[m].at IN
       IF p \in image /\ base[p] = None
       THEN base' = [base EXCEPT ![p] = "normal"] /\ Goes(m, [build[m] EXCEPT !.step = "type"])
       ELSE base' = base /\ Goes(m, NoBuild)
  /\ UNCHANGED <<orphan, link>> /\ Still

\* Children of the base that no machine uses are removed, if they and the listing let them
SweepOrphans(p) == Sweep(p, orphan[p])

\* The base is made multiattach, and children that no machine uses are swept
ShareBase(m) ==
  /\ build[m].step = "type"
  /\ LET p == build[m].at IN
       IF base[p] = None THEN Goes(m, NoBuild) /\ UNCHANGED <<base, orphan>>
       ELSE /\ base' = [base EXCEPT ![p] = "multiattach"]
            /\ SweepOrphans(p)
            /\ Goes(m, [build[m] EXCEPT !.step = "attach"])
  /\ link' = link /\ Still

\* Whether an attach there gives the machine a differencing child to stamp
HasChild(p) == base[p] = "multiattach"

\* The config step, a task of its own: without a child the machine is unregistered
Attach(m) ==
  /\ build[m].step = "attach"
  /\ ordered => ~(task.op = "delete" /\ task.step = "base" /\ task.at = build[m].at)
  /\ LET p == build[m].at IN
       IF HasChild(p)
       THEN link' = [link EXCEPT ![m] = p] /\ Goes(m, [build[m] EXCEPT !.step = "stamp"])
       ELSE link' = link /\ Goes(m, NoBuild)
  /\ UNCHANGED <<base, orphan>> /\ Still

\* A call of the hypervisor fails, and the create ends
CallFails(m) ==
  /\ build[m].step \in {"clone", "type", "attach"}
  /\ Goes(m, NoBuild)
  /\ UNCHANGED <<base, orphan, link>> /\ Still

\* What follows succeeds, or the machine is unregistered and its child is left
Finish(m) ==
  /\ build[m].step = "stamp"
  /\ \/ UNCHANGED <<link, orphan>>
     \/ link' = [link EXCEPT ![m] = None] /\ orphan' = [orphan EXCEPT ![link[m]] = "left"]
  /\ Goes(m, NoBuild)
  /\ base' = base /\ Still

\* The delete of a machine destroys the stamped child
DeleteMachine(m) ==
  /\ build[m] = NoBuild /\ look[m] = None /\ link[m] # None
  /\ link' = [link EXCEPT ![m] = None]
  /\ UNCHANGED <<base, orphan, build>> /\ Still

CreateStep(m) ==
  FindBase(m) \/ CloneBase(m) \/ ShareBase(m) \/ Attach(m) \/ CallFails(m)
  \/ Finish(m)

-----------------------------------------------------------------------------

RemovedByHand ==
  /\ Happens
  /\ \E p \in image : image' = image \ {p}
  /\ UNCHANGED <<cast, ordered, row, newest, base, orphan, link, look, build, task>>

\* What ran is lost; the queue starts none of it again
Crash ==
  /\ Happens
  /\ look' = [a \in Reader |-> None] /\ build' = [m \in Machine |-> NoBuild] /\ task' = NoTask
  /\ UNCHANGED <<cast, ordered, row, newest, image, base, orphan, link>>

Next ==
  \/ HandlerLooks \/ \E a \in Reader \ {Worker} : LookupStep(a)
  \/ StartDownload \/ Fetch \/ FetchFails
  \/ StartMove \/ StartDelete \/ TaskStep
  \/ \E m \in Machine : CreateLooks(m) \/ CreateStep(m) \/ DeleteMachine(m)
  \/ RemovedByHand \/ Crash

Spec == Init /\ [][Next]_boxVars

\* Executors and handlers return, the box is pulled again and again and not every pull fails
Fairness ==
  /\ WF_boxVars(TaskStep) /\ SF_boxVars(Fetch) /\ WF_boxVars(StartDownload)
  /\ \A a \in Reader \ {Worker} : WF_boxVars(LookupStep(a))

FairSpec == Spec /\ Fairness

-----------------------------------------------------------------------------
(* Properties *)

TypeOK ==
  /\ row \in Row \cup {None} /\ image \subseteq Place
  /\ base \in [Place -> {None, "normal", "multiattach"}]
  /\ orphan \in [Place -> {"none", "left", "refused"}] /\ link \in [Machine -> Place \cup {None}]

\* The boot disk of a machine keeps the base it links from: "a template whose clone-base ...
\* still feeds differencing children is LIVE infrastructure ... the task refuses naming the
\* holding machines" (machines_provision_templates.go:104).  A child that a failed create left has
\* its base too, until a delete of the template has tried to remove it: when that fails the delete
\* goes on and takes the base from under the child (templateDelete).
LinkedBaseStays ==
  /\ \A m \in Machine : link[m] # None => base[link[m]] = "multiattach"
  /\ \A p \in Place : orphan[p] = "left" => base[p] = "multiattach"

\* It does while no create attaches between the gate and the removal (templateDelete).
LinkedBaseKept == TypeOK /\ (ordered => LinkedBaseStays)

\* A row that a lookup deletes has no image (FindTemplate).
DropsOnlyStale ==
  (\E a \in Reader : DropStale(a)) /\ row' # row => row.at \notin image

\* So it is while no move runs beside a lookup, whatever else was deleted, pulled again or lost.
StaleRowsOnly == [][ordered => DropsOnlyStale]_boxVars

\* A template that was moved is where its row says, or the row is where it was (templateMove).
MoveKeepsRow == [][SetTemplateDiskPath => row' # None /\ row'.at \in image]_boxVars

Usable == row # None /\ row.at \in image

\* A box that is pulled again and again comes to be usable and stays so, whatever was moved,
\* deleted, removed by hand or cut off before (FindTemplate, templateDownload).
PullRestores == <>[]Usable
=============================================================================
