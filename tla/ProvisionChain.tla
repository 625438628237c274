----------------------------- MODULE ProvisionChain -----------------------------
(***************************************************************************)
(* A provisioning run of one machine: the chain of tasks a document is     *)
(* planned into (internal/server/machines_provision_chain.go,              *)
(* machines_provision.go, machines_provision_handlers.go) and its          *)
(* execution up to the stamp that marks the machine provisioned            *)
(* (internal/machines/provision_exec.go).                                  *)
(*                                                                         *)
(* The rows are inserted one by one while the queue already runs the first *)
(* of them.  A row is named by its position in the chain.                  *)
(***************************************************************************)
EXTENDS Naturals, Sequences, FiniteSets

CONSTANTS
  Documents,       \* the stored documents: what a run finds in them
  Runs             \* the kinds of run asked for

VARIABLES
  doc, kind, skipBoot,   \* the run
  status,                \* the machine row's status when the run was planned
  told,                  \* whether that status was true
  chain,                 \* the tasks the run was planned into, in order
  vm,                    \* whether the machine runs
  built,                 \* the rows inserted so far
  refused,               \* an INSERT failed: the chain ends there
  runStatus,             \* the orchestration parent: running or cancelled
  cut,                   \* the rows the run had when it was cancelled
  row,                   \* per position: pending, running, done, cancelled
  stamped                \* provisioner_state.last_provisioned_at was recorded

chainVars ==
  <<doc, kind, skipBoot, status, told, chain, vm, built, refused, runStatus, cut, row, stamped>>

planVars == <<doc, kind, skipBoot, status, told, chain>>

----------------------------------------------------------------------------
(* The plan *)

Times(n, op) == [i \in 1..n |-> op]

\* A response-only entry of the plan is no task
Skip == "skip"

\* A method has two entries at most
MethodSteps(method) ==
  CASE method = "shell" -> <<"shell", Skip>>
    [] method = "ansible" -> IF doc.winrm THEN <<Skip, "remote">> ELSE <<"playbook", "remote">>
    [] method = "docker" -> IF doc.winrm THEN <<Skip, Skip>> ELSE <<"docker", Skip>>
    [] OTHER -> <<Skip, Skip>>

Methods ==
  [i \in 1..(2 * Len(doc.methods)) |-> MethodSteps(doc.methods[(i + 1) \div 2])[2 - (i % 2)]]

\* planWalk: hooks, the methods in the order of their keys, hooks.  A narrowed run
\* names one script and drops the rest.
Walk ==
  IF kind = "narrowed" THEN [i \in DOMAIN Methods |-> IF Methods[i] = "shell" THEN "shell" ELSE Skip]
  ELSE Times(doc.pre, "hook") \o Methods \o Times(doc.post, "hook")

\* The walk's entries that become tasks, the last of them, and the k-th
Real == {i \in DOMAIN Walk : Walk[i] # Skip}
LastReal == IF Real = {} THEN 0 ELSE CHOOSE i \in Real : \A j \in Real : j <= i
RealAt(k) == CHOOSE i \in Real : Cardinality({j \in Real : j < i}) = k - 1

Folders == IF doc.winrm THEN 0 ELSE doc.folders
Back == IF doc.winrm THEN 0 ELSE doc.back

\* Slip: the walk owns the stamp whenever it has a task
WalkFirst == IF LastReal > 0 THEN "walk" ELSE IF Back > 0 THEN "syncback"
             ELSE IF Folders > 0 THEN "sync" ELSE "none"

\* What carries the final flag: the chain's last bracket that has a task
FinalOwner == IF Back > 0 THEN "syncback" ELSE IF LastReal > 0 THEN "walk"
              ELSE IF Folders > 0 THEN "sync" ELSE "none"

Task(op, final, of) == [op |-> op, final |-> final, of |-> of]
Bare(op) == Task(op, FALSE, "run")
When(p, s) == IF p THEN s ELSE <<>>

\* A sub-parent and one child per folder; the last may carry the flag
Bracket(op, n, final) ==
  When(n > 0, <<Bare(op)>> \o [i \in 1..n |-> Task(op, final /\ i = n, "anchor")])

WalkTasks(owns) ==
  [k \in 1..Cardinality(Real) |-> Task(Walk[RealAt(k)], owns /\ RealAt(k) = LastReal, "run")]

Boots == ~skipBoot /\ status # "running"

FullChain ==
  When(doc.package, <<Bare("prepare")>>)
  \o When(Boots, <<Bare("start")>>)
  \o <<Bare("wait_ssh")>>
  \o Bracket("sync", Folders, FinalOwner = "sync")
  \o WalkTasks(FinalOwner = "walk")
  \o Bracket("syncback", Back, FinalOwner = "syncback")
  \o When(doc.rotate /\ ~doc.winrm, <<Bare("key_rotate")>>)
  \o When(doc.cycle # "none", <<Bare("stop")>>)
  \o When(doc.cycle = "remove", <<Bare("transport_remove")>>)
  \o When(doc.cycle # "none", <<Bare("start")>>)

\* The tasks a run is to become; empty where the handler answers an error
Planned ==
  CASE kind = "provision" -> FullChain
    [] kind = "provisioners" -> When(LastReal > 0, <<Bare("anchor")>> \o WalkTasks(TRUE))
    [] kind = "narrowed" -> WalkTasks(FALSE)
    [] kind = "sync" -> Bracket("sync", Folders, FALSE)
    [] kind = "syncback" -> Bracket("syncback", Back, FALSE)

\* Slip: what follows a bracket depends on its anchor
GatesOnAnchor(i) ==
  IF i > 1 /\ chain[i - 1].of = "anchor" /\ chain[i].of = "run"
  THEN CHOOSE j \in 1..(i - 1) : chain[j].of = "run" /\ \A k \in (j + 1)..(i - 1) :
                                                           chain[k].of = "anchor"
  ELSE i - 1

\* Every row depends on the one inserted before it; the first on none
DependsOn(i) == i - 1

----------------------------------------------------------------------------
(* The run *)

Init ==
  /\ doc \in Documents /\ kind \in Runs
  /\ skipBoot \in IF kind = "provision" THEN BOOLEAN ELSE {FALSE}
  /\ vm \in IF kind = "provision" THEN BOOLEAN ELSE {TRUE}
  /\ status \in IF kind = "provision" THEN {"running", "stopped"} ELSE {"running"}
  /\ told = ((status = "running") = vm) /\ chain = Planned
  /\ built = 0 /\ refused = FALSE /\ runStatus = "running" /\ cut = 0
  /\ row = <<>> /\ stamped = FALSE

Insert ==
  /\ built < Len(chain) /\ ~refused
  /\ built' = built + 1
  /\ row' = Append(row, "pending")
  /\ UNCHANGED <<planVars, vm, refused, runStatus, cut, stamped>>

\* Cancel of the anchor: the children that name it as their parent
CascadeChildren == {i \in DOMAIN row : row[i] \in {"pending", "running"} /\ chain[i].of = "run"}

CancelParent ==
  /\ runStatus' = "cancelled" /\ cut' = built
  /\ row' = [i \in DOMAIN row |-> IF i \in CascadeChildren THEN "cancelled" ELSE row[i]]

\* A failed INSERT cancels the half-built run; the ad-hoc runs just answer an error
InsertFails ==
  /\ built < Len(chain) /\ ~refused
  /\ refused' = TRUE
  /\ IF kind = "provision" /\ runStatus = "running" THEN CancelParent
     ELSE UNCHANGED <<runStatus, cut, row>>
  /\ UNCHANGED <<planVars, vm, built, stamped>>

\* DELETE of the orchestration task
CancelRun ==
  /\ kind = "provision" /\ runStatus = "running"
  /\ \E i \in DOMAIN row : row[i] \in {"pending", "running"}
  /\ CancelParent
  /\ UNCHANGED <<planVars, vm, built, refused, stamped>>

Ready(i) == row[i] = "pending" /\ (DependsOn(i) # 0 => row[DependsOn(i)] = "done")

\* The queue runs one task of the machine at a time
Run ==
  /\ \A i \in DOMAIN row : row[i] # "running"
  /\ \E i \in DOMAIN row :
       /\ Ready(i)
       /\ row' = [row EXCEPT ![i] = "running"]
  /\ UNCHANGED <<planVars, vm, built, refused, runStatus, cut, stamped>>

\* What an operation needs of the machine, and what it leaves
Works(op) == CASE op = "start" -> ~vm [] op = "stop" -> vm [] op = "prepare" -> TRUE
               [] op = "transport_remove" -> ~vm [] OTHER -> TRUE
Leaves(op) == CASE op = "start" -> TRUE [] op = "stop" -> FALSE [] OTHER -> vm

\* stampIfFinal is the last thing a step does
Succeed ==
  /\ \E i \in DOMAIN row :
       /\ row[i] = "running" /\ Works(chain[i].op)
       /\ row' = [row EXCEPT ![i] = "done"]
       /\ vm' = Leaves(chain[i].op)
       /\ stamped' = (stamped \/ chain[i].final)
  /\ UNCHANGED <<planVars, built, refused, runStatus, cut>>

\* A failure and the cancellation of what depends on it look alike from here
Fail ==
  /\ \E i \in DOMAIN row :
       /\ row[i] = "running" \/ (row[i] = "pending" /\ DependsOn(i) # 0
                                 /\ row[DependsOn(i)] = "cancelled")
       /\ row' = [row EXCEPT ![i] = "cancelled"]
  /\ UNCHANGED <<planVars, vm, built, refused, runStatus, cut, stamped>>

Next == Insert \/ InsertFails \/ CancelRun \/ Run \/ Succeed \/ Fail

Spec == Init /\ [][Next]_chainVars

----------------------------------------------------------------------------
(* Properties *)

\* The types of the variables.
TypeOK ==
  /\ doc \in Documents /\ kind \in Runs /\ skipBoot \in BOOLEAN /\ vm \in BOOLEAN
  /\ status \in {"running", "stopped"} /\ told \in BOOLEAN /\ cut \in 0..built /\ refused \in BOOLEAN /\ stamped \in BOOLEAN
  /\ runStatus \in {"running", "cancelled"}
  /\ built = Len(row) /\ built <= Len(chain)
  /\ \A i \in DOMAIN row : row[i] \in {"pending", "running", "done", "cancelled"}

Starts(i) == i \in DOMAIN row /\ row[i] = "pending" /\ row'[i] = "running"

\* No task of a run overtakes an earlier one: "a playbook overtake the folder
\* syncs" (buildProvisionChain gates on the last child, never on the anchor).
DocumentOrder ==
  [][\A i \in DOMAIN row : Starts(i) => \A j \in 1..(i - 1) : row[j] = "done"]_chainVars

DocumentOps == {"sync", "hook", "shell", "playbook", "remote", "docker", "syncback"}

ChainOps ==
  DocumentOps \cup {"anchor", "prepare", "wait_ssh", "start", "stop", "transport_remove", "key_rotate"}

\* What the planner promises of every plan: the flag is on a step of the document, on the
\* last of them, on none only where nothing is to be stamped; the wait for SSH comes after
\* the boot, if the run boots, and before any stop (finalOwner, lastRealWalk,
\* buildProvisionChain).
PlanSound ==
  /\ chain \in Seq([op : ChainOps, final : BOOLEAN, of : {"run", "anchor"}])
  /\ \A f \in DOMAIN chain : chain[f].final
       => /\ chain[f].op \in DocumentOps
          /\ \A i \in DOMAIN chain : chain[i].op \in DocumentOps => i <= f
  /\ kind \in {"provision", "provisioners"} /\ (\E i \in DOMAIN chain : chain[i].op \in DocumentOps)
       => \E f \in DOMAIN chain : chain[f].final
  /\ \A i \in DOMAIN chain : chain[i].op = "wait_ssh"
       => /\ \A j \in 1..(i - 1) : chain[j].op # "stop"
          /\ Boots => \E j \in 1..(i - 1) : chain[j].op = "start"

\* The stamp proves the whole walk: a machine is marked provisioned only when every
\* step of the document the run carries is done (stampIfFinal).
StampLast ==
  stamped => \A i \in DOMAIN chain : chain[i].op \in DocumentOps
               => i \in DOMAIN row /\ row[i] = "done"

\* A run that is to mark its machine and went through without a failure has marked
\* it, unless there was nothing to execute (finalOwner, lastRealWalk).
StampComplete ==
  (kind \in {"provision", "provisioners"} /\ built = Len(chain) /\ built > 0
   /\ \A i \in DOMAIN row : row[i] = "done")
     => (stamped <=> \E i \in DOMAIN chain : chain[i].op \in DocumentOps)

WaitsForRunning ==
  \A i \in DOMAIN row : row[i] = "running" /\ chain[i].op = "wait_ssh" => vm

\* A run that may boot its machine waits for SSH only once the machine runs, given
\* that the row's status was true when the run was planned.
BootsFirst == kind = "provision" /\ ~skipBoot /\ told => WaitsForRunning

\* The same whatever the row said: "the chain includes the boot child"
\* (handleStartMachine, machines.provision_on_start).
BootIncluded == kind = "provision" /\ ~skipBoot => WaitsForRunning

Cancelled == runStatus = "cancelled"

\* After its cancellation no task of the run's own starts that was there to be
\* cancelled (cancelChildren).
CancelStopsWalk ==
  [][\A i \in DOMAIN row : Starts(i) /\ i <= cut /\ chain[i].of = "run" => ~Cancelled]_chainVars

\* The same of every task of the run: "cancelling an orchestration cancels the
\* whole pipeline" (Cancel).
CancelStopsRun ==
  [][\A i \in DOMAIN row : Starts(i) => ~Cancelled]_chainVars
=============================================================================
