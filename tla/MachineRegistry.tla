--------------------------- MODULE MachineRegistry ---------------------------
(***************************************************************************)
(* The machine registry (internal/machines/store.go) beside the VirtualBox *)
(* it mirrors: the reconciliation sweep (reconcile.go), the probe of GET   *)
(* /api/machines/{name} (server/machines.go), the delete executor          *)
(* (executors_delete.go) and the create chain storage -> config ->         *)
(* finalize (server/machines_create.go, create_exec*.go).                  *)
(*                                                                         *)
(* A step is one statement on the machines table, one VBoxManage call, or  *)
(* the start or the end of a task of the chain.  The sweep visits the VMs  *)
(* of its listing in any order.  Rows of the second hypervisor are out.    *)
(***************************************************************************)
EXTENDS Naturals, FiniteSets

CONSTANTS
  Name,             \* machine names
  Foreign,          \* VMs made outside the agent
  Creator,          \* requests to create a machine; each names the VM it makes
  Discover,         \* the discover task: one runs at a time, on machine "system"
  Import,           \* imports, each running a sweep of its own
  MaxOutside,       \* bound: VMs registered, unregistered, renamed by others
  Prefixed          \* machines.prefix_machine_names

None == "none"
Vm == Foreign \cup Creator
Sweeper == Discover \cup Import

\* resolveMachineName: with prefixing the name begins with the server id, here one
\* id per name; without it a request need not carry one, and the id is empty
IdOf(n) == IF Prefixed THEN n ELSE "no id"

VARIABLES
  outside,          \* environment: what happens behind the agent's back
  left,             \* outside events left
  vm,               \* VirtualBox: per VM its name and whether it is registered
  row,              \* the machines table
  disk,             \* per working directory: the create whose boot disk lies there
  making,           \* per create: where its chain is, and whether another create of its name
                    \* was under way beside it
  deleting,         \* per name: where the delete executor is, and the row it read
  sweep,            \* per sweeper: where it is and what it has seen
  missed            \* history of a calm world: sweeps in a row that found the VM gone

registryVars == <<outside, left, vm, row, disk, making, deleting, sweep, missed>>

Idle == [pc |-> "idle", todo |-> {}, seen |-> {}, at |-> None, gone |-> {}]
NoRow == [uuid |-> None, orphan |-> FALSE, by |-> "absent", id |-> None]
\* Different names for the VMs made outside; a create gets its name with the request
FirstName == CHOOSE first \in [Vm -> Name] :
               \A f, g \in Foreign : first[f] = first[g] => f = g

Still == [pc |-> "no", uuid |-> None, by |-> None]
Unmade == [pc |-> "idle", name |-> None, crossed |-> FALSE]

Init ==
  /\ outside \in {"calm", "renaming", "faulty", "creating"}
  /\ left = IF outside = "creating" THEN 0 ELSE MaxOutside
  /\ vm = [v \in Vm |-> [name |-> FirstName[v], here |-> FALSE]]
  /\ row = [n \in Name |-> NoRow]
  /\ disk = [n \in Name |-> None]
  /\ making = [c \in Creator |-> Unmade]
  /\ deleting = [n \in Name |-> Still]
  /\ sweep = [s \in Sweeper |-> Idle]
  /\ missed = [v \in Vm |-> 0]

Has(n) == row[n] # NoRow
Registered(n) == {v \in Vm : vm[v].here /\ vm[v].name = n}
Missed(gone) ==
  missed' = [v \in Vm |-> IF outside = "calm" /\ v \in gone /\ missed[v] < 2
                          THEN missed[v] + 1 ELSE missed[v]]

----------------------------------------------------------------------------
(* Behind the agent's back *)

\* A VM made outside is registered, or registered again
Register(f) ==
  /\ left > 0 /\ ~vm[f].here /\ Registered(vm[f].name) = {}
  /\ vm' = [vm EXCEPT ![f].here = TRUE]
  /\ left' = left - 1
  /\ UNCHANGED <<outside, row, disk, making, deleting, sweep, missed>>

Unregister(f) ==
  /\ left > 0 /\ vm[f].here
  /\ vm' = [vm EXCEPT ![f].here = FALSE]
  /\ left' = left - 1
  /\ UNCHANGED <<outside, row, disk, making, deleting, sweep, missed>>

Rename(f, n) ==
  /\ outside = "renaming" /\ left > 0 /\ vm[f].here /\ Registered(n) = {}
  /\ vm' = [vm EXCEPT ![f].name = n]
  /\ left' = left - 1
  /\ UNCHANGED <<outside, row, disk, making, deleting, sweep, missed>>

\* VBoxManage answers every call from here on
Clear ==
  /\ outside = "faulty" /\ outside' = "cleared"
  /\ UNCHANGED <<left, vm, row, disk, making, deleting, sweep, missed>>

----------------------------------------------------------------------------
(* The machines table *)

\* DeleteOrphanedMissing: what was flagged before and is missing again
DeleteOrphanedMissing(seen) ==
  {n \in Name : /\ Has(n) /\ row[n].orphan /\ row[n].uuid # None
                /\ n \notin seen}

\* Slip: the condition of MarkMissing is turned round
MarkSeen(seen) ==
  [n \in Name |-> IF n \in seen THEN [row[n] EXCEPT !.orphan = TRUE] ELSE row[n]]

\* MarkMissing
MarkMissing(seen) ==
  [n \in Name |-> IF Has(n) /\ row[n].uuid # None /\ n \notin seen
                  THEN [row[n] EXCEPT !.orphan = TRUE] ELSE row[n]]

\* Slip: the row is found by the VM's name alone
MatchByName(v, n) == IF Has(n) THEN n ELSE None

\* UpsertDiscovered, its SELECTs: the row of this uuid, else the row of this name
\* (the home of a row without a uuid is the home of its name)
Match(v, n) ==
  IF \E m \in Name : Has(m) /\ row[m].uuid = v
  THEN CHOOSE m \in Name : Has(m) /\ row[m].uuid = v
  ELSE IF Has(n) THEN n ELSE None

\* UpsertDiscovered, its UPDATE by row id, or its INSERT, refused if the name is taken
Write(v, n, at, by) ==
  CASE at # None /\ Has(at) /\ row[at].by = by ->
         row' = [row EXCEPT ![at].uuid = v, ![at].orphan = FALSE]
    [] at = None /\ ~Has(n) ->
         row' = [row EXCEPT ![n] = [uuid |-> v, orphan |-> FALSE, by |-> None,
                                    id |-> None]]
    [] OTHER -> UNCHANGED row

\* CancelPending of what still waits for this machine
Waiting(n) == {c \in Creator : /\ making[c].name = n
                               /\ making[c].pc \in {"queued", "stored", "configured"}}
CancelWaiting(n) ==
  making' = [c \in Creator |-> IF c \in Waiting(n)
                              THEN [making[c] EXCEPT !.pc = "cancelled"]
                              ELSE making[c]]

----------------------------------------------------------------------------
(* RunOnce *)

\* In a calm world discover tasks alone sweep
MayRun(s) == s \in Discover \/ outside \in {"faulty", "cleared"}
Goes(s, next) == sweep' = [sweep EXCEPT ![s] = next]

\* The listing of the registered VMs; when it fails the sweep ends
List(s) ==
  /\ sweep[s].pc = "idle" /\ MayRun(s)
  /\ Goes(s, [Idle EXCEPT !.pc = "visit",
                          !.todo = {[vm |-> v, name |-> vm[v].name] :
                                      v \in {w \in Vm : vm[w].here}}])
  /\ Missed({v \in Vm : ~vm[v].here})
  /\ UNCHANGED <<outside, left, vm, row, disk, making, deleting>>

\* VirtualBox is not installed: every row it could have is taken as seen
ListNothing(s) ==
  /\ outside = "faulty" /\ sweep[s].pc = "idle" /\ MayRun(s)
  /\ Goes(s, [Idle EXCEPT !.pc = "purge", !.seen = {n \in Name : Has(n)}])
  /\ UNCHANGED <<outside, left, vm, row, disk, making, deleting, missed>>

\* showvminfo answers, and the row to refresh is looked up
Inspect(s, entry) ==
  /\ sweep[s].pc = "visit" /\ entry \in sweep[s].todo /\ vm[entry.vm].here
  /\ LET at == Match(entry.vm, entry.name) IN
     Goes(s, [sweep[s] EXCEPT !.pc = "write", !.todo = @ \ {entry},
                              !.seen = @ \cup {entry.name},
                              !.at = [vm |-> entry.vm, name |-> entry.name, row |-> at,
                                      by |-> IF at = None THEN None ELSE row[at].by]])
  /\ missed' = [missed EXCEPT ![entry.vm] = 0]
  /\ UNCHANGED <<outside, left, vm, row, disk, making, deleting>>

\* showvminfo fails: the VM is gone, or VirtualBox is busy; it is not seen
InspectFails(s, entry) ==
  /\ sweep[s].pc = "visit" /\ entry \in sweep[s].todo
  /\ vm[entry.vm].here => outside = "faulty"
  /\ Goes(s, [sweep[s] EXCEPT !.todo = @ \ {entry}])
  /\ Missed(IF vm[entry.vm].here THEN {} ELSE {entry.vm})
  /\ UNCHANGED <<outside, left, vm, row, disk, making, deleting>>

Upsert(s) ==
  /\ sweep[s].pc = "write"
  /\ LET at == sweep[s].at IN Write(at.vm, at.name, at.row, at.by)
  /\ Goes(s, [sweep[s] EXCEPT !.pc = "visit", !.at = None])
  /\ UNCHANGED <<outside, left, vm, disk, making, deleting, missed>>

Visited(s) ==
  /\ sweep[s].pc = "visit" /\ sweep[s].todo = {}
  /\ Goes(s, [sweep[s] EXCEPT !.pc = "purge"])
  /\ UNCHANGED <<outside, left, vm, row, disk, making, deleting, missed>>

Purge(s) ==
  /\ sweep[s].pc = "purge"
  /\ LET gone == DeleteOrphanedMissing(sweep[s].seen) IN
     /\ row' = [n \in Name |-> IF n \in gone THEN NoRow ELSE row[n]]
     /\ Goes(s, [sweep[s] EXCEPT !.pc = "cancel", !.gone = gone])
  /\ UNCHANGED <<outside, left, vm, disk, making, deleting, missed>>

\* cancelPendingTasks of each machine whose row went
CancelLeftover(s, n) ==
  /\ sweep[s].pc = "cancel" /\ n \in sweep[s].gone
  /\ CancelWaiting(n)
  /\ Goes(s, [sweep[s] EXCEPT !.gone = @ \ {n}])
  /\ UNCHANGED <<outside, left, vm, row, disk, deleting, missed>>

Mark(s) ==
  /\ sweep[s].pc = "cancel" /\ sweep[s].gone = {}
  /\ row' = MarkMissing(sweep[s].seen)
  /\ Goes(s, Idle)
  /\ UNCHANGED <<outside, left, vm, disk, making, deleting, missed>>

\* GET /api/machines/{name}, refreshStatus: a probe that does not find the VM
Probe(n) ==
  /\ outside = "faulty" /\ Has(n) /\ row[n].uuid # None
  /\ row' = [row EXCEPT ![n].orphan = TRUE]
  /\ UNCHANGED <<outside, left, vm, disk, making, deleting, sweep, missed>>

SweepStep(s) ==
  \/ List(s) \/ Upsert(s) \/ Visited(s) \/ Purge(s) \/ Mark(s)
  \/ \E entry \in sweep[s].todo : Inspect(s, entry) \/ InspectFails(s, entry)
  \/ \E n \in Name : CancelLeftover(s, n)

----------------------------------------------------------------------------
(* The create chain: each task runs alone on its machine *)

Runs(n) ==
  \/ deleting[n] # Still
  \/ \E c \in Creator : /\ making[c].name = n
                        /\ making[c].pc \in {"storing", "naming", "configuring", "landing"}
To(c, pc) == making' = [making EXCEPT ![c].pc = pc]
Under(c) == making[c].name
Ended == {"idle", "done", "failed", "cancelled", "removed"}
Taken(id) == \E n \in Name : Has(n) /\ row[n].id = id

\* handleCreateMachine, 409: the registry has no such machine, nor has VirtualBox
Free(n) == ~Has(n) /\ Registered(n) = {}

\* The creates of this name that are under way
Rivals(n) == {d \in Creator : making[d].name = n /\ making[d].pc \notin Ended}

\* POST /api/machines: it queues beside a create of this name that has no VM and no row yet
Post(c, n) ==
  /\ outside = "creating" /\ making[c].pc = "idle"
  /\ Free(n)
  /\ making' = [d \in Creator |->
                  IF d = c THEN [pc |-> "queued", name |-> n, crossed |-> Rivals(n) # {}]
                  ELSE IF d \in Rivals(n) THEN [making[d] EXCEPT !.crossed = TRUE] ELSE making[d]]
  /\ vm' = [vm EXCEPT ![c].name = n]
  /\ UNCHANGED <<outside, left, row, disk, deleting, sweep, missed>>

\* createStorage: clearStaleMedium removes what lies at the boot disk's path, by
\* VirtualBox or else from the file system; then the disk is cloned there
Store(c) ==
  /\ making[c].pc = "queued" /\ ~Runs(Under(c))
  /\ To(c, "storing")
  /\ disk' = [disk EXCEPT ![Under(c)] = c]
  /\ UNCHANGED <<outside, left, vm, row, deleting, sweep, missed>>

Stored(c) ==
  /\ making[c].pc = "storing" /\ To(c, "stored")
  /\ UNCHANGED <<outside, left, vm, row, disk, deleting, sweep, missed>>

\* It fails and rolls back, or is killed and cancelCreateStorage cleans up
StoreEnds(c) ==
  /\ making[c].pc = "storing" /\ To(c, "failed")
  /\ disk' = [disk EXCEPT ![Under(c)] = None]
  /\ UNCHANGED <<outside, left, vm, row, deleting, sweep, missed>>

Configure(c) ==
  /\ making[c].pc = "stored" /\ ~Runs(Under(c)) /\ To(c, "naming")
  /\ UNCHANGED <<outside, left, vm, row, disk, deleting, sweep, missed>>

\* createConfig: createvm, refused while the name is registered
CreateVM(c) ==
  /\ making[c].pc = "naming"
  /\ IF Registered(Under(c)) = {}
     THEN vm' = [vm EXCEPT ![c].here = TRUE] /\ To(c, "configuring")
     ELSE To(c, "failed") /\ UNCHANGED vm
  /\ UNCHANGED <<outside, left, row, disk, deleting, sweep, missed>>

Configured(c) ==
  /\ making[c].pc = "configuring" /\ To(c, "configured")
  /\ UNCHANGED <<outside, left, vm, row, disk, deleting, sweep, missed>>

\* modifyvm or an attach fails, or the task is killed (cancelCreateConfig): the
\* machine of this name is unregistered, as far as VirtualBox lets it
ConfigEnds(c) ==
  /\ making[c].pc \in {"naming", "configuring"} /\ To(c, "failed")
  /\ \/ vm' = [v \in Vm |-> IF v \in Registered(Under(c))
                            THEN [vm[v] EXCEPT !.here = FALSE] ELSE vm[v]]
     \/ UNCHANGED vm
  /\ UNCHANGED <<outside, left, row, disk, deleting, sweep, missed>>

\* INSERT: the name and the server id are unique, the empty one too
Lands(c) == ~Has(Under(c)) /\ ~Taken(IdOf(Under(c)))

\* createFinalize: the row
Land(c) ==
  /\ making[c].pc = "configured" /\ ~Runs(Under(c))
  /\ IF Lands(c)
     THEN /\ row' = [row EXCEPT ![Under(c)] = [uuid |-> None, orphan |-> FALSE, by |-> c,
                                               id |-> IdOf(Under(c))]]
          /\ To(c, "landing")
     ELSE To(c, "failed") /\ UNCHANGED row
  /\ UNCHANGED <<outside, left, vm, disk, deleting, sweep, missed>>

\* createFinalize: the sections and the uuid, which need the row to be there
Bind(c) ==
  /\ making[c].pc = "landing"
  /\ IF Has(Under(c))
     THEN row' = [row EXCEPT ![Under(c)].uuid = c] /\ To(c, "done")
     ELSE UNCHANGED row /\ To(c, "failed")
  /\ UNCHANGED <<outside, left, vm, disk, deleting, sweep, missed>>

\* The chain is cancelled between two of its tasks: nothing is undone
CancelChain(c) ==
  /\ making[c].pc \in {"queued", "stored", "configured"} /\ To(c, "cancelled")
  /\ UNCHANGED <<outside, left, vm, row, disk, deleting, sweep, missed>>

CreateStep(c) ==
  Store(c) \/ Stored(c) \/ Configure(c) \/ CreateVM(c) \/ Configured(c) \/ Land(c) \/ Bind(c)

----------------------------------------------------------------------------
(* deleteMachine *)

\* The task starts on a row of the registry
Delete(n) ==
  /\ outside = "creating" /\ Has(n) /\ ~Runs(n)
  /\ deleting' = [deleting EXCEPT ![n] = [pc |-> "vm", uuid |-> row[n].uuid,
                                           by |-> row[n].by]]
  /\ making' = [c \in Creator |-> IF Under(c) = n /\ making[c].pc = "done"
                                 THEN [making[c] EXCEPT !.pc = "removed"] ELSE making[c]]
  /\ UNCHANGED <<outside, left, vm, row, disk, sweep, missed>>

\* unregistervm by uuid, then the working directory
DeleteVm(n) ==
  /\ deleting[n].pc = "vm"
  /\ vm' = [v \in Vm |-> IF v = deleting[n].uuid THEN [vm[v] EXCEPT !.here = FALSE]
                         ELSE vm[v]]
  /\ disk' = [disk EXCEPT ![n] = IF deleting[n].by # None THEN None ELSE @]
  /\ deleting' = [deleting EXCEPT ![n].pc = "row"]
  /\ UNCHANGED <<outside, left, row, making, sweep, missed>>

\* VirtualBox refuses to unregister it: the task fails
DeleteFails(n) ==
  /\ deleting[n].pc = "vm" /\ deleting' = [deleting EXCEPT ![n] = Still]
  /\ UNCHANGED <<outside, left, vm, row, disk, making, sweep, missed>>

\* deleteRegistryTail: the row, which a sweep may have removed already
DeleteRow(n) ==
  /\ deleting[n].pc = "row"
  /\ row' = [row EXCEPT ![n] = NoRow]
  /\ deleting' = [deleting EXCEPT ![n].pc = "tasks"]
  /\ UNCHANGED <<outside, left, vm, disk, making, sweep, missed>>

DeleteTasks(n) ==
  /\ deleting[n].pc = "tasks"
  /\ CancelWaiting(n)
  /\ deleting' = [deleting EXCEPT ![n] = Still]
  /\ UNCHANGED <<outside, left, vm, row, disk, sweep, missed>>

DeleteStep(n) == DeleteVm(n) \/ DeleteRow(n) \/ DeleteTasks(n)

----------------------------------------------------------------------------

Next ==
  \/ \E f \in Foreign : Register(f) \/ Unregister(f) \/ \E n \in Name : Rename(f, n)
  \/ Clear
  \/ \E s \in Sweeper : SweepStep(s) \/ ListNothing(s)
  \/ \E n \in Name : Probe(n) \/ Delete(n) \/ DeleteStep(n) \/ DeleteFails(n)
  \/ \E c \in Creator :
       \/ CreateStep(c) \/ CancelChain(c) \/ StoreEnds(c) \/ ConfigEnds(c)
       \/ \E n \in Name : Post(c, n)

Spec == Init /\ [][Next]_registryVars

\* Discovery runs every interval, the queue runs every task, VirtualBox recovers
Fairness ==
  /\ WF_registryVars(Clear)
  /\ \A s \in Sweeper : WF_registryVars(SweepStep(s))
  /\ \A c \in Creator : WF_registryVars(CreateStep(c))
  /\ \A n \in Name : WF_registryVars(DeleteStep(n))

FairSpec == Spec /\ Fairness

----------------------------------------------------------------------------

TypeOK ==
  /\ outside \in {"calm", "renaming", "faulty", "cleared", "creating"}
  /\ left \in 0..MaxOutside
  /\ vm \in [Vm -> [name : Name, here : BOOLEAN]]
  /\ \A n \in Name : row[n].by = "absent" => ~Has(n)
  /\ row \in [Name -> [uuid : Vm \cup {None}, orphan : BOOLEAN,
                        by : Creator \cup {None, "absent"}, id : Name \cup {"no id", None}]]
  /\ disk \in [Name -> Creator \cup {None}]
  /\ \A n \in Name : deleting[n].pc \in {"no", "vm", "row", "tasks"}
  /\ missed \in [Vm -> 0..2]

\* A VM has one row: discovery never imports the VM of a row again, under
\* whatever name it is found (UpsertDiscovered)
OneRowPerVm ==
  \A m, n \in Name :
    Has(m) /\ Has(n) /\ row[m].uuid = row[n].uuid /\ row[m].uuid # None => m = n

\* The one-sweep grace (DeleteOrphanedMissing): in a calm world a sweep removes a
\* row only when it and the sweep before it found the VM gone
GraceKept ==
  [][\A n \in Name :
       outside = "calm" /\ Has(n) /\ row'[n] = NoRow => missed[row[n].uuid] = 2
    ]_registryVars

Whole(c) ==
  /\ Has(Under(c)) /\ row[Under(c)].uuid = c
  /\ vm[c].here /\ disk[Under(c)] = c

\* A machine whose create finished, and that nobody deletes, has its row, its VM and its disk,
\* whatever sweeps and creates of other names do meanwhile, and whatever an earlier create of
\* its name has left (createStorage, createConfig, createFinalize)
LandedWhole == \A c \in Creator : making[c].pc = "done" /\ ~making[c].crossed => Whole(c)

\* It has them too when another create of its name was posted before it had its VM or its row:
\* "makes a create retry idempotent: a previous failed run can leave the target medium"
\* (clearStaleMedium).  The medium may be that of the machine that has landed
EveryLandedWhole == \A c \in Creator : making[c].pc = "done" => Whole(c)

\* Once the world outside rests, the registry comes to hold exactly the machines of
\* VirtualBox, if none was renamed: what was missed is imported, what is gone is removed
\* (RunOnce)
Truthful ==
  /\ \A v \in Vm : vm[v].here => \E n \in Name : Has(n) /\ row[n].uuid = v
  /\ \A n \in Name : Has(n) => row[n].uuid # None /\ vm[row[n].uuid].here
RegistryConverges == outside # "renaming" => <>[]Truthful

\* Claim: it does so too when VMs are renamed.  A row keeps its name: a VM renamed to
\* that of a row whose VM is gone keeps this row
RenamesConverge == outside = "renaming" => <>[]Truthful

\* Claim: a row flagged orphaned is one whose VM disappeared
OrphansGone ==
  <>[](\A n \in Name : Has(n) /\ row[n].orphan => ~vm[row[n].uuid].here)

\* Claim: a create of which no step fails lands, also when a sweep sees its VM first
Undisturbed(c) == making[c].pc = "configured" /\ Registered(Under(c)) = {c}
CreateLands ==
  [][\A c \in Creator :
       Undisturbed(c) /\ making'[c] # making[c] => making'[c].pc \in {"landing", "cancelled"}
    ]_registryVars

=============================================================================
