------------------------------- MODULE PowerCycle -------------------------------
(***************************************************************************)
(* The power requests of one machine and the edits that wait for its next  *)
(* power cycle: the handlers of internal/server/machines_lifecycle.go,     *)
(* machines_modify.go and machines_pending.go, the tasks they chain, and   *)
(* the executors behind them (internal/machines/executors_lifecycle.go,    *)
(* modify_exec.go, hostdoc_store.go).                                      *)
(*                                                                         *)
(* A step of a handler is one question to the hypervisor or one statement  *)
(* of a store.  Every request makes one call; the edit of a PUT is named   *)
(* by its request.  The queue runs one task of the machine at a time, the  *)
(* highest priority first, and fails a task whose predecessor has failed.  *)
(***************************************************************************)
EXTENDS Naturals, Sequences, FiniteSets

CONSTANTS
  Request,
  Calls,           \* the calls the requests make
  MaxVerbs,        \* bound: calls to suspend, pause, resume or reset
  MaxOutside       \* bound: power changes made outside the agent

VARIABLES
  apart,           \* environment: no PUT or DELETE of edits while others use them
  vm,              \* the hypervisor's state of the machine
  knobs,           \* the edits its settings carry
  pending,         \* configuration.pending_changes
  req,             \* per request: its call, what is left of it, the edits it goes on with
  rows,            \* the tasks, in the order of their creation
  exec,            \* the task that runs: its place, the configuration it has read
  acked,           \* history: edits answered pending_power_cycle
  dropped,         \* history: edits named by the answer of a DELETE
  outside

powerVars == <<apart, vm, knobs, pending, req, rows, exec, acked, dropped, outside>>

Verbs == {"suspend", "pause", "resume", "reset"}
Writers == {"put", "clear"}
Idle == [row |-> 0, pc |-> "idle", conf |-> {}]
NoRequest == [op |-> "none", left |-> <<>>, saw |-> {}, last |-> 0, hit |-> {}, mark |-> 0]

Init ==
  /\ apart \in BOOLEAN
  /\ vm \in {"off", "running"}
  /\ knobs = {} /\ pending = {}
  /\ req = [r \in Request |-> NoRequest]
  /\ rows = <<>> /\ exec = Idle
  /\ acked = {} /\ dropped = {} /\ outside = 0

Unfinished(op) == {i \in DOMAIN rows : rows[i].op = op /\ rows[i].status \in {"pending", "running"}}
Active(r) == req[r].left # <<>>

----------------------------------------------------------------------------
(* A request: the steps of its handler *)

\* handleStopMachine
StopPlan == <<"probe", "list", "cancel", "dedup", "stop", "apply">>

Plan(op) ==
  CASE op = "start" -> <<"probe", "dedup", "apply", "start">>
    [] op = "stop" -> StopPlan
    [] op = "restart" -> <<"stop", "apply", "start">>
    [] op \in Verbs -> <<"probe", "dedup", op>>
    [] op = "put" -> <<"probe", "read", "write">>
    [] op = "clear" -> <<"clear">>
    [] op = "apply" -> <<"probe", "apply">>

\* What apart asks of a request that begins
Allowed(op) ==
  apart => /\ \A r \in Request : Active(r) => op \notin Writers /\ req[r].op \notin Writers
           /\ op \in Writers => Unfinished("modify") = {}

\* findMachine reads the row, and with it the pending edits
Begin(r, op) ==
  /\ req[r].op = "none" /\ Allowed(op)
  /\ op \in Verbs => Cardinality({q \in Request : req[q].op \in Verbs}) < MaxVerbs
  /\ req' = [req EXCEPT ![r] = [NoRequest EXCEPT !.op = op, !.left = Plan(op), !.saw = pending,
                                                 !.mark = IF op = "stop" THEN Len(rows) ELSE 0]]
  /\ UNCHANGED <<apart, vm, knobs, pending, rows, exec, acked, dropped, outside>>

At(r, step) == Active(r) /\ Head(req[r].left) = step

\* A request that is answered has nothing left to remember
Become(r, state) ==
  req' = [req EXCEPT ![r] = IF state.left = <<>> THEN [NoRequest EXCEPT !.op = state.op] ELSE state]

Step(r) == Become(r, [req[r] EXCEPT !.left = Tail(@)])
Answer(r) == Become(r, [req[r] EXCEPT !.left = <<>>])

\* liveMachineStatus: what a call needs of the machine to go on
Proceeds(op, saw) ==
  CASE op = "start" -> vm # "running"
    [] op = "stop" -> vm # "off"
    [] op = "resume" -> vm = "paused"
    [] op \in Verbs \ {"resume"} -> vm = "running"
    [] op = "apply" -> saw # {} /\ vm = "off"
    [] OTHER -> TRUE

\* A PUT to a machine that is off queues its edit instead
Probe(r) ==
  /\ At(r, "probe")
  /\ IF ~Proceeds(req[r].op, req[r].saw) THEN Answer(r)
     ELSE IF req[r].op = "put" /\ vm = "off"
     THEN req' = [req EXCEPT ![r].left = <<"direct">>]
     ELSE Step(r)
  /\ UNCHANGED <<apart, vm, knobs, pending, rows, exec, acked, dropped, outside>>

Dedup(r) ==
  /\ At(r, "dedup")
  /\ IF Unfinished(req[r].op) # {} THEN Answer(r) ELSE Step(r)
  /\ UNCHANGED <<apart, vm, knobs, pending, rows, exec, acked, dropped, outside>>

\* Slip: the task is chained behind nothing
Unchained(r) == 0

Predecessor(r) == req[r].last

Row(op, dep, edits, marker, saw) ==
  [op |-> op, dep |-> dep, edits |-> edits, marker |-> marker, saw |-> saw, status |-> "pending"]

\* A finished task is left with its status
Finished(i, status) == [rows EXCEPT ![i] = [Row(@.op, @.dep, {}, FALSE, {}) EXCEPT !.status = status]]

Create(r, row) ==
  /\ rows' = Append(rows, row)
  /\ Become(r, [req[r] EXCEPT !.left = Tail(@), !.last = Len(rows) + 1])

QueueTask(r) ==
  /\ \E op \in Verbs \cup {"start", "stop"} :
       /\ At(r, op)
       /\ Create(r, Row(op, Predecessor(r), {}, FALSE, req[r].saw))
  /\ UNCHANGED <<apart, vm, knobs, pending, exec, acked, dropped, outside>>

\* queuePendingApply: the edits as findMachine read them.  A task that cannot be
\* queued "never blocks the power operation itself": it goes on without them
QueueApply(r) ==
  /\ At(r, "apply")
  /\ \/ req[r].saw # {} /\ Create(r, Row("modify", req[r].last, req[r].saw, TRUE, {}))
     \/ Become(r, [req[r] EXCEPT !.left = Tail(@), !.saw = {}]) /\ UNCHANGED rows
  /\ UNCHANGED <<apart, vm, knobs, pending, exec, acked, dropped, outside>>

QueueDirect(r) ==
  /\ At(r, "direct")
  /\ Create(r, Row("modify", 0, {r}, FALSE, {}))
  /\ UNCHANGED <<apart, vm, knobs, pending, exec, acked, dropped, outside>>

\* cancelPendingStarts
List(r) ==
  /\ At(r, "list")
  /\ req' = [req EXCEPT ![r].left = Tail(@),
                        ![r].hit = {i \in Unfinished("start") : rows[i].status = "pending"}]
  /\ UNCHANGED <<apart, vm, knobs, pending, rows, exec, acked, dropped, outside>>

Killed(i) == exec.row = i

\* One Cancel: a start that runs by now is killed, and cancelStart powers off
Cancel(r) ==
  /\ At(r, "cancel")
  /\ IF req[r].hit = {} THEN Step(r) /\ UNCHANGED <<vm, rows, exec>>
     ELSE \E i \in req[r].hit :
            /\ req' = [req EXCEPT ![r].hit = @ \ {i}]
            /\ rows' = IF i \in Unfinished("start") THEN Finished(i, "failed") ELSE rows
            /\ IF Killed(i)
               THEN exec' = Idle /\ vm' = (IF vm \in {"running", "paused"} THEN "off" ELSE vm)
               ELSE UNCHANGED <<exec, vm>>
  /\ UNCHANGED <<apart, knobs, pending, acked, dropped, outside>>

\* MergePendingChanges reads the document and writes it back
MergeRead(r) ==
  /\ At(r, "read")
  /\ req' = [req EXCEPT ![r].left = Tail(@), ![r].saw = pending]
  /\ UNCHANGED <<apart, vm, knobs, pending, rows, exec, acked, dropped, outside>>

MergeWrite(r) ==
  /\ At(r, "write")
  /\ pending' = req[r].saw \cup {r}
  /\ acked' = acked \cup {r}
  /\ Step(r)
  /\ UNCHANGED <<apart, vm, knobs, rows, exec, dropped, outside>>

\* The answer names the edits findMachine read; the whole section goes
ClearEdits(r) ==
  /\ At(r, "clear")
  /\ pending' = {}
  /\ dropped' = dropped \cup req[r].saw
  /\ Step(r)
  /\ UNCHANGED <<apart, vm, knobs, rows, exec, acked, outside>>

Handler(r) ==
  \/ Probe(r) \/ Dedup(r) \/ QueueTask(r) \/ QueueApply(r) \/ QueueDirect(r) \/ List(r)
  \/ Cancel(r) \/ MergeRead(r) \/ MergeWrite(r) \/ ClearEdits(r)

----------------------------------------------------------------------------
(* The queue and the executors *)

Urgent(i) == rows[i].op \in Verbs \cup {"stop"}
Runnable(i) == rows[i].status = "pending" /\ (rows[i].dep # 0 => rows[rows[i].dep].status = "done")
Before(i, j) == IF Urgent(i) = Urgent(j) THEN i < j ELSE Urgent(i)

Run ==
  /\ exec.pc = "idle"
  /\ \E i \in DOMAIN rows :
       /\ Runnable(i)
       /\ \A j \in DOMAIN rows \ {i} : Runnable(j) => Before(i, j)
       /\ rows' = [rows EXCEPT ![i].status = "running"]
       /\ exec' = [Idle EXCEPT !.row = i, !.pc = rows[i].op]
  /\ UNCHANGED <<apart, vm, knobs, pending, req, acked, dropped, outside>>

\* A task whose predecessor failed fails with it
DropChained ==
  /\ \E i \in DOMAIN rows :
       /\ rows[i].status = "pending" /\ rows[i].dep # 0
       /\ rows[rows[i].dep].status = "failed"
       /\ rows' = Finished(i, "failed")
  /\ UNCHANGED <<apart, vm, knobs, pending, req, exec, acked, dropped, outside>>

Ends(status) == rows' = Finished(exec.row, status) /\ exec' = Idle
Goes(pc) == exec' = [exec EXCEPT !.pc = pc] /\ UNCHANGED rows

Boot ==
  /\ exec.pc = "start"
  /\ IF vm \in {"off", "saved"} THEN \/ vm' = "running" /\ Goes("booted")
                                     \/ vm' = vm /\ Ends("failed")
     ELSE vm' = vm /\ Ends("failed")
  /\ UNCHANGED <<apart, knobs, pending, req, acked, dropped, outside>>

Booted ==
  /\ exec.pc = "booted"
  /\ Ends("done")
  /\ UNCHANGED <<apart, vm, knobs, pending, req, acked, dropped, outside>>

\* The guest agent or the ACPI button: a guest that does not run takes neither
Signal ==
  /\ exec.pc = "stop"
  /\ \/ vm = "running" /\ Goes("wait")
     \/ Goes("poweroff")
  /\ UNCHANGED <<apart, vm, knobs, pending, req, acked, dropped, outside>>

\* waitForPowerOff has run into machines.shutdown_timeout
TimedOut == Goes("poweroff")

Wait ==
  /\ exec.pc = "wait"
  /\ IF vm # "running" THEN Ends("done") ELSE TimedOut
  /\ UNCHANGED <<apart, vm, knobs, pending, req, acked, dropped, outside>>

PowerOff ==
  /\ exec.pc = "poweroff"
  /\ \/ vm \in {"running", "paused"} /\ vm' = "off" /\ Ends("done")
     \/ vm' = vm /\ Ends("failed")
  /\ UNCHANGED <<apart, knobs, pending, req, acked, dropped, outside>>

After(verb) == CASE verb = "suspend" -> "saved" [] verb = "pause" -> "paused" [] OTHER -> "running"

Verb ==
  /\ exec.pc \in Verbs
  /\ \/ /\ vm = IF exec.pc = "resume" THEN "paused" ELSE "running"
        /\ vm' = After(exec.pc) /\ Ends("done")
     \/ vm' = vm /\ Ends("failed")
  /\ UNCHANGED <<apart, knobs, pending, req, acked, dropped, outside>>

\* modifyMachine: one setting after the other, and the first error ends it
Modify ==
  /\ exec.pc = "modify"
  /\ \/ vm = "off" /\ knobs' = knobs \cup rows[exec.row].edits /\ Goes("sync")
     \/ /\ knobs' \in {knobs \cup part : part \in IF vm = "off" THEN SUBSET rows[exec.row].edits
                                                  ELSE {{}}}
        /\ Ends("failed")
  /\ UNCHANGED <<apart, vm, pending, req, acked, dropped, outside>>

\* syncLiveConfiguration reads the stored document and writes it back
SyncRead ==
  /\ exec.pc = "sync"
  /\ exec' = [exec EXCEPT !.pc = "synced", !.conf = pending]
  /\ UNCHANGED <<apart, vm, knobs, pending, req, rows, acked, dropped, outside>>

\* Slip: a modification without the marker clears the section too
SyncThenClear ==
  /\ exec.pc = "synced"
  /\ pending' = exec.conf
  /\ Goes("clear")
  /\ UNCHANGED <<apart, vm, knobs, req, acked, dropped, outside>>

SyncWrite ==
  /\ exec.pc = "synced"
  /\ pending' = exec.conf
  /\ IF rows[exec.row].marker THEN Goes("clear") ELSE Ends("done")
  /\ UNCHANGED <<apart, vm, knobs, req, acked, dropped, outside>>

\* ClearPendingChanges drops the section, whatever it holds by now
ClearApplied ==
  /\ exec.pc = "clear"
  /\ pending' = {}
  /\ Ends("done")
  /\ UNCHANGED <<apart, vm, knobs, req, acked, dropped, outside>>

Executor ==
  \/ Run \/ DropChained \/ Boot \/ Booted \/ Signal \/ Wait \/ PowerOff \/ Verb
  \/ Modify \/ SyncRead \/ SyncWrite \/ ClearApplied

\* The guest shuts down, or someone starts the machine from VirtualBox itself
Outside ==
  /\ outside < MaxOutside /\ outside' = outside + 1
  /\ \/ vm = "running" /\ vm' = "off"
     \/ vm = "off" /\ vm' = "running"
  /\ UNCHANGED <<apart, knobs, pending, req, rows, exec, acked, dropped>>

Next ==
  \/ \E r \in Request : Handler(r) \/ \E op \in Calls : Begin(r, op)
  \/ Executor \/ Outside

Spec == Init /\ [][Next]_powerVars

----------------------------------------------------------------------------
(* Properties *)

\* The types of the variables; what executes is the row that is marked running.
TypeOK ==
  /\ apart \in BOOLEAN
  /\ vm \in {"off", "running", "paused", "saved"}
  /\ knobs \subseteq Request /\ pending \subseteq Request
  /\ acked \subseteq Request /\ dropped \subseteq Request
  /\ \A i \in DOMAIN rows : rows[i].dep \in 0..(i - 1)
                            /\ rows[i].status \in {"pending", "running", "done", "failed"}
  /\ exec.row \in 0..Len(rows)
  /\ IF exec.pc = "idle" THEN exec.row = 0 ELSE rows[exec.row].status = "running"
  /\ outside \in 0..MaxOutside

\* An accrued edit survives every failed or refused power cycle: once answered, it
\* is still pending, in the machine's settings, or named by the DELETE that dropped
\* it - as long as no PUT or DELETE of edits runs beside a request or an apply.
EditKept == apart => acked \subseteq pending \cup knobs \cup dropped

\* The same whatever runs beside: "changes stored and will apply at the next
\* agent-driven power cycle" (accrueModifyChanges' answer).
EditApplies == acked \subseteq pending \cup knobs \cup dropped

\* A start queued behind the task that applies the pending edits boots only with all of
\* them applied: "a bad pending value fails the boot honestly" (handleStartMachine,
\* handleRestartMachine).  When that task could not be queued the machine boots without
\* the edits, which stay pending (EditKept).
BootsApplied ==
  [][exec.pc = "start" /\ exec'.pc = "booted" => rows[exec.row].saw \subseteq knobs]_powerVars

\* When a stop task is done the machine does not run (stop, waitForPowerOff).
StopHalts ==
  [][exec.pc \in {"wait", "poweroff"} /\ exec' = Idle /\ rows'[exec.row].status = "done"
       => vm' \notin {"running", "paused"}]_powerVars

StopEnds(r) == Active(r) /\ req[r].op = "stop" /\ req'[r].left = <<>>
StartsBefore(r) == {i \in 1..req[r].mark : rows'[i].op = "start" /\ rows'[i].status = "pending"}

\* A stop of a machine that is on leaves no start pending that was queued before it
\* (handleStopMachine cancels them before it looks for a stop in the queue).
StopOverrides ==
  [][\A r \in Request : StopEnds(r) /\ ~At(r, "probe") => StartsBefore(r) = {}]_powerVars

\* The same of every stop: "a stop overrides a queued start" (cancelPendingStarts).
EveryStopOverrides ==
  [][\A r \in Request : StopEnds(r) => StartsBefore(r) = {}]_powerVars

\* Double clicks reuse the task: no two starts are unfinished at once ("so
\* double-clicks reuse it instead of double-queueing", dedupTask).
OneStart == Cardinality(Unfinished("start")) <= 1
=============================================================================
