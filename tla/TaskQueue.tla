------------------------------ MODULE TaskQueue ------------------------------
(***************************************************************************)
(* The task queue of internal/tasks (queue.go, parent.go) over the task    *)
(* table: the poll loop, one executor goroutine per dispatched task, the   *)
(* API callers that create, cancel, re-chain and delete tasks, the parent  *)
(* rollup all of them run, Stop, and process death and restart.            *)
(*                                                                         *)
(* A step is one SQL statement, one section under q.mu, or one choice the  *)
(* environment makes; everything the code does in between is local to one  *)
(* goroutine.  A goroutine's position between two steps is its pc.         *)
(***************************************************************************)
EXTENDS TaskStore, Sequences

CONSTANTS
  Category,         \* the operation categories
  ExemptScopes,     \* machine names that are scopes, not machines
  MaxConcurrent,    \* QueueConfig.MaxConcurrent
  ResumePending,    \* QueueConfig.ResumePendingOnStart
  Loop,             \* the poll loop's name as an actor
  Client,           \* concurrent API callers
  Cancellable,      \* tasks an API caller may ask to cancel
  Prunable,         \* tasks of machines the reconciler may find gone
  WaitFor,          \* pairs <<d, t>>: a create may chain t behind d (wait_for)
  Deletion,         \* may finished rows be deleted while the queue runs
  MaxExits,         \* bound: process exits, orderly or not
  MaxFaults         \* bound: SQL statements that return an error

Actor == Task \cup Client \cup {Loop}

ASSUME QueueAssumption ==
  /\ MaxConcurrent \in Nat \ {0}
  /\ ResumePending \in BOOLEAN
  /\ Deletion \in BOOLEAN
  /\ MaxExits \in Nat
  /\ MaxFaults \in Nat
  /\ None \notin Category
  /\ CategoryOf \in [Task -> Category \cup {None}]
  /\ Cancellable \subseteq Task
  /\ Prunable \subseteq Task
  /\ WaitFor \subseteq Task \X Task
  /\ Client \cap Task = {}
  /\ Loop \notin Task \cup Client

VARIABLES
  up,           \* an agent process exists and its queue was started
  inFlight,     \* keys of q.running
  cancelled,    \* tasks whose runningEntry is cancelled (flag and context)
  holder,       \* q.categories: the task holding each category, or None
  processing,   \* q.processing
  loop,         \* the poll loop: pc, busy snapshot, parents to roll up, pick
  executor,     \* the executor goroutine of each task: its pc
  outcome,      \* the status that goroutine decided to record
  rollup,       \* per actor: the updateParentProgress call it is inside of
  client,       \* per API caller: the call it is inside of
  answer,       \* what the last successful Cancel of a task answered
  starts,       \* history: how often a task's executor was started
  exits,        \* process exits so far
  faults        \* statements that failed so far

memoryVars == <<inFlight, cancelled, holder>>
auxVars == <<answer, starts, exits, faults>>
vars == <<rowVars, up, memoryVars, processing, loop, executor, outcome,
          rollup, client, auxVars>>

NoRollup == [pc |-> "none", parent |-> None, verdict |-> None]
NoCall == [pc |-> "idle", stack |-> <<>>, behind |-> None, said |-> "none",
           todo |-> [t \in Task |-> {}], phase |-> [t \in Task |-> "pending"]]
LoopAt(pc) == [pc |-> pc, busy |-> {}, parents |-> {}, pick |-> None]

Executing == {t \in Task : executor[t] \in {"run", "record", "release"}}

Init ==
  /\ StoreInit
  /\ up = TRUE
  /\ inFlight = {}
  /\ cancelled = {}
  /\ holder = [c \in Category |-> None]
  /\ processing = TRUE
  /\ loop = LoopAt("wait")
  /\ executor = [t \in Task |-> "none"]
  /\ outcome = [t \in Task |-> None]
  /\ rollup = [a \in Actor |-> NoRollup]
  /\ client = [c \in Client |-> NoCall]
  /\ answer = [t \in Task |-> "none"]
  /\ starts = [t \in Task |-> 0]
  /\ exits = 0
  /\ faults = 0

\* A statement returning an error: the budget of the bound MaxFaults
Fault == /\ faults < MaxFaults
         /\ faults' = faults + 1
         /\ UNCHANGED rowVars

----------------------------------------------------------------------------
(* updateParentProgress, run by actor a: Get, CountChildren, Finish.       *)
(* UpdateProgress writes only the progress columns, which are left out.    *)

BeginRollup(a, p) ==
  rollup' = IF status[p] = "running"
            THEN [rollup EXCEPT ![a] = [pc |-> "count", parent |-> p, verdict |-> None]]
            ELSE rollup

\* Slip: the verdict is written whatever it is
ConcludeAlways(p, verdict) == [pc |-> "write", parent |-> p, verdict |-> verdict]

\* A verdict of "running" only updates the progress columns
Conclude(p, verdict) ==
  IF verdict = "running" THEN NoRollup
  ELSE [pc |-> "write", parent |-> p, verdict |-> verdict]

CountChildren(a) ==
  /\ rollup[a].pc = "count"
  /\ rollup' = [rollup EXCEPT ![a] = Conclude(rollup[a].parent, Tally(rollup[a].parent))]
  /\ UNCHANGED <<rowVars, up, memoryVars, processing, loop, executor, outcome,
                 client, auxVars>>

FinishParent(a) ==
  /\ rollup[a].pc = "write"
  /\ Finish(rollup[a].parent, rollup[a].verdict)
  /\ rollup' = [rollup EXCEPT ![a] = NoRollup]
  /\ UNCHANGED <<up, memoryVars, processing, loop, executor, outcome, client,
                 auxVars>>

RollupFails(a) ==
  /\ rollup[a].pc # "none"
  /\ Fault
  /\ rollup' = [rollup EXCEPT ![a] = NoRollup]
  /\ UNCHANGED <<up, memoryVars, processing, loop, executor, outcome, client,
                 answer, starts, exits>>

----------------------------------------------------------------------------
(* The poll loop *)

Machine == {MachineOf[t] : t \in Task}

\* Slip: the exemption inverted
BusyScopes == {MachineOf[t] : t \in inFlight} \cap ExemptScopes

BusyMachines == {MachineOf[t] : t \in inFlight} \ ExemptScopes

\* Slip: one too many
CapacityNotExceeded == Cardinality(inFlight) <= MaxConcurrent

CapacityLeft == Cardinality(inFlight) < MaxConcurrent

\* A tick that finds the queue at capacity returns without a trace
Tick ==
  /\ loop.pc = "wait"
  /\ CapacityLeft
  /\ loop' = [LoopAt("sweep") EXCEPT !.busy = BusyMachines]
  /\ UNCHANGED <<rowVars, up, memoryVars, processing, executor, outcome, rollup,
                 client, auxVars>>

LoopExit ==
  /\ loop.pc = "wait"
  /\ ~processing
  /\ loop' = LoopAt("exited")
  /\ UNCHANGED <<rowVars, up, memoryVars, processing, executor, outcome, rollup,
                 client, auxVars>>

Sweep ==
  /\ loop.pc = "sweep"
  /\ CancelDependents
  /\ loop' = [loop EXCEPT !.pc = "report",
                          !.parents = {ParentOf[t] : t \in Doomed} \ {None}]
  /\ UNCHANGED <<up, memoryVars, processing, executor, outcome, rollup, client,
                 auxVars>>

SweepRollup ==
  /\ loop.pc = "report"
  /\ rollup[Loop] = NoRollup
  /\ \E p \in loop.parents :
       /\ loop' = [loop EXCEPT !.parents = @ \ {p}]
       /\ BeginRollup(Loop, p)
  /\ UNCHANGED <<rowVars, up, memoryVars, processing, executor, outcome, client,
                 auxVars>>

Pick ==
  /\ loop.pc = "report"
  /\ rollup[Loop] = NoRollup
  /\ loop.parents = {}
  /\ \/ \E t \in Task : /\ IsNextPending(t, loop.busy)
                        /\ loop' = [loop EXCEPT !.pc = "gate", !.pick = t]
     \/ /\ Runnable(loop.busy) = {}
        /\ loop' = LoopAt("wait")
  /\ UNCHANGED <<rowVars, up, memoryVars, processing, executor, outcome, rollup,
                 client, auxVars>>

\* Slip: the lock is taken, never tested
CategoryUntested(t) == TRUE

CategoryFree(t) == CategoryOf[t] # None => holder[CategoryOf[t]] = None

Gate ==
  /\ loop.pc = "gate"
  /\ loop' = IF CategoryFree(loop.pick) THEN [loop EXCEPT !.pc = "mark"]
                                        ELSE LoopAt("wait")
  /\ UNCHANGED <<rowVars, up, memoryVars, processing, executor, outcome, rollup,
                 client, auxVars>>

Mark ==
  /\ loop.pc = "mark"
  /\ MarkRunning(loop.pick)
  /\ loop' = [loop EXCEPT !.pc = "admit"]
  /\ UNCHANGED <<up, memoryVars, processing, executor, outcome, rollup, client,
                 auxVars>>

\* CancelDependents, NextPending or MarkRunning failed: the tick gives up
TickFails ==
  /\ loop.pc \in {"sweep", "report", "mark"}
  /\ rollup[Loop] = NoRollup /\ loop.parents = {}
  /\ Fault
  /\ loop' = LoopAt("wait")
  /\ UNCHANGED <<up, memoryVars, processing, executor, outcome, rollup, client,
                 answer, starts, exits>>

Admit ==
  /\ loop.pc = "admit"
  /\ LET t == loop.pick IN
     /\ inFlight' = inFlight \cup {t}
     /\ cancelled' = cancelled \ {t}
     /\ holder' = IF CategoryOf[t] = None THEN holder
                  ELSE [holder EXCEPT ![CategoryOf[t]] = t]
     /\ executor' = [executor EXCEPT ![t] = "run"]
     /\ starts' = [starts EXCEPT ![t] = @ + 1]
  /\ loop' = LoopAt("wait")
  /\ UNCHANGED <<rowVars, up, processing, outcome, rollup, client, answer, exits,
                 faults>>

LoopStep == \/ Tick \/ LoopExit \/ Sweep \/ SweepRollup \/ Pick \/ Gate \/ Mark
            \/ Admit

----------------------------------------------------------------------------
(* The executor goroutine of task t (executeAndHandle)                     *)

\* executor.Run returned, or OnCancel after it: the flag is read under q.mu
Decide(t) ==
  /\ executor[t] = "run"
  /\ executor' = [executor EXCEPT ![t] = "record"]
  /\ \E result \in {"completed", "failed"} :
       outcome' = [outcome EXCEPT ![t] = IF t \in cancelled THEN "cancelled"
                                         ELSE result]
  /\ UNCHANGED <<rowVars, up, memoryVars, processing, loop, rollup, client,
                 auxVars>>

\* A failing Finish is only logged: the goroutine goes on
Record(t) ==
  /\ executor[t] = "record"
  /\ executor' = [executor EXCEPT ![t] = "release"]
  /\ \/ /\ Finish(t, outcome[t])
        /\ UNCHANGED faults
     \/ Fault
  /\ UNCHANGED <<up, memoryVars, processing, loop, outcome, rollup, client,
                 answer, starts, exits>>

\* Slip: the lock is never given back
HolderKept(t) == holder

\* q.categories once t has given its lock back
HolderWithout(t) ==
  [c \in Category |-> IF c = CategoryOf[t] /\ holder[c] = t THEN None ELSE holder[c]]

Release(t) ==
  /\ executor[t] = "release"
  /\ inFlight' = inFlight \ {t}
  /\ cancelled' = cancelled \ {t}
  /\ holder' = HolderWithout(t)
  /\ executor' = [executor EXCEPT ![t] = IF ParentOf[t] = None THEN "done"
                                         ELSE "report"]
  /\ outcome' = [outcome EXCEPT ![t] = None]
  /\ UNCHANGED <<rowVars, up, processing, loop, rollup, client, auxVars>>

Report(t) ==
  /\ executor[t] = "report"
  /\ BeginRollup(t, ParentOf[t])
  /\ executor' = [executor EXCEPT ![t] = "done"]
  /\ UNCHANGED <<rowVars, up, memoryVars, processing, loop, outcome, client,
                 auxVars>>

\* Slip: the task stays in q.running
ExecutorStepKept(t) == Decide(t) \/ Record(t) \/ Report(t)

ExecutorStep(t) == Decide(t) \/ Record(t) \/ Release(t) \/ Report(t)

----------------------------------------------------------------------------
(* Queue.Cancel run by API caller c.  cancelChildren calls Cancel again:    *)
(* stack holds the tasks whose Cancel is active, innermost first, todo and  *)
(* phase the cascade of each.                                               *)

At(c) == Head(client[c].stack)

Become(c, call) == client' = [client EXCEPT ![c] = call]

\* What Cancel does next with the status it has read
Branch(t) == CASE status[t] = "pending" -> "flip"
               [] status[t] = "running" -> "kill"
               [] OTHER -> "return"

\* Cancel returns; only the outermost answers the caller
Answering(call, said) ==
  [call EXCEPT !.pc = "return", !.said = IF Len(call.stack) = 1 THEN said ELSE @]

\* Slip: the parent is not rolled up
RollingNothing(call, said) == Answering(call, said)

\* ... once it has rolled up the task's parent, if it has one
Rolling(call, said) ==
  [Answering(call, said) EXCEPT
     !.pc = IF ParentOf[Head(call.stack)] = None THEN "return" ELSE "rollup"]

Cancel(c, t) ==
  /\ up
  /\ client[c] = NoCall
  /\ t \in Cancellable
  /\ status[t] # "absent"
  /\ Become(c, [NoCall EXCEPT !.pc = Branch(t), !.stack = <<t>>])
  /\ UNCHANGED <<rowVars, up, memoryVars, processing, loop, executor, outcome,
                 rollup, auxVars>>

Reread(c) ==
  /\ client[c].pc = "reread"
  /\ Become(c, [client[c] EXCEPT !.pc = Branch(At(c))])
  /\ UNCHANGED <<rowVars, up, memoryVars, processing, loop, executor, outcome,
                 rollup, auxVars>>

Flip(c) ==
  /\ client[c].pc = "flip"
  /\ CancelPending(At(c))
  /\ Become(c, IF status[At(c)] = "pending" THEN Rolling(client[c], "done")
               ELSE [client[c] EXCEPT !.pc = "reread"])
  /\ UNCHANGED <<up, memoryVars, processing, loop, executor, outcome, rollup,
                 auxVars>>

\* Under q.mu: flag the entry and cancel its context, if there is an entry
Kill(c) ==
  /\ client[c].pc = "kill"
  /\ \/ /\ At(c) \in inFlight
        /\ cancelled' = cancelled \cup {At(c)}
        /\ Become(c, Answering(client[c], "requested"))
     \/ /\ At(c) \notin inFlight
        /\ Become(c, [client[c] EXCEPT !.pc = "close"])
        /\ UNCHANGED cancelled
  /\ UNCHANGED <<rowVars, up, inFlight, holder, processing, loop, executor,
                 outcome, rollup, auxVars>>

\* Running in the table, not in this process: taken for an anchor
Close(c) ==
  /\ client[c].pc = "close"
  /\ Finish(At(c), "cancelled")
  /\ Become(c, [client[c] EXCEPT !.pc = "list", !.phase[At(c)] = "pending"])
  /\ UNCHANGED <<up, memoryVars, processing, loop, executor, outcome, rollup,
                 auxVars>>

ListChildren(c) ==
  /\ client[c].pc = "list"
  /\ LET p == At(c) IN
     Become(c, [client[c] EXCEPT !.pc = "cascade",
                  !.todo[p] = {t \in Children(p) : status[t] = client[c].phase[p]}])
  /\ UNCHANGED <<rowVars, up, memoryVars, processing, loop, executor, outcome,
                 rollup, auxVars>>

\* The next child of the list, newest first; then the other list; then done
Cascade(c) ==
  /\ client[c].pc = "cascade"
  /\ LET call == client[c]
         p    == At(c)
     IN  \/ \E t \in call.todo[p] :
              /\ \A s \in call.todo[p] : created[s] <= created[t]
              /\ Become(c, [call EXCEPT !.todo[p] = @ \ {t}, !.pc = Branch(t),
                                        !.stack = <<t>> \o @])
         \/ /\ call.todo[p] = {} /\ call.phase[p] = "pending"
            /\ Become(c, [call EXCEPT !.pc = "list", !.phase[p] = "running"])
         \/ /\ call.todo[p] = {} /\ call.phase[p] = "running"
            /\ Become(c, Rolling(call, "done"))
  /\ UNCHANGED <<rowVars, up, memoryVars, processing, loop, executor, outcome,
                 rollup, auxVars>>

CancelRollup(c) ==
  /\ client[c].pc = "rollup"
  /\ BeginRollup(c, ParentOf[At(c)])
  /\ Become(c, [client[c] EXCEPT !.pc = "return"])
  /\ UNCHANGED <<rowVars, up, memoryVars, processing, loop, executor, outcome,
                 auxVars>>

\* Back into the cascade that called, or out to the API
Return(c) ==
  /\ client[c].pc = "return"
  /\ rollup[c] = NoRollup
  /\ \/ /\ Len(client[c].stack) > 1
        /\ Become(c, [client[c] EXCEPT !.pc = "cascade", !.stack = Tail(@)])
        /\ UNCHANGED answer
     \/ /\ Len(client[c].stack) = 1
        /\ Become(c, NoCall)
        /\ answer' = IF client[c].said = "none" THEN answer
                     ELSE [answer EXCEPT ![At(c)] = client[c].said]
  /\ UNCHANGED <<rowVars, up, memoryVars, processing, loop, executor, outcome,
                 rollup, starts, exits, faults>>

\* chainWaitFor over <<d, t>>: both still unfinished, then t waits on d
Chain(c, d, t) ==
  /\ up
  /\ client[c] = NoCall
  /\ <<d, t>> \in WaitFor
  /\ {status[d], status[t]} \subseteq Unfinished
  /\ Become(c, [NoCall EXCEPT !.pc = "chain", !.stack = <<t>>, !.behind = d])
  /\ UNCHANGED <<rowVars, up, memoryVars, processing, loop, executor, outcome,
                 rollup, auxVars>>

ChainSet(c) ==
  /\ client[c].pc = "chain"
  /\ SetDependsOn(At(c), client[c].behind)
  /\ Become(c, NoCall)
  /\ UNCHANGED <<up, memoryVars, processing, loop, executor, outcome, rollup,
                 auxVars>>

\* A statement of a Cancel fails: the call returns its error, a failed List of
\* the cascade is skipped
ClientFails(c) ==
  /\ client[c].pc \in {"reread", "flip", "close", "list"}
  /\ Fault
  /\ Become(c, IF client[c].pc # "list" THEN [client[c] EXCEPT !.pc = "return"]
               ELSE [client[c] EXCEPT !.pc = "cascade", !.todo[At(c)] = {}])
  /\ UNCHANGED <<up, memoryVars, processing, loop, executor, outcome, rollup,
                 answer, starts, exits>>

ClientStep(c) ==
  \/ Reread(c) \/ Flip(c) \/ Kill(c) \/ Close(c) \/ ListChildren(c) \/ Cascade(c)
  \/ CancelRollup(c) \/ Return(c) \/ ChainSet(c)

----------------------------------------------------------------------------
(* Other writers of the table                                              *)

\* An INSERT names only rows its caller already knows
NewTask(t) ==
  /\ up
  /\ \A s \in {ParentOf[t], DependsOnOf[t]} \ {None} : status[s] # "absent"
  /\ Create(t)
  /\ UNCHANGED <<up, memoryVars, processing, loop, executor, outcome, rollup,
                 client, auxVars>>

\* The upload's bytes have landed
Land(t) ==
  /\ up
  /\ Requeue(t)
  /\ UNCHANGED <<up, memoryVars, processing, loop, executor, outcome, rollup,
                 client, auxVars>>

\* The reconciler's cancelPendingTasks: the statement alone, no rollup
Prune(t) ==
  /\ up
  /\ t \in Prunable
  /\ CancelPending(t)
  /\ UNCHANGED <<up, memoryVars, processing, loop, executor, outcome, rollup,
                 client, auxVars>>

\* DELETE /api/tasks/completed
Clear ==
  /\ up /\ Deletion
  /\ DeleteFinished
  /\ UNCHANGED <<up, memoryVars, processing, loop, executor, outcome, rollup,
                 client, auxVars>>

\* The retention cleanup, from the loop's slow tick or the API; the cutoff is
\* a time, which falls somewhere in the order of insertion
Retire ==
  /\ up /\ Deletion
  /\ \E cutoff \in 1 .. Cardinality(Task) + 1 : DeleteFinishedBefore(cutoff)
  /\ UNCHANGED <<up, memoryVars, processing, loop, executor, outcome, rollup,
                 client, auxVars>>

----------------------------------------------------------------------------
(* Stop, the end of the process, and Start                                 *)

Stop ==
  /\ up /\ processing
  /\ exits < MaxExits
  /\ processing' = FALSE
  /\ cancelled' = inFlight
  /\ UNCHANGED <<rowVars, up, inFlight, holder, loop, executor, outcome, rollup,
                 client, auxVars>>

\* After an orderly Stop or a crash at any point: everything in memory is gone
Exit ==
  /\ up
  /\ exits < MaxExits
  /\ exits' = exits + 1
  /\ up' = FALSE
  /\ processing' = FALSE
  /\ inFlight' = {}
  /\ cancelled' = {}
  /\ holder' = [c \in Category |-> None]
  /\ loop' = LoopAt("exited")
  /\ executor' = [t \in Task |-> "none"]
  /\ outcome' = [t \in Task |-> None]
  /\ rollup' = [a \in Actor |-> NoRollup]
  /\ client' = [c \in Client |-> NoCall]
  /\ UNCHANGED <<rowVars, answer, starts, faults>>

\* Start, before the HTTP server accepts its first request
Boot ==
  /\ ~up
  /\ up' = TRUE
  /\ Recover(ResumePending)
  /\ processing' = TRUE
  /\ loop' = LoopAt("wait")
  /\ UNCHANGED <<memoryVars, executor, outcome, rollup, client, auxVars>>

RollupStep(a) == CountChildren(a) \/ FinishParent(a)

Next ==
  \/ LoopStep
  \/ \E t \in Task : ExecutorStep(t)
  \/ \E a \in Actor : RollupStep(a)
  \/ \E c \in Client : ClientStep(c)
  \/ \E c \in Client, t \in Task : Cancel(c, t)
  \/ \E c \in Client, d \in Task, t \in Task : Chain(c, d, t)
  \/ \E t \in Task : NewTask(t) \/ Land(t) \/ Prune(t)
  \/ Clear \/ Retire
  \/ Stop \/ Exit \/ Boot
  \/ TickFails
  \/ \E a \in Actor : RollupFails(a)
  \/ \E c \in Client : ClientFails(c)

Spec == Init /\ [][Next]_vars

(***************************************************************************)
(* Goroutines are scheduled, the ticker ticks, SQL statements and requests *)
(* return, executors return (they run under deadlines or their context),   *)
(* Stop is called on the way out of the process, and a dead agent is       *)
(* started again.  Nothing forces a request to be made, a finished row to  *)
(* be deleted or an upload to land.                                        *)
(***************************************************************************)
ExitAfterStop == ~processing /\ Exit

Fairness ==
  /\ WF_vars(LoopStep)
  /\ \A t \in Task : WF_vars(ExecutorStep(t))
  /\ \A a \in Actor : WF_vars(RollupStep(a))
  /\ \A c \in Client : WF_vars(ClientStep(c))
  /\ WF_vars(ExitAfterStop)
  /\ WF_vars(Boot)

FairSpec == Spec /\ Fairness

----------------------------------------------------------------------------
(* Types *)

RollupRecord ==
  {NoRollup}
    \cup [pc : {"count"}, parent : Task, verdict : {None}]
    \cup [pc : {"write"}, parent : Task, verdict : Finished]

LoopRecord ==
  [pc : {"wait", "sweep", "report", "exited"}, busy : SUBSET Machine,
   parents : SUBSET Task, pick : {None}]
    \cup [pc : {"gate", "mark", "admit"}, busy : SUBSET Machine,
          parents : SUBSET Task, pick : Task]

CallRecord ==
  {NoCall}
    \cup [pc : {"reread", "flip", "kill", "close", "list", "cascade", "rollup",
                "return", "chain"},
          stack : Seq(Task) \ {<<>>}, behind : TaskOrNone,
          said : {"none", "done", "requested"},
          todo : [Task -> SUBSET Task], phase : [Task -> {"pending", "running"}]]

\* Every column and every field holds a value the code can store in it; in
\* particular updateParentProgress never finishes a parent as "running".
TypeOK ==
  /\ status \in [Task -> Status]
  /\ dependsOn \in [Task -> TaskOrNone]
  /\ created \in [Task -> Nat]
  /\ up \in BOOLEAN
  /\ inFlight \subseteq Task
  /\ cancelled \subseteq Task
  /\ holder \in [Category -> TaskOrNone]
  /\ processing \in BOOLEAN
  /\ loop \in LoopRecord
  /\ executor \in [Task -> {"none", "run", "record", "release", "report", "done"}]
  /\ outcome \in [Task -> {"completed", "failed", "cancelled", None}]
  /\ rollup \in [Actor -> RollupRecord]
  /\ client \in [Client -> CallRecord]
  /\ answer \in [Task -> {"none", "done", "requested"}]
  /\ starts \in [Task -> Nat]
  /\ exits \in Nat
  /\ faults \in Nat
  /\ \A t \in Task : executor[t] = "record" => outcome[t] \in Finished
  /\ \A t \in Task : executor[t] = "report" => ParentOf[t] # None
  /\ \A c \in Client : client[c].pc = "rollup" => ParentOf[At(c)] # None

----------------------------------------------------------------------------
(* Safety *)

\* tick's "one running task per machine": two executors never work on the same
\* machine, although the busy set is read long before the picked task is
\* admitted and executors come and go in between.  Exempt scopes are exempt.
MachineExclusive ==
  \A s, t \in Executing :
    s # t /\ MachineOf[s] = MachineOf[t] => MachineOf[s] \in ExemptScopes

\* "at most one task of a category runs at a time" (categories.go), although the
\* lock is tested in one section of q.mu and taken in a later one.
CategoryExclusive ==
  \A s, t \in Executing :
    s # t /\ CategoryOf[s] = CategoryOf[t] => CategoryOf[s] = None

\* MaxConcurrent caps simultaneously running tasks, although the cap is tested
\* at the start of the tick and the task is admitted at its end.
WithinCapacity == Cardinality(Executing) <= MaxConcurrent

\* q.running and q.categories agree with the executor goroutines at all times:
\* a category is locked exactly by the executing task of that category, so no
\* lock outlives its task and no executing task lost its lock.
LocksFollowExecution ==
  /\ inFlight = Executing
  /\ cancelled \subseteq inFlight
  /\ \A c \in Category :
       {t \in Executing : CategoryOf[t] = c} =
         (IF holder[c] = None THEN {} ELSE {holder[c]})

\* No task is ever executed twice: not by a later tick, not after a restart,
\* with or without the resumable queue, whatever was cancelled in between.
AtMostOnce == \A t \in Task : starts[t] <= 1

\* In a live agent whose statements succeed, a row that is "running" and is not
\* a progress anchor belongs to a task in flight, or to the one the loop is
\* about to admit: no row is left "running" by a crash, a stop or a race.
NoOrphanRunning ==
  up /\ faults = 0 =>
    \A t \in Task \ Anchors :
      status[t] = "running" => t \in inFlight \/ (loop.pc = "admit" /\ loop.pick = t)

\* A task whose depends_on is set executes only once its predecessor has, not
\* while it still runs and not after it failed (NextPending's join, "its failure
\* or cancellation cancels this task"), whatever Cancel, the sweep, a restart or
\* a deletion does between the pick and the end of the execution.
PredecessorOver ==
  \A t \in Executing :
    dependsOn[t] # None =>
      /\ status[dependsOn[t]] \notin Unfinished \cup {"failed"}
      /\ executor[dependsOn[t]] \notin {"run", "record"}

----------------------------------------------------------------------------
(* Liveness *)

\* Every queued task ends: it runs, or a failed or cancelled predecessor takes
\* it down (CancelDependents), through cancels, stops, crashes and restarts.
EveryTaskSettles ==
  \A t \in Task : (status[t] = "pending") ~> (status[t] \in Finished)

\* An anchor all of whose children are finished is finished too: whichever of
\* the executors, the sweep, a Cancel or a restart ended the last child ran
\* updateParentProgress after it.
ChildrenOver(p) == Children(p) # {} /\ \A t \in Children(p) : status[t] \in Finished

AnchorSettles ==
  \A p \in Anchors :
    (status[p] = "running" /\ ChildrenOver(p)) ~> (status[p] # "running")

----------------------------------------------------------------------------
(* The abstract specification: Spec implements Dispatch!Spec, and FairSpec   *)
(* Dispatch!FairSpec, when the executing tasks are those with a goroutine    *)
(* that has not given its locks back.                                       *)

Ran == {t \in Task : starts[t] > 0}

Dispatch == INSTANCE ExclusiveDispatch WITH executing <- Executing, ran <- Ran

\* The whole queue, with its stale snapshots, races, failing statements, stops
\* and crashes, never does more than ExclusiveDispatch allows: see there.
ImplementsDispatch == Dispatch!Spec

\* ... and it ends every execution it starts.
ImplementsFairDispatch == Dispatch!FairSpec

----------------------------------------------------------------------------
(* Why it does: the inductive invariant behind the exclusion, the cap and   *)
(* the at-most-once promise.                                                *)

\* Locks and executors agree
Locks ==
  /\ inFlight = Executing
  /\ cancelled \subseteq inFlight
  /\ \A t \in inFlight : CategoryOf[t] # None => holder[CategoryOf[t]] = t
  /\ \A c \in Category : holder[c] # None => /\ holder[c] \in inFlight
                                             /\ CategoryOf[holder[c]] = c

\* Only the loop adds to q.running, so what a tick saw stays an upper bound
Snapshot ==
  /\ Cardinality(inFlight) <= MaxConcurrent
  /\ loop.pc \notin {"wait", "exited"} =>
       Cardinality(inFlight) < MaxConcurrent /\ BusyMachines \subseteq loop.busy
  /\ loop.pc \in {"gate", "mark", "admit"} => MachineOf[loop.pick] \notin loop.busy
  /\ loop.pc \in {"mark", "admit"} => CategoryFree(loop.pick)

\* A task that was started is past the statuses a tick can pick it from
Fresh == {"absent", "prepared", "pending"}

Once ==
  /\ \A t \in Task : starts[t] <= 1
  /\ \A t \in Executing : starts[t] = 1
  /\ \A t \in Task : status[t] \in Fresh => starts[t] = 0
  /\ \A t \in Anchors : status[t] \notin {"prepared", "pending"}
  /\ loop.pc \in {"gate", "mark", "admit"} =>
       /\ loop.pick \notin Anchors
       /\ starts[loop.pick] = 0
       /\ status[loop.pick] \notin {"absent", "prepared"}
  /\ loop.pc = "admit" => status[loop.pick] # "pending"

\* The queue's locks, its snapshots and the status column together keep two
\* executors apart; no part of it is inductive alone.
DispatchInv ==
  /\ Locks
  /\ \A s, t \in inFlight : s # t => Dispatch!Compatible(s, t)
  /\ Snapshot
  /\ Once

----------------------------------------------------------------------------
(* Claims of the documentation that the code does not keep                 *)

\* "Pending tasks flip to cancelled immediately" (parent.go): a task a Cancel
\* answered for as cancelled, "Task cancelled successfully", does not execute.
CancelledDoesNotExecute == \A t \in Executing : answer[t] # "done"

\* "the task lands in cancelled" (parent.go): a task a Cancel answered for as
\* "cancellation requested" is cancelled once its goroutine has recorded it.
RequestedLandsCancelled ==
  \A t \in Task : answer[t] = "requested" /\ executor[t] \in {"report", "done"}
                    => status[t] \in {"cancelled", "deleted"}

\* "flips it to its terminal state once every child is done" (parent.go): an
\* anchor whose children succeed is not finished while one of them is not.
AnchorFinishesLast ==
  \A p \in Anchors : status[p] = "completed" =>
    \A t \in Children(p) : status[t] \in Finished
=============================================================================
