--------------------------- MODULE TaskOrderProofs ---------------------------
(***************************************************************************)
(* What the queue leaves of a row and of an order: no row stays "running"  *)
(* without an executor (NoOrphanRunning), and no task executes before its  *)
(* predecessor is over (PredecessorOver).                                  *)
(***************************************************************************)
EXTENDS TaskQueueProofs

----------------------------------------------------------------------------
(* No statement but MarkRunning makes a task that is no anchor "running"   *)

NoneRuns == \A t \in Task \ Anchors : status'[t] = "running" => status[t] = "running"

LEMMA RowsKeptNoneRuns == ASSUME UNCHANGED rowVars PROVE NoneRuns
BY DEF NoneRuns, rowVars

LEMMA FinishNoneRuns ==
  ASSUME RowsOK, NEW t, NEW s \in Finished, Finish(t, s)
  PROVE  NoneRuns
BY DEF RowsOK, Finish, SetStatus, NoneRuns, Finished

LEMMA StatementNoneRuns ==
  ASSUME RowsOK, NEW t, NEW d,
         \/ CancelPending(t) \/ CancelDependents \/ Requeue(t) \/ SetDependsOn(t, d)
         \/ DeleteFinished \/ DeleteFinishedBefore(d)
  PROVE  NoneRuns
BY DEF RowsOK, CancelPending, CancelDependents, Requeue, SetDependsOn, DeleteFinished,
       DeleteFinishedBefore, NoneRuns

LEMMA CreateNoneRuns ==
  ASSUME RowsOK, NEW t \in Task, Create(t)
  PROVE  NoneRuns
BY DEF RowsOK, Create, NoneRuns

\* A row that is running has an executor, or is about to get one; an executor that has recorded
\* its outcome has ended its row.
OrphanInv ==
  faults = 0 =>
    /\ NoOrphanRunning
    /\ \A t \in Task \ Anchors : executor[t] = "release" => status[t] # "running"

LEMMA OrphanKept ==
  ASSUME OrphanInv, NoneRuns, UNCHANGED up, inFlight \subseteq inFlight',
         loop' = loop \/ loop.pc # "admit",
         \A t \in Task : executor'[t] = "release" => executor[t] = "release",
         faults' = 0 => faults = 0
  PROVE  OrphanInv'
BY DEF OrphanInv, NoOrphanRunning, NoneRuns

LEMMA OrphanRollup ==
  ASSUME TypeOK, OrphanInv, NEW a \in Actor,
         CountChildren(a) \/ FinishParent(a) \/ RollupFails(a)
  PROVE  OrphanInv'
<1> USE TypeParts
<1>1. CASE CountChildren(a)
  BY <1>1, RowsKeptNoneRuns, OrphanKept DEF CountChildren, memoryVars, auxVars
<1>2. CASE FinishParent(a)
  <2>1. rollup[a].verdict \in Finished
    BY <1>2 DEF FinishParent, RollupRecord, NoRollup
  <2> QED
    BY <1>2, <2>1, FinishNoneRuns, OrphanKept DEF FinishParent, memoryVars, auxVars
<1>3. CASE RollupFails(a)
  BY <1>3, RowsKeptNoneRuns, OrphanKept DEF RollupFails, Fault, MemoryOK, memoryVars
<1> QED
  BY <1>1, <1>2, <1>3

LEMMA OrphanExecutor ==
  ASSUME TypeOK, DispatchInv, OrphanInv, NEW t \in Task, ExecutorStep(t)
  PROVE  OrphanInv'
<1> USE TypeParts
<1>0. executor \in [Task -> {"none", "run", "record", "release", "report", "done"}]
  BY DEF MemoryOK
<1>1. CASE Decide(t) \/ Report(t)
  <2>1. \A s \in Task : executor'[s] = "release" => executor[s] = "release"
    BY <1>0, <1>1 DEF Decide, Report
  <2> QED
    BY <1>1, <2>1, RowsKeptNoneRuns, OrphanKept DEF Decide, Report, memoryVars, auxVars
<1>2. CASE Record(t)
  <2>1. outcome[t] \in Finished
    BY <1>2 DEF Record, MemoryOK
  <2>2. NoneRuns
    BY <1>2, <2>1, FinishNoneRuns, RowsKeptNoneRuns DEF Record, Fault
  <2>3. faults' = 0 => faults = 0 /\ Finish(t, outcome[t])
    BY <1>2 DEF Record, Fault, MemoryOK
  <2>4. faults' = 0 => status'[t] # "running"
    BY <2>1, <2>3 DEF Finish, SetStatus, Present, Finished, Unfinished, RowsOK
  <2>5. \A s \in Task : s # t => executor'[s] = executor[s]
    BY <1>0, <1>2 DEF Record
  <2>6. UNCHANGED <<up, inFlight, loop>>
    BY <1>2 DEF Record, memoryVars
  <2> QED
    BY <2>2, <2>3, <2>4, <2>5, <2>6 DEF OrphanInv, NoOrphanRunning, NoneRuns
<1>3. CASE Release(t)
  <2>1. /\ UNCHANGED <<up, loop, rowVars, faults>> /\ inFlight' = inFlight \ {t}
        /\ executor[t] = "release" /\ executor'[t] # "release"
        /\ \A s \in Task : s # t => executor'[s] = executor[s]
    BY <1>0, <1>3 DEF Release, auxVars
  <2> QED
    BY <2>1 DEF OrphanInv, NoOrphanRunning, rowVars
<1> QED
  BY <1>1, <1>2, <1>3 DEF ExecutorStep

LEMMA OrphanClient ==
  ASSUME TypeOK, OrphanInv, NEW c \in Client,
         ClientStep(c) \/ ClientFails(c) \/ (\E t \in Task : Cancel(c, t))
           \/ (\E d \in Task, t \in Task : Chain(c, d, t))
  PROVE  OrphanInv'
<1> USE TypeParts DEF memoryVars, auxVars
<1>1. CASE Flip(c) \/ ChainSet(c)
  BY <1>1, StatementNoneRuns, OrphanKept DEF Flip, ChainSet
<1>2. CASE Close(c)
  BY <1>2, FinishNoneRuns, OrphanKept DEF Close, Finished
<1>3. CASE Kill(c) \/ Return(c) \/ Reread(c)
  BY <1>3, RowsKeptNoneRuns, OrphanKept DEF Kill, Return, Reread
<1>4. CASE ListChildren(c) \/ Cascade(c) \/ CancelRollup(c)
  BY <1>4, RowsKeptNoneRuns, OrphanKept DEF ListChildren, Cascade, CancelRollup
<1>5. CASE ClientFails(c)
  BY <1>5, RowsKeptNoneRuns, OrphanKept DEF ClientFails, Fault, MemoryOK
<1>6. CASE (\E t \in Task : Cancel(c, t)) \/ (\E d \in Task, t \in Task : Chain(c, d, t))
  BY <1>6, RowsKeptNoneRuns, OrphanKept DEF Cancel, Chain
<1> QED
  BY <1>1, <1>2, <1>3, <1>4, <1>5, <1>6 DEF ClientStep

LEMMA OrphanWriter ==
  ASSUME TypeOK, OrphanInv,
         Clear \/ Retire \/ Stop \/ (\E t \in Task : NewTask(t) \/ Land(t) \/ Prune(t))
  PROVE  OrphanInv'
<1> USE TypeParts DEF memoryVars, auxVars
<1>1. ASSUME NEW t \in Task, NewTask(t) \/ Land(t) \/ Prune(t) PROVE OrphanInv'
  BY <1>1, CreateNoneRuns, StatementNoneRuns, OrphanKept DEF NewTask, Land, Prune
<1>2. CASE Clear \/ Retire
  BY <1>2, StatementNoneRuns, OrphanKept DEF Clear, Retire
<1>3. CASE Stop
  BY <1>3, RowsKeptNoneRuns, OrphanKept DEF Stop
<1> QED
  BY <1>1, <1>2, <1>3

LEMMA OrphanLoop ==
  ASSUME TypeOK, DispatchInv, OrphanInv, LoopStep \/ TickFails
  PROVE  OrphanInv'
<1> USE TypeParts DEF memoryVars, auxVars
<1>1. CASE Tick \/ LoopExit \/ SweepRollup \/ Pick \/ Gate
  BY <1>1, RowsKeptNoneRuns, OrphanKept DEF Tick, LoopExit, SweepRollup, Pick, Gate
<1>2. CASE Sweep
  BY <1>2, StatementNoneRuns, OrphanKept DEF Sweep
<1>3. CASE TickFails
  BY <1>3, RowsKeptNoneRuns, OrphanKept DEF TickFails, Fault, MemoryOK
<1>4. CASE Mark
  <2>1. /\ UNCHANGED <<up, inFlight, executor, faults>>
        /\ loop.pc = "mark" /\ loop'.pc = "admit" /\ loop'.pick = loop.pick /\ loop.pick \in Task
    BY <1>4 DEF Mark, LoopRecord
  <2>2. \A t \in Task : t # loop.pick => status'[t] = status[t]
    BY <1>4 DEF Mark, MarkRunning, SetStatus, RowsOK
  <2>3. executor[loop.pick] # "release"
    BY <2>1 DEF DispatchInv, Once, Executing
  <2> QED
    BY <2>1, <2>2, <2>3 DEF OrphanInv, NoOrphanRunning
<1>5. CASE Admit
  <2>1. /\ UNCHANGED <<up, rowVars, faults>> /\ inFlight' = inFlight \cup {loop.pick}
        /\ loop.pick \in Task
        /\ \A t \in Task : executor'[t] = "release" => executor[t] = "release"
    BY <1>5 DEF Admit, LoopRecord, MemoryOK
  <2> QED
    BY <2>1 DEF OrphanInv, NoOrphanRunning, rowVars
<1> QED
  BY <1>1, <1>2, <1>3, <1>4, <1>5 DEF LoopStep

\* A live agent whose statements succeed has no row "running" without an executor: see
\* NoOrphanRunning.
THEOREM NoRowOrphaned == Spec => []NoOrphanRunning
<1>1. Init => OrphanInv
  BY DEF Init, StoreInit, OrphanInv, NoOrphanRunning
<1>2. ASSUME TypeOK, DispatchInv, OrphanInv, [Next]_vars PROVE OrphanInv'
  <2> USE TypeParts, <1>2
  <2>1. CASE Exit
    BY <2>1 DEF Exit, OrphanInv, NoOrphanRunning
  <2>2. CASE Boot
    <3>1. \A t \in Task : status'[t] # "running"
      BY <2>2 DEF Boot, Recover
    <3> QED
      BY <3>1 DEF OrphanInv, NoOrphanRunning
  <2>3. CASE UNCHANGED vars
    BY <2>3, RowsKeptNoneRuns, OrphanKept DEF vars, memoryVars, auxVars
  <2> QED
    BY <2>1, <2>2, <2>3, OrphanRollup, OrphanExecutor, OrphanClient, OrphanWriter, OrphanLoop
       DEF Next, RollupStep
<1>3. ASSUME TypeOK, OrphanInv PROVE NoOrphanRunning
  BY <1>3 DEF OrphanInv, NoOrphanRunning
<1> QED
  BY <1>1, <1>2, <1>3, TypeCorrect, DispatchCorrect, PTL DEF Spec

----------------------------------------------------------------------------
(* The order of dependent tasks                                            *)

\* The tasks that have children: the only ones a rollup finishes
Parents == {ParentOf[t] : t \in Task} \ {None}

\* The tasks that wait for what their INSERT named, which is no parent, and that no wait_for
\* ever chains behind another: ChainSet may re-chain a row the loop has already picked.
Plain == {t \in Task : DependsOnOf[t] \notin Parents /\ \A d \in Task : <<d, t>> \notin WaitFor}

\* The task's executor has run, and is past recording its outcome
Ended(t) == starts[t] = 1 /\ executor[t] \notin {"run", "record"}

Over(t) == status[t] \in {"completed", "cancelled", "deleted"} /\ Ended(t)

\* The tasks the loop has taken out of the queue
Chosen(t) == t \in Executing \/ (loop.pc \in {"gate", "mark", "admit"} /\ loop.pick = t)

RollupInv ==
  /\ loop.parents \subseteq Parents
  /\ \A a \in Actor : rollup[a].pc # "none" => rollup[a].parent \in Parents

ChainInv == \A c \in Client : client[c].pc = "chain" => <<client[c].behind, At(c)>> \in WaitFor

CompletedInv == \A t \in Task \ Parents : status[t] = "completed" => Ended(t)

DependInv == \A t \in Plain : dependsOn[t] \in {None, DependsOnOf[t]}

ChosenInv == \A t \in Plain : Chosen(t) /\ dependsOn[t] # None => Over(dependsOn[t])

OrderInv == RollupInv /\ ChainInv /\ CompletedInv /\ DependInv /\ ChosenInv

\* What a step may do to the end of a task that is no parent
EndStep ==
  \A t \in Task \ Parents : /\ Over(t) => Over(t)'
                            /\ status'[t] = "completed" => Ended(t)'

\* What a statement may do to it
EndsKept ==
  \A t \in Task \ Parents :
    /\ status'[t] = "completed" => status[t] = "completed"
    /\ status[t] \in {"completed", "cancelled", "deleted"}
         => status'[t] \in {"completed", "cancelled", "deleted"}

LEMMA RowsKeptEnds == ASSUME UNCHANGED rowVars PROVE EndsKept
BY DEF EndsKept, rowVars

LEMMA StatementEnds ==
  ASSUME RowsOK, NEW t, NEW d,
         \/ CancelPending(t) \/ CancelDependents \/ Requeue(t) \/ SetDependsOn(t, d)
         \/ DeleteFinished \/ DeleteFinishedBefore(d)
  PROVE  EndsKept
BY DEF RowsOK, CancelPending, CancelDependents, Requeue, SetDependsOn, DeleteFinished,
       DeleteFinishedBefore, EndsKept, Doomed

LEMMA CreateEnds ==
  ASSUME RowsOK, NEW t \in Task, Create(t)
  PROVE  EndsKept
BY DEF RowsOK, Create, EndsKept

LEMMA FinishEnds ==
  ASSUME RowsOK, NEW t, NEW s, Finish(t, s), t \in Parents \/ s = "cancelled"
  PROVE  EndsKept
BY DEF RowsOK, Finish, SetStatus, EndsKept

LEMMA RecoverEnds ==
  ASSUME RowsOK, Recover(ResumePending)
  PROVE  EndsKept
BY DEF RowsOK, Recover, EndsKept

LEMMA EndsKeptStep ==
  ASSUME CompletedInv, EndsKept, UNCHANGED starts,
         \A t \in Task : executor'[t] \in {"run", "record"} => executor[t] \in {"run", "record"}
  PROVE  EndStep
BY DEF CompletedInv, EndsKept, EndStep, Over, Ended

LEMMA BecomeChain ==
  ASSUME CallsOK, ChainInv, NEW c \in Client, NEW call, Become(c, call), call.pc # "chain"
  PROVE  ChainInv'
BY DEF CallsOK, ChainInv, Become, At

LEMMA BeginRollupParents ==
  ASSUME rollup \in [Actor -> RollupRecord], RollupInv, NEW a \in Actor, NEW q \in Parents,
         BeginRollup(a, q)
  PROVE  \A b \in Actor : rollup'[b].pc # "none" => rollup'[b].parent \in Parents
BY DEF RollupInv, BeginRollup

\* A predecessor of a plain task is no parent, and what the loop has chosen keeps waiting for it
LEMMA OrderKept ==
  ASSUME TypeOK, OrderInv, EndStep, RollupInv', ChainInv',
         \A t \in Plain : dependsOn'[t] \in {dependsOn[t], DependsOnOf[t]},
         \A t \in Plain : Chosen(t) => dependsOn'[t] = dependsOn[t],
         \A t \in Plain : Chosen(t)' /\ dependsOn'[t] # None
                            => Chosen(t) \/ (Over(dependsOn[t]))'
  PROVE  OrderInv'
<1>1. CompletedInv'
  BY DEF EndStep, CompletedInv, Ended
<1>2. DependInv'
  BY DEF OrderInv, DependInv
<1>3. ChosenInv'
  <2> SUFFICES ASSUME NEW t \in Plain, Chosen(t)', dependsOn'[t] # None
               PROVE  (Over(dependsOn[t]))'
    BY DEF ChosenInv
  <2>1. CASE ~Chosen(t)
    BY <2>1
  <2>2. CASE Chosen(t)
    <3>1. dependsOn'[t] = dependsOn[t] /\ Over(dependsOn[t])
      BY <2>2 DEF OrderInv, ChosenInv
    <3>2. dependsOn[t] \in Task \ Parents
      BY <3>1, WorkloadAssumption DEF OrderInv, DependInv, Plain, TaskOrNone
    <3> QED
      BY <3>1, <3>2 DEF EndStep, Over, Ended
  <2> QED
    BY <2>1, <2>2
<1> QED
  BY <1>1, <1>2, <1>3 DEF OrderInv

LEMMA OrderRollup ==
  ASSUME TypeOK, DispatchInv, OrderInv, NEW a \in Actor,
         CountChildren(a) \/ FinishParent(a) \/ RollupFails(a)
  PROVE  OrderInv'
<1> USE TypeParts DEF memoryVars, auxVars
<1>0. /\ UNCHANGED <<executor, starts, loop, client, dependsOn>>
      /\ rollup' = [rollup EXCEPT ![a] = rollup'[a]]
      /\ rollup'[a].pc = "none" \/ rollup'[a].parent = rollup[a].parent
      /\ rollup[a].pc # "none"
  BY DEF CountChildren, Conclude, NoRollup, FinishParent, Finish, SetStatus, RollupFails,
         Fault, rowVars
<1>1. EndsKept
  <2>1. CASE FinishParent(a)
    BY <1>0, <2>1, FinishEnds DEF FinishParent, OrderInv, RollupInv
  <2> QED
    BY <2>1, RowsKeptEnds DEF CountChildren, RollupFails, Fault
<1>2. EndStep
  BY <1>0, <1>1, EndsKeptStep DEF OrderInv
<1>3. RollupInv'
  BY <1>0 DEF OrderInv, RollupInv
<1>4. ChainInv'
  BY <1>0 DEF OrderInv, ChainInv, At
<1> QED
  BY <1>0, <1>2, <1>3, <1>4, OrderKept DEF Chosen, Executing

LEMMA OrderExecutor ==
  ASSUME TypeOK, DispatchInv, OrderInv, NEW t \in Task, ExecutorStep(t)
  PROVE  OrderInv'
<1> USE TypeParts DEF memoryVars, auxVars
<1>0. executor \in [Task -> {"none", "run", "record", "release", "report", "done"}]
  BY DEF MemoryOK
<1>1. UNCHANGED <<starts, loop, client, dependsOn>>
  BY DEF ExecutorStep, Decide, Record, Release, Report, Finish, SetStatus, Fault, rowVars
<1>2. \A s \in Task \ {t} : executor'[s] = executor[s]
  BY <1>0 DEF ExecutorStep, Decide, Record, Release, Report
<1>3. t \in Executing' => t \in Executing
  BY <1>0 DEF ExecutorStep, Decide, Record, Release, Report, Executing
<1>4. EndStep
  <2>1. CASE Record(t)
    <3>1. outcome[t] \in Finished /\ executor[t] = "record" /\ executor'[t] = "release"
      BY <1>0, <2>1 DEF Record, MemoryOK
    <3>2. starts[t] = 1
      BY <3>1 DEF DispatchInv, Once, Executing
    <3>3. \A s \in Task \ {t} : status'[s] = status[s]
      BY <2>1 DEF Record, Finish, SetStatus, Fault, RowsOK, rowVars
    <3> QED
      BY <1>1, <1>2, <3>1, <3>2, <3>3 DEF EndStep, Over, Ended, OrderInv, CompletedInv
  <2>2. CASE Decide(t)
    <3>1. executor[t] = "run" /\ UNCHANGED status
      BY <2>2 DEF Decide, rowVars
    <3> QED
      BY <1>1, <1>2, <3>1 DEF EndStep, Over, Ended, OrderInv, CompletedInv
  <2>3. CASE Release(t) \/ Report(t)
    <3>1. executor'[t] \notin {"run", "record"} /\ UNCHANGED rowVars
      BY <1>0, <2>3 DEF Release, Report
    <3> QED
      BY <1>1, <1>2, <3>1, RowsKeptEnds, EndsKeptStep DEF OrderInv
  <2> QED
    BY <2>1, <2>2, <2>3 DEF ExecutorStep
<1>5. RollupInv'
  <2>1. CASE Report(t)
    <3>1. ParentOf[t] \in Parents /\ t \in Actor
      BY <2>1 DEF Report, MemoryOK, Parents, Actor
    <3>2. \A b \in Actor : rollup'[b].pc # "none" => rollup'[b].parent \in Parents
      BY <2>1, <3>1, BeginRollupParents DEF Report, OrderInv
    <3> QED
      BY <1>1, <3>2 DEF OrderInv, RollupInv
  <2>2. CASE UNCHANGED rollup
    BY <1>1, <2>2 DEF OrderInv, RollupInv
  <2> QED
    BY <2>1, <2>2 DEF ExecutorStep, Decide, Record, Release
<1>6. ChainInv'
  BY <1>1 DEF OrderInv, ChainInv, At
<1> QED
  BY <1>1, <1>2, <1>3, <1>4, <1>5, <1>6, OrderKept DEF Chosen, Executing

LEMMA OrderClient ==
  ASSUME TypeOK, DispatchInv, OrderInv, NEW c \in Client,
         ClientStep(c) \/ ClientFails(c) \/ (\E t \in Task : Cancel(c, t))
           \/ (\E d \in Task, t \in Task : Chain(c, d, t))
  PROVE  OrderInv'
<1> USE TypeParts DEF memoryVars, auxVars
<1>0. UNCHANGED <<starts, loop, executor>>
  BY DEF ClientStep, Reread, Flip, Kill, Close, ListChildren, Cascade, CancelRollup, Return,
         ChainSet, ClientFails, Cancel, Chain
<1>1. EndsKept
  <2>1. CASE Flip(c) \/ ChainSet(c)
    BY <2>1, StatementEnds DEF Flip, ChainSet
  <2>2. CASE Close(c)
    BY <2>2, FinishEnds DEF Close
  <2>3. CASE UNCHANGED rowVars
    BY <2>3, RowsKeptEnds
  <2> QED
    BY <2>1, <2>2, <2>3
       DEF ClientStep, Reread, Kill, ListChildren, Cascade, CancelRollup, Return,
           ClientFails, Fault, Cancel, Chain
<1>2. RollupInv'
  <2>1. CASE CancelRollup(c)
    <3>1. ParentOf[At(c)] \in Parents /\ c \in Actor
      BY <2>1, ActiveCall DEF CancelRollup, CallsOK, Parents, Actor
    <3>2. \A b \in Actor : rollup'[b].pc # "none" => rollup'[b].parent \in Parents
      BY <2>1, <3>1, BeginRollupParents DEF CancelRollup, OrderInv
    <3> QED
      BY <1>0, <3>2 DEF OrderInv, RollupInv
  <2>2. CASE UNCHANGED rollup
    BY <1>0, <2>2 DEF OrderInv, RollupInv
  <2> QED
    BY <2>1, <2>2
       DEF ClientStep, Reread, Flip, Kill, Close, ListChildren, Cascade, Return, ChainSet,
           ClientFails, Cancel, Chain
<1>3. ChainInv'
  <2>1. CASE \E d \in Task, t \in Task : Chain(c, d, t)
    <3>1. PICK d \in Task, t \in Task : Chain(c, d, t)
      BY <2>1
    <3>2. client' = [client EXCEPT ![c] = [NoCall EXCEPT !.pc = "chain", !.stack = <<t>>,
                                                         !.behind = d]]
      BY <3>1 DEF Chain, Become
    <3>3. client'[c].behind = d /\ Head(client'[c].stack) = t
      BY <3>2 DEF CallsOK, NoCall
    <3> QED
      BY <3>1, <3>2, <3>3 DEF Chain, OrderInv, ChainInv, At, CallsOK
  <2> USE BecomeChain DEF OrderInv
  <2>2. CASE (\E t \in Task : Cancel(c, t)) \/ Reread(c)
    BY <2>2, ActiveCall, BranchType DEF Cancel, Reread, NoCall, CallRecord
  <2>3. CASE Flip(c) \/ Kill(c) \/ Close(c)
    BY <2>3, ActiveCall DEF Flip, Rolling, Answering, Kill, Close, CallRecord
  <2>4. CASE ListChildren(c) \/ CancelRollup(c) \/ ClientFails(c)
    BY <2>4, ActiveCall DEF ListChildren, CancelRollup, ClientFails, CallRecord
  <2>5. CASE Cascade(c)
    <3>0. PICK call : call = client[c]
      OBVIOUS
    <3>1. call \in CallRecord \ {NoCall}
      BY <2>5, <3>0, ActiveCall DEF Cascade
    <3>2. ASSUME NEW t \in call.todo[At(c)],
                 Become(c, [call EXCEPT !.todo[At(c)] = @ \ {t}, !.pc = Branch(t),
                                        !.stack = <<t>> \o @])
          PROVE  ChainInv'
      BY <3>1, <3>2 DEF CallRecord, Branch
    <3>3. ASSUME Become(c, [call EXCEPT !.pc = "list", !.phase[At(c)] = "running"])
          PROVE  ChainInv'
      BY <3>1, <3>3 DEF CallRecord
    <3>4. ASSUME Become(c, Rolling(call, "done"))
          PROVE  ChainInv'
      BY <3>1, <3>4 DEF Rolling, Answering, CallRecord
    <3> QED
      BY <2>5, <3>0, <3>2, <3>3, <3>4 DEF Cascade
  <2>6. CASE Return(c) \/ ChainSet(c)
    BY <2>6, ActiveCall DEF Return, ChainSet, NoCall, CallRecord
  <2> QED
    BY <2>1, <2>2, <2>3, <2>4, <2>5, <2>6 DEF ClientStep
<1>4. \A t \in Plain : dependsOn'[t] = dependsOn[t]
  <2>1. CASE ChainSet(c)
    <3>1. <<client[c].behind, At(c)>> \in WaitFor
      BY <2>1 DEF ChainSet, OrderInv, ChainInv
    <3>2. client[c].behind \in Task
      BY <3>1, QueueAssumption
    <3>3. At(c) \notin Plain
      BY <3>1, <3>2 DEF Plain
    <3> QED
      BY <2>1, <3>3 DEF ChainSet, SetDependsOn, RowsOK
  <2> QED
    BY <2>1
       DEF ClientStep, Reread, Flip, Kill, Close, ListChildren, Cascade, CancelRollup, Return,
           ClientFails, Fault, Cancel, Chain, CancelPending, Finish, SetStatus, rowVars
<1> QED
  BY <1>0, <1>1, <1>2, <1>3, <1>4, EndsKeptStep, OrderKept DEF Chosen, Executing, OrderInv

LEMMA OrderWriter ==
  ASSUME TypeOK, DispatchInv, OrderInv,
         Clear \/ Retire \/ Stop \/ (\E t \in Task : NewTask(t) \/ Land(t) \/ Prune(t))
  PROVE  OrderInv'
<1> USE TypeParts DEF memoryVars, auxVars
<1>0. UNCHANGED <<starts, loop, executor, rollup, client>>
  BY DEF Clear, Retire, Stop, NewTask, Land, Prune
<1>1. EndsKept
  BY CreateEnds, StatementEnds, RowsKeptEnds DEF Clear, Retire, Stop, NewTask, Land, Prune
<1>2. RollupInv' /\ ChainInv'
  BY <1>0 DEF OrderInv, RollupInv, ChainInv, At
<1>3. CASE \E t \in Task : NewTask(t)
  <2>1. PICK t \in Task : Create(t)
    BY <1>3 DEF NewTask
  <2>2. /\ dependsOn'[t] = DependsOnOf[t]
        /\ \A s \in Task \ {t} : dependsOn'[s] = dependsOn[s]
    BY <2>1 DEF Create, RowsOK
  <2>3. ~Chosen(t)
    BY <2>1 DEF Create, Chosen, DispatchInv, Once, Fresh
  <2> QED
    BY <1>0, <1>1, <1>2, <2>2, <2>3, EndsKeptStep, OrderKept DEF Chosen, Executing, OrderInv, Plain
<1>4. CASE UNCHANGED dependsOn
  BY <1>0, <1>1, <1>2, <1>4, EndsKeptStep, OrderKept DEF Chosen, Executing, OrderInv
<1> QED
  BY <1>3, <1>4
     DEF Clear, Retire, Stop, Land, Prune, DeleteFinished, DeleteFinishedBefore, Requeue,
         CancelPending, rowVars

LEMMA OrderLoop ==
  ASSUME TypeOK, DispatchInv, OrderInv, LoopStep \/ TickFails
  PROVE  OrderInv'
<1> USE TypeParts DEF memoryVars, auxVars
<1>0. UNCHANGED <<client, dependsOn>> /\ ChainInv'
  BY DEF LoopStep, Tick, LoopExit, Sweep, SweepRollup, Pick, Gate, Mark, Admit, TickFails,
         CancelDependents, MarkRunning, SetStatus, Fault, rowVars, OrderInv, ChainInv, At
<1>1. CASE Tick \/ LoopExit \/ Sweep \/ SweepRollup \/ Gate \/ TickFails
  <2>1. UNCHANGED <<starts, executor>>
    BY <1>1 DEF Tick, LoopExit, Sweep, SweepRollup, Gate, TickFails
  <2>2. EndStep
    BY <1>1, <2>1, StatementEnds, RowsKeptEnds, EndsKeptStep
       DEF Tick, LoopExit, Sweep, SweepRollup, Gate, TickFails, Fault, OrderInv
  <2>3. loop'.pc \in {"gate", "mark", "admit"} => loop.pc = "gate" /\ loop'.pick = loop.pick
    <3>1. CASE Sweep \/ SweepRollup
      <4>1. loop'.pc = "report"
        BY <3>1 DEF Sweep, SweepRollup, LoopRecord
      <4> QED
        BY <4>1
    <3>2. CASE Gate
      BY <3>2 DEF Gate, LoopAt, LoopRecord
    <3>3. CASE Tick \/ LoopExit \/ TickFails
      BY <3>3 DEF Tick, LoopExit, TickFails, LoopAt
    <3> QED
      BY <1>1, <3>1, <3>2, <3>3
  <2>4. RollupInv'
    <3>1. CASE SweepRollup
      <4>1. PICK q \in loop.parents : /\ loop' = [loop EXCEPT !.parents = @ \ {q}]
                                      /\ BeginRollup(Loop, q)
        BY <3>1 DEF SweepRollup
      <4>2. q \in Parents
        BY <4>1 DEF OrderInv, RollupInv
      <4>3. \A b \in Actor : rollup'[b].pc # "none" => rollup'[b].parent \in Parents
        BY <4>1, <4>2, BeginRollupParents DEF OrderInv, Actor
      <4>4. loop'.parents \subseteq loop.parents
        BY <4>1 DEF LoopRecord
      <4> QED
        BY <4>3, <4>4 DEF OrderInv, RollupInv
    <3>2. CASE Sweep
      <4>1. loop'.parents = {ParentOf[t] : t \in Doomed} \ {None} /\ UNCHANGED rollup
        BY <3>2 DEF Sweep, LoopRecord
      <4>2. Doomed \subseteq Task
        BY DEF Doomed
      <4> QED
        BY <4>1, <4>2 DEF OrderInv, RollupInv, Parents
    <3>3. CASE Tick \/ LoopExit \/ Gate \/ TickFails
      <4>1. loop'.parents \subseteq loop.parents /\ UNCHANGED rollup
        BY <3>3 DEF Tick, LoopExit, Gate, TickFails, LoopAt, LoopRecord
      <4> QED
        BY <4>1 DEF OrderInv, RollupInv
    <3> QED
      BY <1>1, <3>1, <3>2, <3>3
  <2> QED
    BY <1>0, <2>1, <2>2, <2>3, <2>4, OrderKept DEF Chosen, Executing
<1>2. CASE Pick
  <2>1. UNCHANGED <<starts, executor, rowVars, rollup>>
    BY <1>2 DEF Pick
  <2>2. EndStep
    BY <2>1, RowsKeptEnds, EndsKeptStep DEF OrderInv
  <2>0. CASE loop' = LoopAt("wait")
    <3>1. RollupInv'
      BY <2>0, <2>1 DEF LoopAt, OrderInv, RollupInv
    <3>2. \A t \in Task : Chosen(t)' => Chosen(t)
      BY <2>0, <2>1 DEF LoopAt, Chosen, Executing
    <3> QED
      BY <1>0, <2>2, <3>1, <3>2, OrderKept DEF Plain
  <2> SUFFICES ASSUME NEW pick \in Task, IsNextPending(pick, loop.busy),
                      loop' = [loop EXCEPT !.pc = "gate", !.pick = pick]
               PROVE  OrderInv'
    BY <1>2, <2>0 DEF Pick
  <2>3. loop'.pc = "gate" /\ loop'.pick = pick /\ loop'.parents = loop.parents
    BY DEF LoopRecord
  <2>5. RollupInv'
    BY <2>1, <2>3 DEF OrderInv, RollupInv
  <2>4. ASSUME NEW t \in Plain, Chosen(t)', ~Chosen(t), dependsOn[t] # None
        PROVE  (Over(dependsOn[t]))'
    <3>1. t = pick
      BY <2>1, <2>3, <2>4 DEF Chosen, Executing
    <3>2. status[dependsOn[t]] = "completed"
      BY <2>4, <3>1 DEF IsNextPending, Runnable, DependencyMet
    <3>3. dependsOn[t] \in Task \ Parents
      BY <2>4, WorkloadAssumption DEF OrderInv, DependInv, Plain, TaskOrNone
    <3> QED
      BY <2>1, <3>2, <3>3 DEF OrderInv, CompletedInv, Over, Ended, rowVars
  <2> QED
    BY <1>0, <2>2, <2>4, <2>5, OrderKept
<1>3. CASE Mark
  <2>1. /\ UNCHANGED <<starts, executor, rollup>> /\ loop.pc = "mark" /\ loop'.pc = "admit"
        /\ loop'.pick = loop.pick /\ loop'.parents = loop.parents /\ loop.pick \in Task
    BY <1>3 DEF Mark, LoopRecord
  <2>2. \A t \in Task \ {loop.pick} : status'[t] = status[t]
    BY <1>3 DEF Mark, MarkRunning, SetStatus, RowsOK
  <2>3. status'[loop.pick] # "completed" \/ loop.pick \in Parents
    BY <1>3, <2>1 DEF Mark, MarkRunning, SetStatus, Present, RowsOK, Finished, OrderInv,
                      CompletedInv, Ended, DispatchInv, Once
  <2>4. EndStep
    BY <2>1, <2>2, <2>3 DEF EndStep, Over, Ended, OrderInv, CompletedInv, DispatchInv, Once
  <2>5. RollupInv'
    BY <2>1 DEF OrderInv, RollupInv
  <2> QED
    BY <1>0, <2>1, <2>4, <2>5, OrderKept DEF Chosen, Executing
<1>4. CASE Admit
  <2>1. /\ UNCHANGED <<rowVars, rollup>> /\ loop.pc = "admit" /\ loop'.pc = "wait"
        /\ loop'.parents = {} /\ loop.pick \in Task /\ starts[loop.pick] = 0
        /\ \A t \in Task \ {loop.pick} : starts'[t] = starts[t] /\ executor'[t] = executor[t]
    BY <1>4, AdmitStarts DEF Admit, LoopAt, MemoryOK
  <2>2. EndStep
    BY <2>1 DEF EndStep, Over, Ended, OrderInv, CompletedInv, rowVars
  <2>3. RollupInv'
    BY <2>1 DEF OrderInv, RollupInv
  <2>4. \A t \in Task : Chosen(t)' => Chosen(t)
    BY <2>1 DEF Chosen, Executing
  <2> QED
    BY <1>0, <2>2, <2>3, <2>4, OrderKept DEF Plain
<1> QED
  BY <1>1, <1>2, <1>3, <1>4 DEF LoopStep

LEMMA OrderProcess ==
  ASSUME TypeOK, DispatchInv, OrderInv, Exit \/ Boot
  PROVE  OrderInv'
<1> USE TypeParts DEF memoryVars, auxVars
<1>1. /\ UNCHANGED <<starts, dependsOn>>
      /\ loop'.pc \notin {"gate", "mark", "admit"} /\ loop'.parents = {}
      /\ \A t \in Task : executor'[t] = "none" \/ executor'[t] = executor[t]
  BY DEF Exit, Boot, Recover, LoopAt, rowVars
<1>2. EndStep
  BY <1>1, RecoverEnds, RowsKeptEnds, EndsKeptStep DEF Exit, Boot, OrderInv
<1>3. RollupInv'
  BY <1>1 DEF Exit, Boot, OrderInv, RollupInv, NoRollup
<1>4. ChainInv'
  BY <1>1 DEF Exit, Boot, OrderInv, ChainInv, NoCall, At
<1> QED
  BY <1>1, <1>2, <1>3, <1>4, OrderKept DEF Chosen, Executing

\* What carries the order of dependent tasks: see OrderInv.
THEOREM OrderCorrect == Spec => []OrderInv
<1>1. Init => OrderInv
  <2> SUFFICES ASSUME Init PROVE OrderInv
    OBVIOUS
  <2>1. RollupInv
    BY DEF Init, LoopAt, RollupInv, NoRollup
  <2>2. ChainInv
    BY DEF Init, ChainInv, NoCall
  <2>3. CompletedInv /\ DependInv /\ ChosenInv
    BY DEF Init, StoreInit, LoopAt, CompletedInv, DependInv, ChosenInv, Plain
  <2> QED
    BY <2>1, <2>2, <2>3 DEF OrderInv
<1>2. ASSUME TypeOK, DispatchInv, OrderInv, [Next]_vars PROVE OrderInv'
  <2> USE <1>2
  <2>1. CASE UNCHANGED vars
    BY <2>1 DEF vars, memoryVars, auxVars, rowVars, OrderInv, RollupInv, ChainInv, CompletedInv,
                DependInv, ChosenInv, Chosen, Executing, Over, Ended, At
  <2> QED
    BY <2>1, OrderRollup, OrderExecutor, OrderClient, OrderWriter, OrderLoop, OrderProcess
       DEF Next, RollupStep
<1> QED
  BY <1>1, <1>2, TypeCorrect, DispatchCorrect, PTL DEF Spec

\* Whatever other tasks are chained or rolled up, a plain task executes only once its predecessor
\* is over: see PredecessorOver.
THEOREM PlainInOrder ==
  Spec => [](\A t \in Executing \cap Plain :
               dependsOn[t] # None =>
                 /\ status[dependsOn[t]] \notin Unfinished \cup {"failed"}
                 /\ executor[dependsOn[t]] \notin {"run", "record"})
<1>1. OrderInv => \A t \in Executing \cap Plain :
                    dependsOn[t] # None =>
                      /\ status[dependsOn[t]] \notin Unfinished \cup {"failed"}
                      /\ executor[dependsOn[t]] \notin {"run", "record"}
  BY DEF OrderInv, ChosenInv, Chosen, Over, Ended, Unfinished
<1> QED
  BY <1>1, OrderCorrect, PTL

\* Where no request chains tasks that exist (the wait_for of machines_create_validate.go) and no
\* task waits on one with children (the anchors of machines_create.go and of
\* machines_provision_chain.go), every task is plain and none executes before its predecessor
\* is over.
THEOREM TasksInOrder == Plain = Task => (Spec => []PredecessorOver)
<1>1. ASSUME Plain = Task, OrderInv PROVE PredecessorOver
  BY <1>1 DEF PredecessorOver, OrderInv, ChosenInv, Chosen, Over, Ended, Unfinished, Executing
<1> SUFFICES ASSUME Plain = Task PROVE Spec => []PredecessorOver
  OBVIOUS
<1>2. OrderInv => PredecessorOver
  BY <1>1
<1> QED
  BY <1>2, OrderCorrect, PTL
=============================================================================
