--------------------------- MODULE TaskQueueProofs ---------------------------
(***************************************************************************)
(* Theorems about the task queue, for every workload, every number of API  *)
(* callers, every capacity and every bound on exits and faults.            *)
(***************************************************************************)
EXTENDS TaskQueue, FiniteSetTheorems, TLAPS

----------------------------------------------------------------------------
(* The statements of the table keep its columns well-typed                 *)

RowsOK ==
  /\ status \in [Task -> Status]
  /\ dependsOn \in [Task -> TaskOrNone]
  /\ created \in [Task -> Nat]

LEMMA CreateRows ==
  ASSUME RowsOK, NEW t \in Task, Create(t)
  PROVE  RowsOK'
<1>1. Cardinality({s \in Task : status[s] # "absent"}) \in Nat
  BY FS_Subset, FS_CardinalityType, WorkloadAssumption
<1>2. status' \in [Task -> Status]
  BY DEF RowsOK, Create, Status, Unfinished, Finished
<1>3. dependsOn' \in [Task -> TaskOrNone]
  BY WorkloadAssumption DEF RowsOK, Create
<1>4. created' \in [Task -> Nat]
  BY <1>1 DEF RowsOK, Create
<1> QED
  BY <1>2, <1>3, <1>4 DEF RowsOK

LEMMA FinishRows ==
  ASSUME RowsOK, NEW t, NEW s \in Finished, Finish(t, s)
  PROVE  RowsOK'
BY DEF RowsOK, Finish, SetStatus, Status

LEMMA MarkRows ==
  ASSUME RowsOK, NEW t, MarkRunning(t)
  PROVE  RowsOK'
BY DEF RowsOK, MarkRunning, SetStatus, Status, Unfinished

LEMMA CancelRows ==
  ASSUME RowsOK, NEW t, CancelPending(t) \/ CancelDependents
  PROVE  RowsOK'
BY DEF RowsOK, CancelPending, CancelDependents, Status, Finished

LEMMA ChainRows ==
  ASSUME RowsOK, NEW t, NEW d \in TaskOrNone, SetDependsOn(t, d) \/ Requeue(t)
  PROVE  RowsOK'
BY DEF RowsOK, SetDependsOn, Requeue, Status, Unfinished, TaskOrNone

LEMMA DeleteRows ==
  ASSUME RowsOK, NEW cutoff, DeleteFinished \/ DeleteFinishedBefore(cutoff)
  PROVE  RowsOK'
BY DEF RowsOK, DeleteFinished, DeleteFinishedBefore, Status

LEMMA RecoverRows ==
  ASSUME RowsOK, Recover(ResumePending)
  PROVE  RowsOK'
BY DEF RowsOK, Recover, Status, Finished

----------------------------------------------------------------------------
(* Type correctness                                                        *)

\* What is left of TypeOK once the rows are taken out
MemoryOK ==
  /\ up \in BOOLEAN
  /\ inFlight \subseteq Task
  /\ cancelled \subseteq Task
  /\ holder \in [Category -> TaskOrNone]
  /\ processing \in BOOLEAN
  /\ executor \in [Task -> {"none", "run", "record", "release", "report", "done"}]
  /\ outcome \in [Task -> {"completed", "failed", "cancelled", None}]
  /\ answer \in [Task -> {"none", "done", "requested"}]
  /\ starts \in [Task -> Nat]
  /\ exits \in Nat
  /\ faults \in Nat
  /\ \A t \in Task : executor[t] = "record" => outcome[t] \in Finished
  /\ \A t \in Task : executor[t] = "report" => ParentOf[t] # None

CallsOK ==
  /\ client \in [Client -> CallRecord]
  /\ \A c \in Client : client[c].pc = "rollup" => ParentOf[At(c)] # None

LEMMA TypeParts ==
  TypeOK <=> /\ RowsOK
             /\ MemoryOK
             /\ loop \in LoopRecord
             /\ rollup \in [Actor -> RollupRecord]
             /\ CallsOK
BY DEF TypeOK, RowsOK, MemoryOK, CallsOK

LEMMA TypePartsNext ==
  TypeOK' <=> /\ RowsOK'
              /\ MemoryOK'
              /\ (loop \in LoopRecord)'
              /\ (rollup \in [Actor -> RollupRecord])'
              /\ CallsOK'
BY DEF TypeOK, RowsOK, MemoryOK, CallsOK

LEMMA RowsKept == ASSUME RowsOK, UNCHANGED rowVars PROVE RowsOK'
BY DEF RowsOK, rowVars

LEMMA CallsKept == ASSUME CallsOK, UNCHANGED client PROVE CallsOK'
BY DEF CallsOK, At

LEMMA BeginRollupType ==
  ASSUME rollup \in [Actor -> RollupRecord], NEW a \in Actor, NEW q \in Task,
         BeginRollup(a, q)
  PROVE  rollup' \in [Actor -> RollupRecord]
BY DEF BeginRollup, RollupRecord

LEMMA InitType == Init => TypeOK
<1> SUFFICES ASSUME Init PROVE TypeOK
  OBVIOUS
<1>1. RowsOK
  BY DEF Init, StoreInit, RowsOK, Status, TaskOrNone
<1>2. MemoryOK
  BY DEF Init, MemoryOK, TaskOrNone
<1>3. loop \in LoopRecord
  BY DEF Init, LoopAt, LoopRecord
<1>4. rollup \in [Actor -> RollupRecord]
  BY DEF Init, RollupRecord
<1>5. CallsOK
  BY DEF Init, CallsOK, CallRecord, NoCall
<1> QED
  BY <1>1, <1>2, <1>3, <1>4, <1>5, TypeParts

LEMMA RollupType ==
  ASSUME TypeOK, NEW a \in Actor,
         CountChildren(a) \/ FinishParent(a) \/ RollupFails(a)
  PROVE  TypeOK'
<1> USE TypeParts
<1>1. CASE CountChildren(a)
  <2>1. Tally(rollup[a].parent) \in Finished \cup {"running"}
    BY DEF Tally, Finished
  <2>2. rollup' \in [Actor -> RollupRecord]
    BY <1>1, <2>1 DEF CountChildren, Conclude, RollupRecord, NoRollup
  <2> QED
    BY <1>1, <2>2, RowsKept, CallsKept, TypePartsNext
       DEF CountChildren, MemoryOK, memoryVars, auxVars
<1>2. CASE FinishParent(a)
  <2>1. rollup[a].verdict \in Finished
    BY <1>2 DEF FinishParent, RollupRecord, NoRollup
  <2>2. RowsOK'
    BY <1>2, <2>1, FinishRows DEF FinishParent
  <2>3. rollup' \in [Actor -> RollupRecord]
    BY <1>2 DEF FinishParent, RollupRecord
  <2> QED
    BY <1>2, <2>2, <2>3, CallsKept, TypePartsNext
       DEF FinishParent, MemoryOK, memoryVars, auxVars
<1>3. CASE RollupFails(a)
  <2>1. rollup' \in [Actor -> RollupRecord]
    BY <1>3 DEF RollupFails, RollupRecord
  <2> QED
    BY <1>3, <2>1, RowsKept, CallsKept, TypePartsNext
       DEF RollupFails, Fault, MemoryOK, memoryVars
<1> QED
  BY <1>1, <1>2, <1>3

LEMMA LoopType ==
  ASSUME TypeOK, LoopStep \/ TickFails
  PROVE  TypeOK'
<1> USE TypeParts
<1>b. BusyMachines \subseteq Machine
  BY DEF BusyMachines, Machine, MemoryOK
<1>1. CASE Tick \/ LoopExit
  <2>1. loop' \in LoopRecord
    BY <1>1, <1>b DEF Tick, LoopExit, LoopAt, LoopRecord
  <2> QED
    BY <1>1, <2>1, RowsKept, CallsKept, TypePartsNext
       DEF Tick, LoopExit, MemoryOK, memoryVars, auxVars
<1>2. CASE Sweep
  <2>1. {ParentOf[t] : t \in Doomed} \ {None} \subseteq Task
    BY WorkloadAssumption DEF Doomed, TaskOrNone
  <2>2. loop' \in LoopRecord
    BY <1>2, <2>1 DEF Sweep, LoopRecord
  <2>3. RowsOK'
    BY <1>2, CancelRows DEF Sweep
  <2> QED
    BY <1>2, <2>2, <2>3, CallsKept, TypePartsNext
       DEF Sweep, MemoryOK, memoryVars, auxVars
<1>3. CASE SweepRollup
  <2>1. PICK q \in loop.parents : /\ loop' = [loop EXCEPT !.parents = @ \ {q}]
                                  /\ BeginRollup(Loop, q)
    BY <1>3 DEF SweepRollup
  <2>2. loop.parents \subseteq Task
    BY DEF LoopRecord
  <2>3. loop' \in LoopRecord
    BY <2>1, <1>3 DEF SweepRollup, LoopRecord
  <2>4. rollup' \in [Actor -> RollupRecord]
    BY <2>1, <2>2, BeginRollupType DEF Actor
  <2> QED
    BY <1>3, <2>3, <2>4, RowsKept, CallsKept, TypePartsNext
       DEF SweepRollup, MemoryOK, memoryVars, auxVars
<1>4. CASE Pick
  <2>1. loop' \in LoopRecord
    <3>1. CASE loop' = LoopAt("wait")
      BY <3>1 DEF LoopAt, LoopRecord
    <3>2. CASE \E t \in Task : loop' = [loop EXCEPT !.pc = "gate", !.pick = t]
      BY <3>2 DEF LoopRecord
    <3> QED
      BY <1>4, <3>1, <3>2 DEF Pick
  <2> QED
    BY <1>4, <2>1, RowsKept, CallsKept, TypePartsNext
       DEF Pick, MemoryOK, memoryVars, auxVars
<1>5. CASE Gate
  <2>1. loop' \in LoopRecord
    BY <1>5 DEF Gate, LoopAt, LoopRecord
  <2> QED
    BY <1>5, <2>1, RowsKept, CallsKept, TypePartsNext
       DEF Gate, MemoryOK, memoryVars, auxVars
<1>6. CASE Mark
  <2>1. loop' \in LoopRecord
    BY <1>6 DEF Mark, LoopRecord
  <2>2. RowsOK'
    BY <1>6, MarkRows DEF Mark
  <2> QED
    BY <1>6, <2>1, <2>2, CallsKept, TypePartsNext
       DEF Mark, MemoryOK, memoryVars, auxVars
<1>7. CASE Admit
  <2>1. loop.pick \in Task
    BY <1>7 DEF Admit, LoopRecord
  <2>2. loop' \in LoopRecord
    BY <1>7 DEF Admit, LoopAt, LoopRecord
  <2>3. MemoryOK'
    <3>1. /\ inFlight' \subseteq Task
          /\ cancelled' \subseteq Task
          /\ holder' \in [Category -> TaskOrNone]
      BY <1>7, <2>1 DEF Admit, MemoryOK, TaskOrNone
    <3>2. /\ executor' \in [Task -> {"none", "run", "record", "release", "report", "done"}]
          /\ starts' \in [Task -> Nat]
      BY <1>7, <2>1 DEF Admit, MemoryOK
    <3>3. \A t \in Task : executor'[t] \in {"record", "report"} => executor'[t] = executor[t]
      BY <1>7, <2>1 DEF Admit, MemoryOK
    <3> QED
      BY <1>7, <3>1, <3>2, <3>3 DEF Admit, MemoryOK
  <2> QED
    BY <1>7, <2>2, <2>3, RowsKept, CallsKept, TypePartsNext DEF Admit
<1>8. CASE TickFails
  <2>1. loop' \in LoopRecord
    BY <1>8 DEF TickFails, LoopAt, LoopRecord
  <2> QED
    BY <1>8, <2>1, RowsKept, CallsKept, TypePartsNext
       DEF TickFails, Fault, MemoryOK, memoryVars
<1> QED
  BY <1>1, <1>2, <1>3, <1>4, <1>5, <1>6, <1>7, <1>8 DEF LoopStep

LEMMA ExecutorType ==
  ASSUME TypeOK, NEW t \in Task, ExecutorStep(t)
  PROVE  TypeOK'
<1> USE TypeParts
<1>1. CASE Decide(t)
  <2>1. PICK result \in {"completed", "failed"} :
          outcome' = [outcome EXCEPT ![t] = IF t \in cancelled THEN "cancelled" ELSE result]
    BY <1>1 DEF Decide
  <2>2. /\ outcome' \in [Task -> {"completed", "failed", "cancelled", None}]
        /\ outcome'[t] \in {"completed", "failed", "cancelled"}
        /\ \A s \in Task : s # t => outcome'[s] = outcome[s]
    BY <2>1 DEF MemoryOK
  <2>3. MemoryOK'
    BY <1>1, <2>2 DEF Decide, MemoryOK, Finished, memoryVars, auxVars
  <2> QED
    BY <1>1, <2>3, RowsKept, CallsKept, TypePartsNext DEF Decide
<1>2. CASE Record(t)
  <2>1. outcome[t] \in Finished
    BY <1>2 DEF Record, MemoryOK
  <2>2. RowsOK'
    BY <1>2, <2>1, FinishRows, RowsKept DEF Record, Fault
  <2>3. MemoryOK'
    BY <1>2 DEF Record, Fault, MemoryOK, memoryVars
  <2> QED
    BY <1>2, <2>2, <2>3, CallsKept, TypePartsNext DEF Record
<1>3. CASE Release(t)
  <2>1. MemoryOK'
    BY <1>3, WorkloadAssumption
       DEF Release, HolderWithout, MemoryOK, TaskOrNone, auxVars
  <2> QED
    BY <1>3, <2>1, RowsKept, CallsKept, TypePartsNext DEF Release
<1>4. CASE Report(t)
  <2>1. ParentOf[t] \in Task
    BY <1>4, WorkloadAssumption DEF Report, MemoryOK, TaskOrNone
  <2>2. rollup' \in [Actor -> RollupRecord]
    BY <1>4, <2>1, BeginRollupType DEF Report, Actor
  <2>3. MemoryOK'
    BY <1>4 DEF Report, MemoryOK, memoryVars, auxVars
  <2> QED
    BY <1>4, <2>2, <2>3, RowsKept, CallsKept, TypePartsNext DEF Report
<1> QED
  BY <1>1, <1>2, <1>3, <1>4 DEF ExecutorStep

LEMMA WriterType ==
  ASSUME TypeOK, NEW t \in Task, NewTask(t) \/ Land(t) \/ Prune(t)
  PROVE  TypeOK'
<1> USE TypeParts
<1>1. CASE NewTask(t)
  BY <1>1, CreateRows, CallsKept, TypePartsNext
     DEF NewTask, MemoryOK, memoryVars, auxVars
<1>2. CASE Land(t)
  BY <1>2, ChainRows, CallsKept, TypePartsNext
     DEF Land, MemoryOK, memoryVars, auxVars, TaskOrNone
<1>3. CASE Prune(t)
  BY <1>3, CancelRows, CallsKept, TypePartsNext
     DEF Prune, MemoryOK, memoryVars, auxVars
<1> QED
  BY <1>1, <1>2, <1>3

LEMMA ProcessType ==
  ASSUME TypeOK, Clear \/ Retire \/ Stop \/ Exit \/ Boot
  PROVE  TypeOK'
<1> USE TypeParts
<1>1. CASE Clear \/ Retire
  BY <1>1, DeleteRows, CallsKept, TypePartsNext
     DEF Clear, Retire, MemoryOK, memoryVars, auxVars
<1>2. CASE Stop
  BY <1>2, RowsKept, CallsKept, TypePartsNext DEF Stop, MemoryOK, auxVars
<1>3. CASE Exit
  <2>1. MemoryOK'
    <3>1. /\ inFlight' \subseteq Task
          /\ cancelled' \subseteq Task
          /\ holder' \in [Category -> TaskOrNone]
      BY <1>3 DEF Exit, TaskOrNone
    <3>2. /\ executor' \in [Task -> {"none", "run", "record", "release", "report", "done"}]
          /\ outcome' \in [Task -> {"completed", "failed", "cancelled", None}]
          /\ exits' \in Nat
      BY <1>3 DEF Exit, MemoryOK
    <3>3. \A s \in Task : executor'[s] = "none"
      BY <1>3 DEF Exit
    <3> QED
      BY <1>3, <3>1, <3>2, <3>3 DEF Exit, MemoryOK
  <2>2. loop' \in LoopRecord
    BY <1>3 DEF Exit, LoopAt, LoopRecord
  <2>3. rollup' \in [Actor -> RollupRecord]
    BY <1>3 DEF Exit, RollupRecord
  <2>4. CallsOK'
    BY <1>3 DEF Exit, CallsOK, CallRecord, NoCall
  <2> QED
    BY <1>3, <2>1, <2>2, <2>3, <2>4, RowsKept, TypePartsNext DEF Exit
<1>4. CASE Boot
  <2>1. loop' \in LoopRecord
    BY <1>4 DEF Boot, LoopAt, LoopRecord
  <2> QED
    BY <1>4, <2>1, RecoverRows, CallsKept, TypePartsNext
       DEF Boot, MemoryOK, memoryVars, auxVars
<1> QED
  BY <1>1, <1>2, <1>3, <1>4

\* The calls of the clients other than c are left alone by every step of c
LEMMA BecomeType ==
  ASSUME CallsOK, NEW c \in Client, NEW call \in CallRecord, Become(c, call),
         call.pc = "rollup" => ParentOf[Head(call.stack)] # None
  PROVE  CallsOK'
BY DEF CallsOK, Become, At

LEMMA ActiveCall ==
  ASSUME CallsOK, NEW c \in Client, client[c].pc # "idle"
  PROVE  /\ client[c] \in CallRecord \ {NoCall}
         /\ client[c].stack \in Seq(Task) \ {<<>>}
         /\ At(c) \in Task
BY DEF CallsOK, CallRecord, NoCall, At

LEMMA BranchType ==
  ASSUME NEW t \in Task
  PROVE  Branch(t) \in {"flip", "kill", "return"}
BY DEF Branch

LEMMA NewCallType ==
  ASSUME NEW t \in Task, NEW d \in TaskOrNone,
         NEW pc \in {"flip", "kill", "return", "chain"}
  PROVE  /\ [NoCall EXCEPT !.pc = pc, !.stack = <<t>>] \in CallRecord
         /\ [NoCall EXCEPT !.pc = pc, !.stack = <<t>>, !.behind = d] \in CallRecord
<1>1. <<t>> \in Seq(Task) \ {<<>>}
  OBVIOUS
<1>2. /\ [s \in Task |-> {}] \in [Task -> SUBSET Task]
      /\ [s \in Task |-> "pending"] \in [Task -> {"pending", "running"}]
  OBVIOUS
<1> QED
  BY <1>1, <1>2 DEF NoCall, CallRecord, TaskOrNone

\* A Cancel with callers above it returns to one of them
LEMMA PopType ==
  ASSUME NEW stack \in Seq(Task), Len(stack) > 1
  PROVE  Tail(stack) \in Seq(Task) \ {<<>>}
<1>1. Tail(stack) \in Seq(Task) /\ Len(Tail(stack)) = Len(stack) - 1
  OBVIOUS
<1>2. Len(Tail(stack)) # 0 /\ Len(<<>>) = 0
  BY <1>1
<1>3. Tail(stack) # <<>>
  BY <1>2, Zenon
<1> QED
  BY <1>1, <1>3

LEMMA AnsweringType ==
  ASSUME NEW call \in CallRecord \ {NoCall}, NEW said \in {"done", "requested"}
  PROVE  /\ Answering(call, said) \in CallRecord
         /\ Answering(call, said).pc = "return"
BY DEF Answering, CallRecord

LEMMA RollingType ==
  ASSUME NEW call \in CallRecord \ {NoCall}, NEW said \in {"done", "requested"}
  PROVE  /\ Rolling(call, said) \in CallRecord
         /\ Rolling(call, said).pc = "rollup" => ParentOf[Head(Rolling(call, said).stack)] # None
BY DEF Rolling, Answering, CallRecord

LEMMA ClientType ==
  ASSUME TypeOK, NEW c \in Client,
         ClientStep(c) \/ ClientFails(c) \/ (\E t \in Task : Cancel(c, t))
           \/ (\E d \in Task, t \in Task : Chain(c, d, t))
  PROVE  TypeOK'
<1> USE TypeParts
<1>m. ASSUME UNCHANGED <<up, memoryVars, processing, executor, outcome, answer, starts, exits>>,
             faults' \in Nat
      PROVE  MemoryOK'
  BY <1>m DEF MemoryOK, memoryVars
<1>1. ASSUME NEW t \in Task, Cancel(c, t) PROVE TypeOK'
  <2>1. [NoCall EXCEPT !.pc = Branch(t), !.stack = <<t>>] \in CallRecord
    BY BranchType, NewCallType DEF TaskOrNone
  <2>2. CallsOK'
    BY <1>1, <2>1, BecomeType, BranchType DEF Cancel, NoCall
  <2> QED
    BY <1>1, <1>m, <2>2, RowsKept, TypePartsNext DEF Cancel, auxVars, MemoryOK
<1>2. ASSUME NEW d \in Task, NEW t \in Task, Chain(c, d, t) PROVE TypeOK'
  <2>1. [NoCall EXCEPT !.pc = "chain", !.stack = <<t>>, !.behind = d] \in CallRecord
    BY NewCallType DEF TaskOrNone
  <2>2. CallsOK'
    BY <1>2, <2>1, BecomeType DEF Chain, NoCall
  <2> QED
    BY <1>2, <1>m, <2>2, RowsKept, TypePartsNext DEF Chain, auxVars, MemoryOK
<1>3. CASE Reread(c)
  <2>1. CallsOK'
    BY <1>3, ActiveCall, BranchType, BecomeType DEF Reread, CallRecord
  <2> QED
    BY <1>3, <1>m, <2>1, RowsKept, TypePartsNext DEF Reread, auxVars, MemoryOK
<1>4. CASE Flip(c)
  <2>1. CallsOK'
    <3>1. CASE status[At(c)] = "pending"
      BY <1>4, <3>1, ActiveCall, RollingType, BecomeType DEF Flip
    <3>2. CASE status[At(c)] # "pending"
      BY <1>4, <3>2, ActiveCall, BecomeType DEF Flip, CallRecord
    <3> QED
      BY <3>1, <3>2
  <2> QED
    BY <1>4, <1>m, <2>1, CancelRows, TypePartsNext DEF Flip, auxVars, MemoryOK
<1>5. CASE Kill(c)
  <2>0. At(c) \in Task
    BY <1>5, ActiveCall DEF Kill
  <2>1. CASE At(c) \in inFlight
    <3>1. CallsOK'
      BY <1>5, <2>1, ActiveCall, AnsweringType, BecomeType DEF Kill
    <3> QED
      BY <1>5, <2>0, <2>1, <3>1, RowsKept, TypePartsNext DEF Kill, auxVars, MemoryOK
  <2>2. CASE At(c) \notin inFlight
    <3>1. CallsOK'
      BY <1>5, <2>2, ActiveCall, BecomeType DEF Kill, CallRecord
    <3> QED
      BY <1>5, <2>2, <3>1, RowsKept, TypePartsNext DEF Kill, auxVars, MemoryOK
  <2> QED
    BY <2>1, <2>2
<1>6. CASE Close(c)
  <2>1. CallsOK'
    BY <1>6, ActiveCall, BecomeType DEF Close, CallRecord
  <2>2. RowsOK'
    BY <1>6, FinishRows DEF Close, Finished
  <2> QED
    BY <1>6, <1>m, <2>1, <2>2, TypePartsNext DEF Close, auxVars, MemoryOK
<1>7. CASE ListChildren(c)
  <2>1. CallsOK'
    BY <1>7, ActiveCall, BecomeType DEF ListChildren, CallRecord, Children
  <2> QED
    BY <1>7, <1>m, <2>1, RowsKept, TypePartsNext DEF ListChildren, auxVars, MemoryOK
<1>8. CASE Cascade(c)
  <2>0. PICK call : call = client[c]
    OBVIOUS
  <2>1. call \in CallRecord \ {NoCall} /\ At(c) \in Task
    BY <1>8, <2>0, ActiveCall DEF Cascade
  <2>2. CallsOK'
    <3>1. ASSUME NEW t \in call.todo[At(c)],
                 Become(c, [call EXCEPT !.todo[At(c)] = @ \ {t}, !.pc = Branch(t),
                                        !.stack = <<t>> \o @])
          PROVE  CallsOK'
      <4>1. t \in Task
        BY <2>1 DEF CallRecord
      <4>2. <<t>> \o call.stack \in Seq(Task) \ {<<>>}
        BY <2>1, <4>1 DEF CallRecord
      <4> QED
        BY <2>1, <3>1, <4>1, <4>2, BranchType, BecomeType DEF CallRecord
    <3>2. ASSUME Become(c, [call EXCEPT !.pc = "list", !.phase[At(c)] = "running"])
          PROVE  CallsOK'
      BY <2>1, <3>2, BecomeType DEF CallRecord
    <3>3. ASSUME Become(c, Rolling(call, "done"))
          PROVE  CallsOK'
      BY <2>1, <3>3, RollingType, BecomeType
    <3> QED
      BY <1>8, <2>0, <3>1, <3>2, <3>3 DEF Cascade
  <2> QED
    BY <1>8, <1>m, <2>2, RowsKept, TypePartsNext DEF Cascade, auxVars, MemoryOK
<1>9. CASE CancelRollup(c)
  <2>0. ParentOf[At(c)] \in Task
    BY <1>9, ActiveCall, WorkloadAssumption DEF CancelRollup, CallsOK, TaskOrNone
  <2>1. CallsOK'
    BY <1>9, ActiveCall, BecomeType DEF CancelRollup, CallRecord
  <2>2. rollup' \in [Actor -> RollupRecord]
    BY <1>9, <2>0, BeginRollupType DEF CancelRollup, Actor
  <2> QED
    BY <1>9, <1>m, <2>1, <2>2, RowsKept, TypePartsNext DEF CancelRollup, auxVars, MemoryOK
<1>10. CASE Return(c)
  <2>0. client[c] \in CallRecord \ {NoCall} /\ At(c) \in Task
    BY <1>10, ActiveCall DEF Return
  <2>1. CASE /\ Len(client[c].stack) > 1
             /\ Become(c, [client[c] EXCEPT !.pc = "cascade", !.stack = Tail(@)])
             /\ UNCHANGED answer
    <3>0. client[c].stack \in Seq(Task)
      BY <2>0 DEF CallRecord
    <3>1. Tail(client[c].stack) \in Seq(Task) \ {<<>>}
      BY <3>0, <2>1, PopType
    <3>2. CallsOK'
      BY <2>0, <2>1, <3>1, BecomeType DEF CallRecord
    <3>3. MemoryOK'
      BY <1>10, <2>1 DEF Return, MemoryOK, memoryVars
    <3> QED
      BY <1>10, <3>2, <3>3, RowsKept, TypePartsNext DEF Return
  <2>2. CASE /\ Become(c, NoCall)
             /\ answer' = IF client[c].said = "none" THEN answer
                          ELSE [answer EXCEPT ![At(c)] = client[c].said]
    <3>1. CallsOK'
      BY <2>2, BecomeType DEF CallRecord, NoCall
    <3>2. client[c].said \in {"none", "done", "requested"}
      BY <2>0 DEF CallRecord
    <3>3. MemoryOK'
      BY <1>10, <2>0, <2>2, <3>2 DEF Return, MemoryOK, memoryVars
    <3> QED
      BY <1>10, <3>1, <3>3, RowsKept, TypePartsNext DEF Return
  <2> QED
    BY <1>10, <2>1, <2>2 DEF Return
<1>11. CASE ChainSet(c)
  <2>0. client[c].behind \in TaskOrNone
    BY <1>11, ActiveCall DEF ChainSet, CallRecord
  <2>1. CallsOK'
    BY <1>11, BecomeType DEF ChainSet, CallRecord, NoCall
  <2> QED
    BY <1>11, <1>m, <2>0, <2>1, ChainRows, TypePartsNext DEF ChainSet, auxVars, MemoryOK
<1>12. CASE ClientFails(c)
  <2>1. CallsOK'
    BY <1>12, ActiveCall, BecomeType DEF ClientFails, CallRecord
  <2> QED
    BY <1>12, <1>m, <2>1, RowsKept, TypePartsNext DEF ClientFails, Fault, MemoryOK
<1> QED
  BY <1>1, <1>2, <1>3, <1>4, <1>5, <1>6, <1>7, <1>8, <1>9, <1>10, <1>11, <1>12
     DEF ClientStep

\* Every variable of the queue keeps its type, whatever the workload: see TypeOK.
THEOREM TypeCorrect == Spec => []TypeOK
<1>1. TypeOK /\ [Next]_vars => TypeOK'
  <2> SUFFICES ASSUME TypeOK, [Next]_vars PROVE TypeOK'
    OBVIOUS
  <2>1. CASE UNCHANGED vars
    BY <2>1, TypeParts, TypePartsNext, RowsKept, CallsKept
       DEF vars, MemoryOK, memoryVars, auxVars
  <2>2. CASE Next
    BY <2>2, LoopType, ExecutorType, RollupType, ClientType, WriterType, ProcessType
       DEF Next, RollupStep
  <2> QED
    BY <2>1, <2>2
<1> QED
  BY InitType, <1>1, PTL DEF Spec

----------------------------------------------------------------------------
(***************************************************************************)
(* The queue implements ExclusiveDispatch: exclusion by machine and by     *)
(* category, the cap and at-most-once execution, by the invariant          *)
(* DispatchInv.                                                            *)
(***************************************************************************)

----------------------------------------------------------------------------
(* No statement of the table makes a task fresh again                      *)

NoRevival ==
  \A t \in Task :
    /\ status'[t] \in Fresh => status[t] \in Fresh
    /\ status'[t] \in {"absent", "prepared"} => status[t] \in {"absent", "prepared"}
    /\ t \in Anchors /\ status'[t] \in {"prepared", "pending"}
         => status[t] \in {"prepared", "pending"}

LEMMA RowsKeptNoRevival == ASSUME UNCHANGED rowVars PROVE NoRevival
BY DEF NoRevival, rowVars

LEMMA CreateNoRevival ==
  ASSUME RowsOK, NEW t \in Task, Create(t)
  PROVE  NoRevival
BY WorkloadAssumption DEF RowsOK, Create, NoRevival, Fresh

LEMMA FinishNoRevival ==
  ASSUME RowsOK, NEW t, NEW s \in Finished \cup {"running"}, SetStatus(t, s)
  PROVE  NoRevival
BY DEF RowsOK, SetStatus, NoRevival, Fresh, Finished

LEMMA CancelNoRevival ==
  ASSUME RowsOK, NEW t, CancelPending(t) \/ CancelDependents
  PROVE  NoRevival
BY DEF RowsOK, CancelPending, CancelDependents, NoRevival, Fresh

LEMMA ChainNoRevival ==
  ASSUME RowsOK, NEW t, NEW d, SetDependsOn(t, d) \/ Requeue(t)
  PROVE  NoRevival
BY DEF RowsOK, SetDependsOn, Requeue, NoRevival, Fresh

LEMMA DeleteNoRevival ==
  ASSUME RowsOK, NEW cutoff, DeleteFinished \/ DeleteFinishedBefore(cutoff)
  PROVE  NoRevival
BY DEF RowsOK, DeleteFinished, DeleteFinishedBefore, NoRevival, Fresh, Finished

LEMMA RecoverNoRevival ==
  ASSUME RowsOK, Recover(ResumePending)
  PROVE  NoRevival
BY DEF RowsOK, Recover, NoRevival, Fresh

----------------------------------------------------------------------------
(* Steps that leave the locks, the executions and the loop alone           *)

Quiet ==
  /\ NoRevival
  /\ UNCHANGED <<inFlight, holder, loop, starts>>
  /\ cancelled' \subseteq inFlight
  /\ Executing' = Executing

LEMMA QuietKeeps ==
  ASSUME TypeOK, DispatchInv, Quiet
  PROVE  DispatchInv'
<1>1. Locks'
  BY DEF DispatchInv, Quiet, Locks
<1>2. Snapshot'
  BY DEF DispatchInv, Quiet, Snapshot, BusyMachines, CategoryFree
<1>3. Once'
  <2>1. loop.pc \in {"gate", "mark", "admit"} => loop.pick \in Task
    BY DEF TypeOK, LoopRecord
  <2>2. \A t \in Task : starts'[t] <= 1 /\ (t \in Executing' => starts'[t] = 1)
    BY DEF DispatchInv, Quiet, Once
  <2>3. \A t \in Task : status'[t] \in Fresh => starts'[t] = 0
    BY DEF DispatchInv, Quiet, Once, NoRevival
  <2>4. \A t \in Anchors : status'[t] \notin {"prepared", "pending"}
    BY WorkloadAssumption DEF DispatchInv, Quiet, Once, NoRevival
  <2>5. loop'.pc \in {"gate", "mark", "admit"} =>
          /\ loop'.pick \notin Anchors
          /\ starts'[loop'.pick] = 0
          /\ status'[loop'.pick] \notin {"absent", "prepared"}
    BY <2>1 DEF DispatchInv, Quiet, Once, NoRevival
  <2>6. loop'.pc = "admit" => status'[loop'.pick] # "pending"
    BY <2>1 DEF DispatchInv, Quiet, Once, NoRevival, Fresh
  <2> QED
    BY <2>2, <2>3, <2>4, <2>5, <2>6 DEF Once, Executing
<1>4. (\A s, t \in inFlight : s # t => Dispatch!Compatible(s, t))'
  BY DEF DispatchInv, Quiet, Dispatch!Compatible
<1> QED
  BY <1>1, <1>2, <1>3, <1>4 DEF DispatchInv

LEMMA RollupQuiet ==
  ASSUME TypeOK, DispatchInv, NEW a \in Actor,
         CountChildren(a) \/ FinishParent(a) \/ RollupFails(a)
  PROVE  Quiet
<1> USE TypeParts
<1>1. CASE CountChildren(a) \/ RollupFails(a)
  BY <1>1, RowsKeptNoRevival
     DEF CountChildren, RollupFails, Fault, Quiet, Executing, DispatchInv, Locks,
         memoryVars, auxVars
<1>2. CASE FinishParent(a)
  <2>1. rollup[a].verdict \in Finished
    BY <1>2 DEF FinishParent, RollupRecord, NoRollup
  <2> QED
    BY <1>2, <2>1, FinishNoRevival
       DEF FinishParent, Finish, Quiet, Executing, DispatchInv, Locks, memoryVars, auxVars
<1> QED
  BY <1>1, <1>2

LEMMA ExecutorQuiet ==
  ASSUME TypeOK, DispatchInv, NEW t \in Task, Decide(t) \/ Record(t) \/ Report(t)
  PROVE  Quiet
<1> USE TypeParts
<1>0. executor \in [Task -> {"none", "run", "record", "release", "report", "done"}]
  BY DEF MemoryOK
<1>1. CASE Decide(t) \/ Report(t)
  <2>1. Executing' = Executing
    BY <1>0, <1>1 DEF Decide, Report, Executing
  <2> QED
    BY <1>1, <2>1, RowsKeptNoRevival
       DEF Decide, Report, Quiet, DispatchInv, Locks, memoryVars, auxVars
<1>2. CASE Record(t)
  <2>1. Executing' = Executing
    BY <1>0, <1>2 DEF Record, Executing
  <2>2. outcome[t] \in Finished
    BY <1>2 DEF Record, MemoryOK
  <2>3. NoRevival
    BY <1>2, <2>2, FinishNoRevival, RowsKeptNoRevival DEF Record, Finish, Fault
  <2> QED
    BY <1>2, <2>1, <2>3 DEF Record, Fault, Quiet, DispatchInv, Locks, memoryVars
<1> QED
  BY <1>1, <1>2

LEMMA ClientQuiet ==
  ASSUME TypeOK, DispatchInv, NEW c \in Client,
         ClientStep(c) \/ ClientFails(c) \/ (\E t \in Task : Cancel(c, t))
           \/ (\E d \in Task, t \in Task : Chain(c, d, t))
  PROVE  Quiet
<1> USE TypeParts DEF Quiet, Executing, DispatchInv, Locks, memoryVars, auxVars
<1>1. CASE Flip(c)
  BY <1>1, CancelNoRevival DEF Flip
<1>2. CASE Close(c)
  BY <1>2, FinishNoRevival DEF Close, Finish, Finished
<1>3. CASE ChainSet(c)
  BY <1>3, ChainNoRevival DEF ChainSet
<1>4. CASE Kill(c)
  BY <1>4, RowsKeptNoRevival DEF Kill
<1>5. CASE Return(c)
  BY <1>5, RowsKeptNoRevival DEF Return
<1>6. CASE Reread(c) \/ ListChildren(c) \/ Cascade(c) \/ CancelRollup(c)
  BY <1>6, RowsKeptNoRevival DEF Reread, ListChildren, Cascade, CancelRollup
<1>7. CASE ClientFails(c)
  BY <1>7, RowsKeptNoRevival DEF ClientFails, Fault
<1>8. CASE \E t \in Task : Cancel(c, t)
  BY <1>8, RowsKeptNoRevival DEF Cancel
<1>9. CASE \E d \in Task, t \in Task : Chain(c, d, t)
  BY <1>9, RowsKeptNoRevival DEF Chain
<1> QED
  BY <1>1, <1>2, <1>3, <1>4, <1>5, <1>6, <1>7, <1>8, <1>9 DEF ClientStep

LEMMA WriterQuiet ==
  ASSUME TypeOK, DispatchInv,
         Clear \/ Retire \/ Stop \/ (\E t \in Task : NewTask(t) \/ Land(t) \/ Prune(t))
  PROVE  Quiet
<1> USE TypeParts DEF Quiet, Executing, DispatchInv, Locks, memoryVars, auxVars
<1>1. ASSUME NEW t \in Task, NewTask(t) \/ Land(t) \/ Prune(t) PROVE Quiet
  BY <1>1, CreateNoRevival, ChainNoRevival, CancelNoRevival DEF NewTask, Land, Prune
<1>2. CASE Clear \/ Retire
  BY <1>2, DeleteNoRevival DEF Clear, Retire
<1>3. CASE Stop
  BY <1>3, RowsKeptNoRevival DEF Stop
<1> QED
  BY <1>1, <1>2, <1>3

----------------------------------------------------------------------------
(* The steps of the loop                                                   *)

\* A step that changes only rows and the loop keeps Locks and the exclusion,
\* and Once but for the pick
LEMMA LoopOnly ==
  ASSUME TypeOK, DispatchInv, NoRevival, UNCHANGED <<memoryVars, executor, starts>>
  PROVE  /\ Locks'
         /\ (\A s, t \in inFlight : s # t => Dispatch!Compatible(s, t))'
         /\ \A t \in Task : starts'[t] <= 1
         /\ \A t \in Executing' : starts'[t] = 1
         /\ \A t \in Task : status'[t] \in Fresh => starts'[t] = 0
         /\ \A t \in Anchors : status'[t] \notin {"prepared", "pending"}
<1>1. Executing' = Executing
  BY DEF Executing
<1> QED
  BY <1>1, WorkloadAssumption
     DEF DispatchInv, Locks, Once, NoRevival, memoryVars, Dispatch!Compatible

LEMMA LoopKeeps ==
  ASSUME TypeOK, DispatchInv, NEW pc \in {"wait", "sweep", "report"},
         loop'.pc = pc, NoRevival, UNCHANGED <<memoryVars, executor, starts>>,
         pc # "wait" => Cardinality(inFlight) < MaxConcurrent /\ BusyMachines \subseteq loop'.busy
  PROVE  DispatchInv'
<1>1. Snapshot'
  BY DEF DispatchInv, Snapshot, BusyMachines, memoryVars
<1>2. Once'
  BY LoopOnly DEF Once
<1> QED
  BY <1>1, <1>2, LoopOnly DEF DispatchInv

LEMMA ScanKeeps ==
  ASSUME TypeOK, DispatchInv, Tick \/ Sweep \/ SweepRollup \/ TickFails
  PROVE  DispatchInv'
<1> USE TypeParts
<1>1. CASE Tick
  BY <1>1, LoopKeeps, RowsKeptNoRevival
     DEF Tick, LoopAt, CapacityLeft, auxVars
<1>2. CASE Sweep
  <2>1. loop' .pc = "report" /\ loop'.busy = loop.busy
    BY <1>2 DEF Sweep, LoopRecord
  <2>2. NoRevival
    BY <1>2, CancelNoRevival DEF Sweep
  <2> QED
    BY <1>2, <2>1, <2>2, LoopKeeps DEF Sweep, DispatchInv, Snapshot, auxVars
<1>3. CASE SweepRollup
  <2>1. loop' .pc = "report" /\ loop'.busy = loop.busy
    BY <1>3 DEF SweepRollup, LoopRecord
  <2> QED
    BY <1>3, <2>1, LoopKeeps, RowsKeptNoRevival
       DEF SweepRollup, DispatchInv, Snapshot, auxVars
<1>4. CASE TickFails
  BY <1>4, LoopKeeps, RowsKeptNoRevival DEF TickFails, Fault, LoopAt
<1> QED
  BY <1>1, <1>2, <1>3, <1>4

\* LoopExit leaves the loop for good
LEMMA LoopExitKeeps == ASSUME TypeOK, DispatchInv, LoopExit PROVE DispatchInv'
<1>1. loop'.pc = "exited" /\ UNCHANGED <<rowVars, memoryVars, executor, starts>>
  BY DEF LoopExit, LoopAt, auxVars
<1>2. Snapshot'
  BY <1>1 DEF DispatchInv, Snapshot, memoryVars
<1>3. Once'
  BY <1>1, LoopOnly, RowsKeptNoRevival DEF Once
<1> QED
  BY <1>1, <1>2, <1>3, LoopOnly, RowsKeptNoRevival DEF DispatchInv

LEMMA PickKeeps == ASSUME TypeOK, DispatchInv, Pick PROVE DispatchInv'
<1> USE TypeParts
<1>0. UNCHANGED <<rowVars, memoryVars, executor, starts>>
  BY DEF Pick, auxVars
<1>1. CASE loop' = LoopAt("wait")
  BY <1>0, <1>1, LoopKeeps, RowsKeptNoRevival DEF LoopAt
<1>2. ASSUME NEW t \in Task, IsNextPending(t, loop.busy),
             loop' = [loop EXCEPT !.pc = "gate", !.pick = t]
      PROVE  DispatchInv'
  <2>1. status[t] = "pending" /\ MachineOf[t] \notin loop.busy
    BY <1>2 DEF IsNextPending, Runnable
  <2>2. loop'.pc = "gate" /\ loop'.pick = t /\ loop'.busy = loop.busy
    BY <1>2 DEF LoopRecord
  <2>3. loop.pc = "report"
    BY DEF Pick
  <2>4. Snapshot'
    BY <1>0, <2>1, <2>2, <2>3 DEF DispatchInv, Snapshot, BusyMachines, memoryVars
  <2>5. t \notin Anchors /\ starts[t] = 0
    BY <2>1 DEF DispatchInv, Once, Fresh
  <2>6. Once'
    BY <1>0, <2>1, <2>2, <2>5, LoopOnly, RowsKeptNoRevival DEF Once, rowVars
  <2> QED
    BY <1>0, <2>4, <2>6, LoopOnly, RowsKeptNoRevival DEF DispatchInv
<1> QED
  BY <1>1, <1>2 DEF Pick

LEMMA GateKeeps == ASSUME TypeOK, DispatchInv, Gate PROVE DispatchInv'
<1> USE TypeParts
<1>0. UNCHANGED <<rowVars, memoryVars, executor, starts>>
  BY DEF Gate, auxVars
<1>1. CASE loop' = LoopAt("wait")
  BY <1>0, <1>1, LoopKeeps, RowsKeptNoRevival DEF LoopAt
<1>2. CASE CategoryFree(loop.pick) /\ loop' = [loop EXCEPT !.pc = "mark"]
  <2>1. loop'.pc = "mark" /\ loop'.pick = loop.pick /\ loop'.busy = loop.busy
    BY <1>2 DEF LoopRecord
  <2>2. loop.pc = "gate"
    BY DEF Gate
  <2>3. Snapshot'
    BY <1>0, <1>2, <2>1, <2>2
       DEF DispatchInv, Snapshot, BusyMachines, CategoryFree, memoryVars
  <2>4. Once'
    BY <1>0, <2>1, <2>2, LoopOnly, RowsKeptNoRevival
       DEF DispatchInv, Once, rowVars
  <2> QED
    BY <1>0, <2>3, <2>4, LoopOnly, RowsKeptNoRevival DEF DispatchInv
<1> QED
  BY <1>1, <1>2 DEF Gate

LEMMA MarkKeeps == ASSUME TypeOK, DispatchInv, Mark PROVE DispatchInv'
<1> USE TypeParts
<1>0. UNCHANGED <<memoryVars, executor, starts>> /\ loop.pc = "mark" /\ loop.pick \in Task
  BY DEF Mark, auxVars, LoopRecord
<1>1. loop'.pc = "admit" /\ loop'.pick = loop.pick /\ loop'.busy = loop.busy
  BY DEF Mark, LoopRecord
<1>2. NoRevival
  BY FinishNoRevival DEF Mark, MarkRunning
<1>3. status'[loop.pick] \notin Fresh
  <2>1. status[loop.pick] \notin {"absent", "prepared"}
    BY <1>0 DEF DispatchInv, Once
  <2> QED
    BY <1>0, <2>1
       DEF Mark, MarkRunning, SetStatus, Present, Unfinished, RowsOK, Fresh
<1>4. Snapshot'
  BY <1>0, <1>1 DEF DispatchInv, Snapshot, BusyMachines, CategoryFree, memoryVars
<1>5. Once'
  BY <1>0, <1>1, <1>2, <1>3, LoopOnly DEF DispatchInv, Once, Fresh
<1> QED
  BY <1>0, <1>2, <1>4, <1>5, LoopOnly DEF DispatchInv

----------------------------------------------------------------------------
(* The steps that change what executes                                     *)

\* What the loop has established by the time it admits its pick
LEMMA AdmitStarts ==
  ASSUME TypeOK, DispatchInv, Admit
  PROVE  /\ loop.pick \in Task
         /\ Executing' = Executing \cup {loop.pick}
         /\ loop.pick \notin Executing
         /\ loop.pick \notin Anchors
         /\ starts[loop.pick] = 0
         /\ Cardinality(inFlight) < MaxConcurrent
         /\ \A s \in Executing : /\ Dispatch!Compatible(s, loop.pick)
                                 /\ Dispatch!Compatible(loop.pick, s)
<1> USE TypeParts
<1>0. loop.pc = "admit" /\ loop.pick \in Task
  BY DEF Admit, LoopRecord
<1>1. starts[loop.pick] = 0 /\ loop.pick \notin Anchors /\ loop.pick \notin Executing
  BY <1>0 DEF DispatchInv, Once
<1>2. Cardinality(inFlight) < MaxConcurrent /\ BusyMachines \subseteq loop.busy
  BY <1>0 DEF DispatchInv, Snapshot
<1>3. \A s \in Executing : MachineOf[s] = MachineOf[loop.pick] => MachineOf[s] \in ExemptScopes
  BY <1>0, <1>2 DEF DispatchInv, Snapshot, Locks, BusyMachines
<1>4. \A s \in Executing : CategoryOf[s] = CategoryOf[loop.pick] => CategoryOf[s] = None
  <2> SUFFICES ASSUME NEW s \in Executing, CategoryOf[s] = CategoryOf[loop.pick],
                      CategoryOf[s] # None
               PROVE  FALSE
    OBVIOUS
  <2>1. holder[CategoryOf[s]] = s /\ holder[CategoryOf[s]] = None
    BY <1>0 DEF DispatchInv, Locks, Snapshot, CategoryFree
  <2> QED
    BY <2>1, WorkloadAssumption DEF Executing
<1>5. Executing' = Executing \cup {loop.pick}
  BY <1>0 DEF Admit, Executing, MemoryOK
<1> QED
  BY <1>0, <1>1, <1>2, <1>3, <1>4, <1>5 DEF Dispatch!Compatible

LEMMA AdmitKeeps == ASSUME TypeOK, DispatchInv, Admit PROVE DispatchInv'
<1> USE TypeParts
<1> DEFINE t == loop.pick
<1>0. t \in Task /\ inFlight' = inFlight \cup {t} /\ loop'.pc = "wait"
  BY AdmitStarts DEF Admit, LoopAt
<1>1. Locks'
  <2>1. inFlight' = Executing'
    BY AdmitStarts DEF Admit, DispatchInv, Locks
  <2>2. cancelled' \subseteq inFlight'
    BY <1>0 DEF Admit, DispatchInv, Locks
  <2>3. CategoryOf[t] # None => CategoryOf[t] \in Category /\ holder[CategoryOf[t]] = None
    BY <1>0, QueueAssumption DEF Admit, DispatchInv, Snapshot, CategoryFree
  <2>4. ASSUME NEW s \in inFlight', CategoryOf[s] # None
        PROVE  holder'[CategoryOf[s]] = s
    <3>1. CASE s = t
      BY <2>3, <2>4, <3>1 DEF Admit, MemoryOK
    <3>2. CASE s \in inFlight
      <4>1. holder[CategoryOf[s]] = s /\ s # None
        BY <2>4, <3>2, WorkloadAssumption DEF DispatchInv, Locks, MemoryOK
      <4> QED
        BY <2>3, <4>1 DEF Admit, MemoryOK
    <3> QED
      BY <1>0, <3>1, <3>2
  <2>5. ASSUME NEW c \in Category, holder'[c] # None
        PROVE  holder'[c] \in inFlight' /\ CategoryOf[holder'[c]] = c
    <3>1. CASE c = CategoryOf[t]
      <4>1. CategoryOf[t] # None
        BY <3>1, QueueAssumption
      <4>2. holder'[c] = t
        BY <3>1, <4>1 DEF Admit, MemoryOK
      <4> QED
        BY <1>0, <3>1, <4>2
    <3>2. CASE c # CategoryOf[t]
      <4>1. holder'[c] = holder[c]
        BY <3>2 DEF Admit, MemoryOK
      <4> QED
        BY <1>0, <2>5, <4>1 DEF DispatchInv, Locks
    <3> QED
      BY <3>1, <3>2
  <2> QED
    BY <2>1, <2>2, <2>4, <2>5 DEF Locks
<1>2. (\A r, s \in inFlight : r # s => Dispatch!Compatible(r, s))'
  BY <1>0, AdmitStarts DEF DispatchInv, Locks, Dispatch!Compatible
<1>3. Snapshot'
  <2>1. IsFiniteSet(inFlight)
    BY FS_Subset, WorkloadAssumption DEF MemoryOK
  <2>2. Cardinality(inFlight) \in Nat
    BY <2>1, FS_CardinalityType
  <2>3. Cardinality(inFlight \cup {t}) \in {Cardinality(inFlight), Cardinality(inFlight) + 1}
    BY <2>1, FS_AddElement
  <2> QED
    BY <1>0, <2>2, <2>3, AdmitStarts, QueueAssumption DEF Snapshot
<1>4. Once'
  <2>1. status[t] \notin Fresh /\ status' = status
    BY <1>0 DEF Admit, DispatchInv, Once, Fresh, rowVars
  <2>2. starts' = [starts EXCEPT ![t] = @ + 1] /\ starts[t] = 0
    BY AdmitStarts DEF Admit
  <2> QED
    BY <1>0, <2>1, <2>2, AdmitStarts DEF DispatchInv, Once, MemoryOK
<1> QED
  BY <1>1, <1>2, <1>3, <1>4 DEF DispatchInv

LEMMA ReleaseKeeps ==
  ASSUME TypeOK, DispatchInv, NEW t \in Task, Release(t)
  PROVE  DispatchInv' /\ Executing' = Executing \ {t} /\ t \in Executing
<1> USE TypeParts
<1>0. Executing' = Executing \ {t} /\ t \in Executing /\ inFlight' = inFlight \ {t}
  BY DEF Release, Executing, MemoryOK
<1>1. Locks'
  <2>1. inFlight' = Executing' /\ cancelled' \subseteq inFlight'
    BY <1>0 DEF Release, DispatchInv, Locks
  <2>2. \A s \in inFlight' : CategoryOf[s] # None => holder'[CategoryOf[s]] = s
    <3> SUFFICES ASSUME NEW s \in inFlight \ {t}, CategoryOf[s] # None
                 PROVE  holder'[CategoryOf[s]] = s
      BY <1>0
    <3>1. CategoryOf[s] \in Category /\ holder[CategoryOf[s]] = s
      BY QueueAssumption DEF DispatchInv, Locks, MemoryOK
    <3> QED
      BY <3>1 DEF Release, HolderWithout
  <2>3. \A c \in Category : holder'[c] # None => holder'[c] \in inFlight' /\ CategoryOf[holder'[c]] = c
    BY <1>0 DEF Release, HolderWithout, DispatchInv, Locks
  <2> QED
    BY <2>1, <2>2, <2>3 DEF Locks
<1>2. (\A r, s \in inFlight : r # s => Dispatch!Compatible(r, s))'
  BY <1>0 DEF DispatchInv, Dispatch!Compatible
<1>3. Snapshot'
  <2>1. Cardinality(inFlight') <= Cardinality(inFlight)
    BY <1>0, FS_Subset, WorkloadAssumption DEF MemoryOK
  <2>2. Cardinality(inFlight) \in Nat /\ Cardinality(inFlight') \in Nat
    BY <1>0, FS_Subset, FS_CardinalityType, WorkloadAssumption DEF MemoryOK
  <2>3. BusyMachines' \subseteq BusyMachines
    BY <1>0 DEF BusyMachines
  <2> QED
    BY <2>1, <2>2, <2>3, QueueAssumption
       DEF DispatchInv, Snapshot, Release, CategoryFree, HolderWithout, LoopRecord, MemoryOK
<1>4. Once'
  BY <1>0 DEF Release, DispatchInv, Once, rowVars, auxVars
<1> QED
  BY <1>0, <1>1, <1>2, <1>3, <1>4 DEF DispatchInv

LEMMA ExitKeeps ==
  ASSUME TypeOK, DispatchInv, Exit
  PROVE  DispatchInv' /\ Executing' = {}
<1> USE TypeParts
<1>0. Executing' = {} /\ inFlight' = {} /\ loop'.pc = "exited"
  BY DEF Exit, Executing, LoopAt
<1>1. Locks'
  BY <1>0 DEF Exit, Locks
<1>2. Snapshot'
  BY <1>0, FS_EmptySet, QueueAssumption DEF Snapshot
<1>3. Once'
  BY <1>0 DEF Exit, DispatchInv, Once, rowVars
<1> QED
  BY <1>0, <1>1, <1>2, <1>3 DEF DispatchInv

LEMMA BootKeeps ==
  ASSUME TypeOK, DispatchInv, Boot
  PROVE  DispatchInv'
<1> USE TypeParts
<1>1. NoRevival /\ loop'.pc = "wait" /\ UNCHANGED <<memoryVars, executor, starts>>
  BY RecoverNoRevival DEF Boot, LoopAt, auxVars
<1> QED
  BY <1>1, LoopKeeps

----------------------------------------------------------------------------
(* Theorems                                                                *)

LEMMA InitDispatch == Init => DispatchInv
<1> SUFFICES ASSUME Init PROVE DispatchInv
  OBVIOUS
<1>1. Executing = {} /\ inFlight = {} /\ loop.pc = "wait"
  BY DEF Init, Executing, LoopAt
<1>2. Locks
  BY <1>1 DEF Init, Locks
<1>3. Snapshot
  BY <1>1, FS_EmptySet, QueueAssumption DEF Snapshot
<1>4. Once
  BY <1>1, WorkloadAssumption DEF Init, StoreInit, Once
<1> QED
  BY <1>1, <1>2, <1>3, <1>4 DEF DispatchInv

\* The four kinds of step: all that a refinement of the executions has to know
LEMMA StepKinds ==
  ASSUME TypeOK, DispatchInv, [Next]_vars
  PROVE  \/ Quiet
         \/ /\ UNCHANGED <<executor, starts>>
            /\ \/ Tick \/ LoopExit \/ Sweep \/ SweepRollup \/ Pick \/ Gate \/ Mark
               \/ TickFails \/ Boot
         \/ Admit
         \/ \E t \in Task : Release(t)
         \/ Exit
<1>1. CASE UNCHANGED vars
  BY <1>1, RowsKeptNoRevival
     DEF vars, Quiet, Executing, DispatchInv, Locks, memoryVars, auxVars
<1>2. CASE LoopStep \/ TickFails
  BY <1>2 DEF LoopStep, Tick, LoopExit, Sweep, SweepRollup, Pick, Gate, Mark, TickFails,
              auxVars
<1>3. CASE Boot
  BY <1>3 DEF Boot, auxVars
<1>4. ASSUME NEW t \in Task, ExecutorStep(t)
      PROVE  Quiet \/ Release(t)
  BY <1>4, ExecutorQuiet DEF ExecutorStep
<1> QED
  BY <1>1, <1>2, <1>3, <1>4, RollupQuiet, ClientQuiet, WriterQuiet DEF Next, RollupStep

\* The invariant that carries the exclusion: see DispatchInv.
THEOREM DispatchCorrect == Spec => []DispatchInv
<1>1. TypeOK /\ DispatchInv /\ [Next]_vars => DispatchInv'
  BY StepKinds, QuietKeeps, ScanKeeps, LoopExitKeeps, PickKeeps, GateKeeps, MarkKeeps,
     AdmitKeeps, ReleaseKeeps, ExitKeeps, BootKeeps
<1> QED
  BY InitDispatch, TypeCorrect, <1>1, PTL DEF Spec

\* No two executors on one machine: see MachineExclusive.
THEOREM MachinesExclusive == Spec => []MachineExclusive
<1>1. DispatchInv => MachineExclusive
  BY DEF DispatchInv, Locks, MachineExclusive, Dispatch!Compatible
<1> QED
  BY <1>1, DispatchCorrect, PTL

\* No two executors of one operation category: see CategoryExclusive.
THEOREM CategoriesExclusive == Spec => []CategoryExclusive
<1>1. DispatchInv => CategoryExclusive
  BY DEF DispatchInv, Locks, CategoryExclusive, Dispatch!Compatible
<1> QED
  BY <1>1, DispatchCorrect, PTL

\* The cap on concurrent executions: see WithinCapacity.
THEOREM CapacityRespected == Spec => []WithinCapacity
<1>1. DispatchInv => WithinCapacity
  BY DEF DispatchInv, Locks, Snapshot, WithinCapacity
<1> QED
  BY <1>1, DispatchCorrect, PTL

\* A category is locked exactly while its task executes: see LocksFollowExecution.
THEOREM LocksAgree == Spec => []LocksFollowExecution
<1>1. TypeOK /\ DispatchInv => LocksFollowExecution
  <2> SUFFICES ASSUME TypeOK, DispatchInv PROVE LocksFollowExecution
    OBVIOUS
  <2>1. ASSUME NEW c \in Category
        PROVE  {t \in Executing : CategoryOf[t] = c} =
                 (IF holder[c] = None THEN {} ELSE {holder[c]})
    BY QueueAssumption, WorkloadAssumption DEF DispatchInv, Locks, Executing
  <2> QED
    BY <2>1 DEF DispatchInv, Locks, LocksFollowExecution
<1> QED
  BY <1>1, TypeCorrect, DispatchCorrect, PTL

\* No task is executed twice, across restarts too: see AtMostOnce.
THEOREM ExecutedAtMostOnce == Spec => []AtMostOnce
<1>1. DispatchInv => AtMostOnce
  BY DEF DispatchInv, Once, AtMostOnce
<1> QED
  BY <1>1, DispatchCorrect, PTL

\* Every step of the queue is a step of ExclusiveDispatch or none: see there.
THEOREM QueueImplementsDispatch == Spec => ImplementsDispatch
<1>0. Dispatch!Cardinality(Executing) = Cardinality(Executing)
  BY DEF Cardinality, Dispatch!Cardinality
<1>1. Init => Dispatch!Init
  BY DEF Init, Dispatch!Init, Executing, Ran
<1>2. ASSUME TypeOK, DispatchInv, [Next]_vars
      PROVE  [Dispatch!Next]_(Dispatch!vars)
  <2>1. CASE Quiet \/ UNCHANGED <<executor, starts>>
    BY <1>2, <2>1 DEF Quiet, Executing, Ran, Dispatch!vars
  <2>2. CASE Admit
    <3>1. Ran' = Ran \cup {loop.pick} /\ loop.pick \notin Ran
      BY <1>2, <2>2, AdmitStarts DEF Admit, Ran, TypeOK
    <3>2. Cardinality(Executing) < MaxConcurrent
      BY <1>2, <2>2, AdmitStarts DEF DispatchInv, Locks
    <3>3. Dispatch!Start(loop.pick)
      BY <1>0, <1>2, <2>2, <3>1, <3>2, AdmitStarts DEF Dispatch!Start
    <3> QED
      BY <1>2, <2>2, <3>3, AdmitStarts DEF Dispatch!Next
  <2>3. ASSUME NEW t \in Task, Release(t) PROVE Dispatch!End(t)
    BY <1>2, <2>3, ReleaseKeeps DEF Release, Dispatch!End, Ran, auxVars
  <2>4. CASE Exit
    BY <1>2, <2>4, ExitKeeps DEF Exit, Dispatch!Next, Dispatch!ProcessEnds, Ran
  <2> QED
    BY <1>2, <2>1, <2>2, <2>3, <2>4, StepKinds DEF Dispatch!Next
<1> QED
  BY <1>1, <1>2, TypeCorrect, DispatchCorrect, PTL
     DEF Spec, ImplementsDispatch, Dispatch!Spec
=============================================================================
