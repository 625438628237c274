----------------------------- MODULE UpkeepProofs -----------------------------
(***************************************************************************)
(* What keeps one machine going, for any requests, documents and calendar: *)
(* the power requests lose no edit and boot with theirs, a provisioning    *)
(* run goes through its document in order, one scheduled snapshot is taken *)
(* at a time and the prune keeps to the retention.                         *)
(***************************************************************************)
EXTENDS MCUpkeep, FiniteSetTheorems, FunctionTheorems, WellFoundedInduction, TLAPS

----------------------------------------------------------------------------
(* Power requests: the inductive invariant                                 *)

StepName == Power!Verbs \cup {"probe", "list", "cancel", "dedup", "start", "stop", "apply",
                              "read", "write", "direct", "clear"}
RowOp == Power!Verbs \cup {"start", "stop", "modify"}
RowStatus == {"pending", "running", "done", "failed"}

RequestRecord == [op : Calls \cup {"none"}, left : Seq(StepName), saw : SUBSET Request,
                  last : Nat, hit : SUBSET Nat, mark : Nat]
RowRecord == [op : RowOp, dep : Nat, edits : SUBSET Request, marker : BOOLEAN,
              saw : SUBSET Request, status : RowStatus]
ExecRecord == [row : Nat, conf : SUBSET Request,
               pc : RowOp \cup {"idle", "booted", "wait", "poweroff", "sync", "synced", "clear"}]

PowerShape ==
  /\ req \in [Request -> RequestRecord]
  /\ powerRows \in Seq(RowRecord)
  /\ powerExec \in ExecRecord

\* What a request has left is the end of its plan, or the edit that it queues
RestOf(op, left) ==
  LET plan == Power!Plan(op)
  IN \/ left = <<>>
     \/ op \in Calls \cap {"put"} /\ Len(left) = 1 /\ left[1] = "direct"
     \/ /\ op \in Calls /\ Len(left) <= Len(plan)
        /\ \A k \in 1..Len(left) : left[k] = plan[k + Len(plan) - Len(left)]

Waiting(i) == powerRows[i].status = "pending"
Unended(i) == powerRows[i].status \in {"pending", "running"}
StartAt(i) == i \in DOMAIN powerRows /\ powerRows[i].op = "start"

\* The edits are set, or the modification at d will set them or has failed
Covered(edits, d) ==
  \/ edits \subseteq knobs
  \/ /\ d \in DOMAIN powerRows /\ powerRows[d].op = "modify"
     /\ \/ Unended(d) /\ edits \subseteq powerRows[d].edits
        \/ powerRows[d].status = "failed"

\* With apart, who writes the edits is alone
Alone(r) ==
  /\ \A q \in Request : Power!Active(q) => q = r
  /\ \A i \in DOMAIN powerRows : powerRows[i].op = "modify" => ~Unended(i)

\* All of a request but the start it queues at its end
Earlier(q) == ~(q.op \in {"start", "restart"} /\ Len(q.left) = 1)

\* A request knows the edits that wait until it has queued them or could not; before it queues its
\* start those it goes on with are covered; a stop has the starts before it listed, then cancelled
Knows(r, q) ==
  /\ q.last <= Len(powerRows) /\ q.mark <= Len(powerRows)
  /\ \A i \in q.hit : StartAt(i)
  /\ apart /\ Earlier(q) => pending \subseteq q.saw
  /\ apart /\ q.op \in Power!Writers => Alone(r)
  /\ q.op \in {"start", "restart"} /\ Len(q.left) = 1 => Covered(q.saw, q.last)
  /\ q.op = "stop" /\ Len(q.left) <= 4
       => \A i \in 1..q.mark : StartAt(i) /\ Waiting(i) => i \in q.hit
  /\ q.op = "stop" /\ Len(q.left) <= 3 => q.hit = {}

RequestInv(r) ==
  /\ RestOf(req[r].op, req[r].left)
  /\ Power!Active(r) => Knows(r, req[r])

\* An apply carries all that waits; a start has its edits in the settings once it runs
RowInv(i) ==
  /\ powerRows[i].dep < i
  /\ apart /\ powerRows[i].op = "modify" /\ Unended(i) /\ powerRows[i].marker
       => pending \subseteq powerRows[i].edits
  /\ powerRows[i].op = "start" /\ Waiting(i) => Covered(powerRows[i].saw, powerRows[i].dep)
  /\ powerRows[i].op = "start" /\ powerRows[i].status = "running" => powerRows[i].saw \subseteq knobs

\* What the executor of an operation goes through
PcOf(op) ==
  CASE op = "start" -> {"start", "booted"}
    [] op = "stop" -> {"stop", "wait", "poweroff"}
    [] op = "modify" -> {"modify", "sync", "synced", "clear"}
    [] OTHER -> {op}

ExecInv ==
  IF powerExec.pc = "idle" THEN powerExec.row = 0
  ELSE LET task == powerRows[powerExec.row] IN
       /\ powerExec.row \in DOMAIN powerRows /\ task.status = "running"
       /\ powerExec.pc \in PcOf(task.op)
       /\ powerExec.pc \in {"sync", "synced", "clear"} => task.edits \subseteq knobs
       /\ powerExec.pc = "clear" => task.marker
       /\ apart /\ powerExec.pc = "synced" => powerExec.conf = pending
       /\ powerExec.pc = "wait" => vm \in {"running", "off"}

PowerSets ==
  /\ apart \in BOOLEAN /\ vm \in {"off", "running", "paused", "saved"}
  /\ knobs \subseteq Request /\ pending \subseteq Request
  /\ acked \subseteq Request /\ dropped \subseteq Request
  /\ outside \in 0 .. MaxOutside

PowerInv ==
  /\ PowerShape /\ PowerSets /\ Power!EditKept
  /\ \A r \in Request : RequestInv(r)
  /\ \A i \in DOMAIN powerRows : RowInv(i)
  /\ ExecInv

----------------------------------------------------------------------------
(* The plans of the calls *)

PlanOf(op, plan) ==
  /\ op = "start" => Len(plan) = 4 /\ plan[1] = "probe" /\ plan[2] = "dedup" /\ plan[3] = "apply" /\ plan[4] = "start"
  /\ op = "stop" => Len(plan) = 6 /\ plan[1] = "probe" /\ plan[2] = "list" /\ plan[3] = "cancel"
                     /\ plan[4] = "dedup" /\ plan[5] = "stop" /\ plan[6] = "apply"
  /\ op = "restart" => Len(plan) = 3 /\ plan[1] = "stop" /\ plan[2] = "apply" /\ plan[3] = "start"
  /\ op = "put" => Len(plan) = 3 /\ plan[1] = "probe" /\ plan[2] = "read" /\ plan[3] = "write"
  /\ op = "clear" => Len(plan) = 1 /\ plan[1] = "clear"
  /\ op = "apply" => Len(plan) = 2 /\ plan[1] = "probe" /\ plan[2] = "apply"
  /\ op \in Power!Verbs => Len(plan) = 3 /\ plan[1] = "probe" /\ plan[2] = "dedup" /\ plan[3] = op

LEMMA Plans ==
  ASSUME NEW op \in CallNames
  PROVE  Power!Plan(op) \in Seq(StepName) /\ Len(Power!Plan(op)) >= 1 /\ PlanOf(op, Power!Plan(op))
<1>0. PICK plan : plan = Power!Plan(op)
  OBVIOUS
<1>1. CASE op = "start"
  <2>1. plan = <<"probe", "dedup", "apply", "start">>
    BY <1>0, <1>1 DEF Power!Verbs, Power!Plan, Power!StopPlan
  <2>2. <<"probe", "dedup", "apply", "start">> \in Seq(StepName)
    BY <1>1 DEF StepName, Power!Verbs
  <2>3. Len(plan) = 4 /\ plan[1] = "probe" /\ plan[2] = "dedup" /\ plan[3] = "apply" /\ plan[4] = "start"
    BY <2>1
  <2>4. plan \in Seq(StepName)
    BY <2>1, <2>2
  <2> QED
    BY <1>0, <1>1, <2>3, <2>4 DEF PlanOf, Power!Verbs
<1>2. CASE op = "stop"
  <2>1. plan = <<"probe", "list", "cancel", "dedup", "stop", "apply">>
    BY <1>0, <1>2 DEF Power!Verbs, Power!Plan, Power!StopPlan
  <2>2. <<"probe", "list", "cancel", "dedup", "stop", "apply">> \in Seq(StepName)
    BY <1>2 DEF StepName, Power!Verbs
  <2>3. Len(plan) = 6 /\ plan[1] = "probe" /\ plan[2] = "list" /\ plan[3] = "cancel" /\ plan[4] = "dedup" /\ plan[5] = "stop" /\ plan[6] = "apply"
    BY <2>1
  <2>4. plan \in Seq(StepName)
    BY <2>1, <2>2
  <2> QED
    BY <1>0, <1>2, <2>3, <2>4 DEF PlanOf, Power!Verbs
<1>3. CASE op = "restart"
  <2>1. plan = <<"stop", "apply", "start">>
    BY <1>0, <1>3 DEF Power!Verbs, Power!Plan, Power!StopPlan
  <2>2. <<"stop", "apply", "start">> \in Seq(StepName)
    BY <1>3 DEF StepName, Power!Verbs
  <2>3. Len(plan) = 3 /\ plan[1] = "stop" /\ plan[2] = "apply" /\ plan[3] = "start"
    BY <2>1
  <2>4. plan \in Seq(StepName)
    BY <2>1, <2>2
  <2> QED
    BY <1>0, <1>3, <2>3, <2>4 DEF PlanOf, Power!Verbs
<1>4. CASE op = "put"
  <2>1. plan = <<"probe", "read", "write">>
    BY <1>0, <1>4 DEF Power!Verbs, Power!Plan, Power!StopPlan
  <2>2. <<"probe", "read", "write">> \in Seq(StepName)
    BY <1>4 DEF StepName, Power!Verbs
  <2>3. Len(plan) = 3 /\ plan[1] = "probe" /\ plan[2] = "read" /\ plan[3] = "write"
    BY <2>1
  <2>4. plan \in Seq(StepName)
    BY <2>1, <2>2
  <2> QED
    BY <1>0, <1>4, <2>3, <2>4 DEF PlanOf, Power!Verbs
<1>5. CASE op = "clear"
  <2>1. plan = <<"clear">>
    BY <1>0, <1>5 DEF Power!Verbs, Power!Plan, Power!StopPlan
  <2>2. <<"clear">> \in Seq(StepName)
    BY <1>5 DEF StepName, Power!Verbs
  <2>3. Len(plan) = 1 /\ plan[1] = "clear"
    BY <2>1
  <2>4. plan \in Seq(StepName)
    BY <2>1, <2>2
  <2> QED
    BY <1>0, <1>5, <2>3, <2>4 DEF PlanOf, Power!Verbs
<1>6. CASE op = "apply"
  <2>1. plan = <<"probe", "apply">>
    BY <1>0, <1>6 DEF Power!Verbs, Power!Plan, Power!StopPlan
  <2>2. <<"probe", "apply">> \in Seq(StepName)
    BY <1>6 DEF StepName, Power!Verbs
  <2>3. Len(plan) = 2 /\ plan[1] = "probe" /\ plan[2] = "apply"
    BY <2>1
  <2>4. plan \in Seq(StepName)
    BY <2>1, <2>2
  <2> QED
    BY <1>0, <1>6, <2>3, <2>4 DEF PlanOf, Power!Verbs
<1>7. CASE op \in Power!Verbs
  <2>1. plan = <<"probe", "dedup", op>>
    BY <1>0, <1>7 DEF Power!Verbs, Power!Plan, Power!StopPlan
  <2>2. <<"probe", "dedup", op>> \in Seq(StepName)
    BY <1>7 DEF StepName, Power!Verbs
  <2>3. Len(plan) = 3 /\ plan[1] = "probe" /\ plan[2] = "dedup" /\ plan[3] = op
    BY <2>1
  <2>4. plan \in Seq(StepName)
    BY <2>1, <2>2
  <2> QED
    BY <1>0, <1>7, <2>3, <2>4 DEF PlanOf, Power!Verbs
<1> QED
  BY <1>1, <1>2, <1>3, <1>4, <1>5, <1>6, <1>7 DEF CallNames, Power!Verbs

\* Where a request is in its plan tells what it was asked, and how much is left
Place(op, left, s) ==
  /\ op \in Calls /\ left >= 1 /\ s \in StepName
  /\ s = "write" => op = "put" /\ left = 1
  /\ s = "read" => op = "put" /\ left = 2
  /\ s = "direct" => op = "put" /\ left = 1
  /\ s = "clear" => op = "clear" /\ left = 1
  /\ s = "list" => op = "stop" /\ left = 5
  /\ s = "cancel" => op = "stop" /\ left = 4
  /\ s = "dedup" => \/ op \in {"start", "stop"} /\ left = 3
                    \/ op \in Power!Verbs /\ left = 2
  /\ s = "apply" => \/ op \in {"start", "restart"} /\ left = 2
                    \/ op \in {"stop", "apply"} /\ left = 1
  /\ s = "start" => op \in {"start", "restart"} /\ left = 1
  /\ s = "stop" => (op = "stop" /\ left = 2) \/ (op = "restart" /\ left = 3)
  /\ s \in Power!Verbs => op = s /\ left = 1
  /\ s = "probe" => \/ (op = "start" /\ left = 4) \/ (op = "stop" /\ left = 6)
                    \/ (op \in Power!Verbs \cup {"put"} /\ left = 3) \/ (op = "apply" /\ left = 2)
  /\ op = "stop" /\ left = 6 => s = "probe"

LEMMA Placed ==
  ASSUME NEW op \in Calls, Calls \subseteq CallNames, NEW n \in Nat, n >= 1, NEW plan,
         PlanOf(op, plan), n <= Len(plan), NEW s \in StepName, s = plan[1 + Len(plan) - n]
  PROVE  Place(op, n, s)
<1>1. CASE op = "start"
  <2>1. Len(plan) = 4 /\ plan[1] = "probe" /\ plan[2] = "dedup" /\ plan[3] = "apply" /\ plan[4] = "start"
    BY <1>1 DEF PlanOf
  <2>2. (n = 4 /\ s = "probe") \/ (n = 3 /\ s = "dedup") \/ (n = 2 /\ s = "apply") \/ (n = 1 /\ s = "start")
    BY <2>1
  <2> QED
    BY <1>1, <2>2 DEF Power!Verbs, Place
<1>2. CASE op = "stop"
  <2>1. Len(plan) = 6 /\ plan[1] = "probe" /\ plan[2] = "list" /\ plan[3] = "cancel" /\ plan[4] = "dedup" /\ plan[5] = "stop" /\ plan[6] = "apply"
    BY <1>2 DEF PlanOf
  <2>2. (n = 6 /\ s = "probe") \/ (n = 5 /\ s = "list") \/ (n = 4 /\ s = "cancel") \/ (n = 3 /\ s = "dedup") \/ (n = 2 /\ s = "stop") \/ (n = 1 /\ s = "apply")
    BY <2>1
  <2> QED
    BY <1>2, <2>2 DEF Power!Verbs, Place
<1>3. CASE op = "restart"
  <2>1. Len(plan) = 3 /\ plan[1] = "stop" /\ plan[2] = "apply" /\ plan[3] = "start"
    BY <1>3 DEF PlanOf
  <2>2. (n = 3 /\ s = "stop") \/ (n = 2 /\ s = "apply") \/ (n = 1 /\ s = "start")
    BY <2>1
  <2> QED
    BY <1>3, <2>2 DEF Power!Verbs, Place
<1>4. CASE op = "put"
  <2>1. Len(plan) = 3 /\ plan[1] = "probe" /\ plan[2] = "read" /\ plan[3] = "write"
    BY <1>4 DEF PlanOf
  <2>2. (n = 3 /\ s = "probe") \/ (n = 2 /\ s = "read") \/ (n = 1 /\ s = "write")
    BY <2>1
  <2> QED
    BY <1>4, <2>2 DEF Power!Verbs, Place
<1>5. CASE op = "clear"
  <2>1. Len(plan) = 1 /\ plan[1] = "clear"
    BY <1>5 DEF PlanOf
  <2>2. (n = 1 /\ s = "clear")
    BY <2>1
  <2> QED
    BY <1>5, <2>2 DEF Power!Verbs, Place
<1>6. CASE op = "apply"
  <2>1. Len(plan) = 2 /\ plan[1] = "probe" /\ plan[2] = "apply"
    BY <1>6 DEF PlanOf
  <2>2. (n = 2 /\ s = "probe") \/ (n = 1 /\ s = "apply")
    BY <2>1
  <2> QED
    BY <1>6, <2>2 DEF Power!Verbs, Place
<1>7. CASE op \in Power!Verbs
  <2>1. Len(plan) = 3 /\ plan[1] = "probe" /\ plan[2] = "dedup" /\ plan[3] = op
    BY <1>7 DEF PlanOf
  <2>2. (n = 3 /\ s = "probe") \/ (n = 2 /\ s = "dedup") \/ (n = 1 /\ s = op)
    BY <2>1
  <2> QED
    BY <1>7, <2>2 DEF Power!Verbs, Place
<1> QED
  BY <1>1, <1>2, <1>3, <1>4, <1>5, <1>6, <1>7 DEF CallNames, Power!Verbs

LEMMA Heads ==
  ASSUME Calls \subseteq CallNames, PowerShape, NEW r \in Request, RestOf(req[r].op, req[r].left),
         NEW s, Power!At(r, s)
  PROVE  Place(req[r].op, Len(req[r].left), s)
<1>0. PICK op, left, plan : op = req[r].op /\ left = req[r].left /\ plan = Power!Plan(op)
  OBVIOUS
<1>1. left \in Seq(StepName) /\ left # <<>> /\ Head(left) = s
  BY <1>0 DEF PowerShape, RequestRecord, Power!At, Power!Active
<1>2. Len(left) \in Nat /\ Len(left) >= 1 /\ left[1] = s /\ s \in StepName
  BY <1>1
<1>3. CASE op \in Calls \cap {"put"} /\ Len(left) = 1 /\ left[1] = "direct"
  BY <1>0, <1>2, <1>3 DEF Power!Verbs, Place
<1>4. CASE /\ op \in Calls /\ Len(left) <= Len(plan)
           /\ \A k \in 1..Len(left) : left[k] = plan[k + Len(plan) - Len(left)]
  <2>1. PlanOf(op, plan)
    BY <1>0, <1>4, Plans
  <2>2. 1 \in 1..Len(left)
    BY <1>2
  <2>3. left[1] = plan[1 + Len(plan) - Len(left)]
    BY <1>4, <2>2
  <2> QED
    BY <1>0, <1>2, <1>4, <2>1, <2>3, Placed
<1> QED
  BY <1>0, <1>1, <1>3, <1>4 DEF RestOf

----------------------------------------------------------------------------
(* What a step does to a request *)

LEMMA TailRest ==
  ASSUME Calls \subseteq CallNames, NEW op, NEW left \in Seq(StepName), left # <<>>,
         RestOf(op, left)
  PROVE  /\ Tail(left) \in Seq(StepName) /\ Len(Tail(left)) = Len(left) - 1
         /\ Tail(left) = <<>> <=> Len(left) = 1
         /\ RestOf(op, Tail(left))
<1>1. /\ Tail(left) \in Seq(StepName) /\ Len(left) \in Nat /\ Len(left) >= 1
      /\ Len(Tail(left)) = Len(left) - 1 /\ \A k \in 1..Len(left) - 1 : Tail(left)[k] = left[k + 1]
  OBVIOUS
<1>2. Tail(left) = <<>> <=> Len(left) = 1
  BY <1>1
<1>3. CASE Len(left) = 1
  BY <1>1, <1>2, <1>3 DEF RestOf
<1>4. ASSUME NEW plan, plan = Power!Plan(op), op \in Calls, Len(left) <= Len(plan),
             \A k \in 1..Len(left) : left[k] = plan[k + Len(plan) - Len(left)]
      PROVE  RestOf(op, Tail(left))
  <2>1. Len(plan) \in Nat
    BY <1>4, Plans
  <2>2. Len(Tail(left)) <= Len(plan)
    BY <1>1, <1>4, <2>1
  <2>3. ASSUME NEW k \in 1..Len(Tail(left))
        PROVE  Tail(left)[k] = plan[k + Len(plan) - Len(Tail(left))]
    <3>1. k + 1 \in 1..Len(left) /\ Tail(left)[k] = left[k + 1]
      BY <1>1
    <3>2. (k + 1) + Len(plan) - Len(left) = k + Len(plan) - Len(Tail(left))
      BY <1>1, <2>1
    <3> QED
      BY <1>4, <3>1, <3>2
  <2> QED
    BY <1>4, <2>2, <2>3 DEF RestOf
<1> QED
  BY <1>1, <1>2, <1>3, <1>4 DEF RestOf

LEMMA Becomes ==
  ASSUME PowerShape, NEW r \in Request, NEW q \in RequestRecord, RestOf(q.op, q.left),
         Power!Become(r, q)
  PROVE  /\ req' \in [Request -> RequestRecord]
         /\ \A p \in Request : p # r => req'[p] = req[p]
         /\ req'[r].op = q.op /\ req'[r].left = q.left
         /\ q.left # <<>> => req'[r] = q
         /\ RestOf(req'[r].op, req'[r].left)
<1> DEFINE rest == [Power!NoRequest EXCEPT !.op = q.op]
<1>1. rest \in RequestRecord /\ rest.op = q.op /\ rest.left = <<>>
  <2>1. Power!NoRequest \in RequestRecord /\ Power!NoRequest.left = <<>>
    BY DEF Power!NoRequest, RequestRecord
  <2>2. q.op \in Calls \cup {"none"}
    BY DEF RequestRecord
  <2> QED
    BY <2>1, <2>2 DEF RequestRecord
<1>2. CASE q.left = <<>>
  <2>1. req' = [req EXCEPT ![r] = rest]
    BY <1>2 DEF Power!Become
  <2> QED
    BY <1>1, <1>2, <2>1 DEF PowerShape
<1>3. CASE q.left # <<>>
  <2>1. req' = [req EXCEPT ![r] = q]
    BY <1>3 DEF Power!Become
  <2> QED
    BY <1>3, <2>1 DEF PowerShape
<1> QED
  BY <1>2, <1>3

\* The plain steps: on to the next one, or answered at once
LEMMA Stepped ==
  ASSUME Calls \subseteq CallNames, PowerShape, NEW r \in Request, Power!Active(r),
         RestOf(req[r].op, req[r].left), Power!Step(r)
  PROVE  /\ req' \in [Request -> RequestRecord]
         /\ \A p \in Request : p # r => req'[p] = req[p]
         /\ req'[r].op = req[r].op /\ req'[r].left = Tail(req[r].left)
         /\ Len(req[r].left) # 1 => req'[r] = [req[r] EXCEPT !.left = Tail(@)]
         /\ Len(req'[r].left) = Len(req[r].left) - 1
         /\ Len(req[r].left) = 1 => req'[r].left = <<>>
         /\ RestOf(req'[r].op, req'[r].left)
<1>1. req[r] \in RequestRecord /\ req[r].left \in Seq(StepName) /\ req[r].left # <<>>
  BY DEF PowerShape, RequestRecord, Power!Active
<1>2. PICK left : left = Tail(req[r].left)
  OBVIOUS
<1>3. /\ left \in Seq(StepName) /\ Len(left) = Len(req[r].left) - 1
      /\ left = <<>> <=> Len(req[r].left) = 1
      /\ RestOf(req[r].op, left)
  BY <1>1, <1>2, TailRest
<1>4. PICK q : q = [req[r] EXCEPT !.left = left]
  OBVIOUS
<1>5. q \in RequestRecord /\ q.op = req[r].op /\ q.left = left
  BY <1>1, <1>3, <1>4 DEF RequestRecord
<1>6. Power!Become(r, q)
  BY <1>2, <1>4 DEF Power!Step
<1> QED
  BY <1>2, <1>3, <1>4, <1>5, <1>6, Becomes

LEMMA Answered ==
  ASSUME PowerShape, NEW r \in Request, Power!Answer(r)
  PROVE  /\ req' \in [Request -> RequestRecord]
         /\ \A p \in Request : p # r => req'[p] = req[p]
         /\ req'[r].op = req[r].op /\ req'[r].left = <<>>
         /\ RestOf(req'[r].op, req'[r].left)
<1>1. PICK q : q = [req[r] EXCEPT !.left = <<>>]
  OBVIOUS
<1>2. q \in RequestRecord /\ q.op = req[r].op /\ q.left = <<>>
  <2>1. req[r] \in RequestRecord
    BY DEF PowerShape
  <2>2. <<>> \in Seq(StepName)
    OBVIOUS
  <2> QED
    BY <1>1, <2>1, <2>2 DEF RequestRecord
<1>3. Power!Become(r, q) /\ RestOf(q.op, q.left)
  BY <1>1, <1>2 DEF Power!Answer, RestOf
<1> QED
  BY <1>2, <1>3, Becomes

----------------------------------------------------------------------------
(* What a step does to the tasks *)

\* Tasks are added, one that may run starts, others end: a modification that succeeds has its
\* edits in the settings
Evolves ==
  /\ Len(powerRows) <= Len(powerRows') /\ knobs \subseteq knobs'
  /\ \A i \in DOMAIN powerRows :
       /\ powerRows'[i].op = powerRows[i].op /\ powerRows'[i].dep = powerRows[i].dep
       /\ Unended(i)' => /\ Unended(i)
                         /\ powerRows'[i].edits = powerRows[i].edits
                         /\ powerRows'[i].marker = powerRows[i].marker
                         /\ powerRows'[i].saw = powerRows[i].saw
                         /\ Waiting(i)' => Waiting(i)
                         /\ Waiting(i) /\ ~Waiting(i)' => Power!Runnable(i)
       /\ ~Unended(i)' => IF Unended(i)
                          THEN \/ powerRows'[i].status = "failed"
                               \/ powerRows[i].op = "modify" => powerRows[i].edits \subseteq knobs'
                          ELSE powerRows'[i].status = powerRows[i].status

LEMMA RowTypes ==
  ASSUME PowerShape
  PROVE  /\ Len(powerRows) \in Nat /\ DOMAIN powerRows = 1 .. Len(powerRows)
         /\ \A i \in DOMAIN powerRows : powerRows[i] \in RowRecord
         /\ \A r \in Request : req[r] \in RequestRecord
BY DEF PowerShape

LEMMA RowsStill ==
  ASSUME PowerShape, powerRows' = powerRows, knobs \subseteq knobs'
  PROVE  Evolves
BY RowTypes DEF Evolves, Unended, Waiting, RowRecord, RowStatus

LEMMA RowsAdded ==
  ASSUME PowerShape, NEW task \in RowRecord, powerRows' = Append(powerRows, task), UNCHANGED knobs
  PROVE  /\ Evolves /\ powerRows' \in Seq(RowRecord)
         /\ Len(powerRows') = Len(powerRows) + 1
         /\ powerRows'[Len(powerRows) + 1] = task
         /\ \A i \in DOMAIN powerRows : powerRows'[i] = powerRows[i]
<1>1. /\ powerRows' \in Seq(RowRecord) /\ Len(powerRows') = Len(powerRows) + 1
      /\ Len(powerRows) \in Nat /\ DOMAIN powerRows = 1 .. Len(powerRows)
      /\ powerRows'[Len(powerRows) + 1] = task
      /\ \A i \in DOMAIN powerRows : powerRows'[i] = powerRows[i]
  BY DEF PowerShape
<1> QED
  BY <1>1 DEF Evolves, Unended, Waiting

LEMMA RowEnds ==
  ASSUME PowerShape, NEW i \in DOMAIN powerRows, NEW s \in {"done", "failed"}, Unended(i),
         powerRows' = Power!Finished(i, s), knobs \subseteq knobs',
         powerRows[i].op = "modify" /\ s = "done" => powerRows[i].edits \subseteq knobs'
  PROVE  /\ Evolves /\ powerRows' \in Seq(RowRecord)
         /\ Len(powerRows') = Len(powerRows)
         /\ powerRows'[i].status = s
         /\ \A j \in DOMAIN powerRows : j # i => powerRows'[j] = powerRows[j]
<1>1. powerRows[i] \in RowRecord /\ Len(powerRows) \in Nat /\ DOMAIN powerRows = 1 .. Len(powerRows)
  BY RowTypes
<1>2. PICK t : t = [Power!Row(powerRows[i].op, powerRows[i].dep, {}, FALSE, {}) EXCEPT !.status = s]
  OBVIOUS
<1>3. /\ t \in RowRecord /\ t.op = powerRows[i].op /\ t.dep = powerRows[i].dep /\ t.status = s
  BY <1>1, <1>2 DEF Power!Row, RowRecord, RowStatus
<1>4. powerRows' = [powerRows EXCEPT ![i] = t]
  BY <1>2 DEF Power!Finished
<1>5. /\ powerRows' \in Seq(RowRecord) /\ Len(powerRows') = Len(powerRows)
      /\ powerRows'[i] = t /\ \A j \in DOMAIN powerRows : j # i => powerRows'[j] = powerRows[j]
  BY <1>1, <1>3, <1>4 DEF PowerShape
<1>6. ASSUME NEW j \in DOMAIN powerRows, j # i
      PROVE  powerRows'[j] = powerRows[j] /\ (Unended(j)' <=> Unended(j)) /\ (Waiting(j)' <=> Waiting(j))
  BY <1>5, <1>6 DEF Unended, Waiting
<1>7. ~Unended(i)'
  BY <1>3, <1>5 DEF Unended
<1> QED
  BY <1>1, <1>3, <1>5, <1>6, <1>7 DEF Evolves

LEMMA RowRuns ==
  ASSUME PowerShape, NEW i \in DOMAIN powerRows, Power!Runnable(i),
         powerRows' = [powerRows EXCEPT ![i].status = "running"], UNCHANGED knobs
  PROVE  /\ Evolves /\ powerRows' \in Seq(RowRecord)
         /\ Len(powerRows') = Len(powerRows)
         /\ powerRows'[i].status = "running" /\ powerRows'[i].op = powerRows[i].op
         /\ \A j \in DOMAIN powerRows : j # i => powerRows'[j] = powerRows[j]
<1>1. powerRows[i] \in RowRecord /\ Len(powerRows) \in Nat /\ DOMAIN powerRows = 1 .. Len(powerRows)
  BY RowTypes
<1>2. PICK t : t = [powerRows[i] EXCEPT !.status = "running"]
  OBVIOUS
<1>3. /\ t \in RowRecord /\ t.op = powerRows[i].op /\ t.dep = powerRows[i].dep
      /\ t.status = "running" /\ t.edits = powerRows[i].edits /\ t.marker = powerRows[i].marker
      /\ t.saw = powerRows[i].saw
  BY <1>1, <1>2 DEF RowRecord, RowStatus
<1>4. powerRows' = [powerRows EXCEPT ![i] = t]
  BY <1>2
<1>5. /\ powerRows' \in Seq(RowRecord) /\ Len(powerRows') = Len(powerRows)
      /\ powerRows'[i] = t /\ \A j \in DOMAIN powerRows : j # i => powerRows'[j] = powerRows[j]
  BY <1>1, <1>3, <1>4 DEF PowerShape
<1>6. ASSUME NEW j \in DOMAIN powerRows, j # i
      PROVE  powerRows'[j] = powerRows[j] /\ (Unended(j)' <=> Unended(j)) /\ (Waiting(j)' <=> Waiting(j))
  BY <1>5, <1>6 DEF Unended, Waiting
<1>7. Unended(i)' /\ ~Waiting(i)' /\ Unended(i) /\ Waiting(i)
  BY <1>3, <1>5 DEF Unended, Waiting, Power!Runnable
<1> QED
  BY <1>1, <1>3, <1>5, <1>6, <1>7 DEF Evolves

LEMMA CoveredKept ==
  ASSUME PowerShape, powerRows' \in Seq(RowRecord), Evolves, NEW edits, NEW d, Covered(edits, d)
  PROVE  Covered(edits, d)'
<1>1. Len(powerRows) \in Nat /\ DOMAIN powerRows = 1 .. Len(powerRows)
      /\ Len(powerRows') \in Nat /\ DOMAIN powerRows' = 1 .. Len(powerRows')
      /\ DOMAIN powerRows \subseteq DOMAIN powerRows'
  BY RowTypes DEF Evolves
<1>2. CASE edits \subseteq knobs
  BY <1>2 DEF Covered, Evolves
<1>3. CASE /\ d \in DOMAIN powerRows /\ powerRows[d].op = "modify"
           /\ \/ Unended(d) /\ edits \subseteq powerRows[d].edits
              \/ powerRows[d].status = "failed"
  <2>1. d \in DOMAIN powerRows' /\ powerRows'[d].op = "modify"
    BY <1>1, <1>3 DEF Evolves
  <2>2. CASE powerRows[d].status = "failed"
    <3>1. powerRows'[d].status = "failed"
      BY <1>3, <2>2 DEF Evolves, Unended
    <3> QED
      BY <2>1, <3>1 DEF Covered
  <2>3. CASE Unended(d) /\ edits \subseteq powerRows[d].edits /\ Unended(d)'
    BY <1>3, <2>1, <2>3 DEF Evolves, Covered
  <2>4. CASE Unended(d) /\ edits \subseteq powerRows[d].edits /\ ~Unended(d)'
    <3>1. powerRows'[d].status = "failed" \/ powerRows[d].edits \subseteq knobs'
      BY <1>3, <2>4 DEF Evolves
    <3> QED
      BY <2>1, <2>4, <3>1 DEF Covered
  <2> QED
    BY <1>3, <2>2, <2>3, <2>4
<1> QED
  BY <1>2, <1>3 DEF Covered

\* What holds of the tasks there are goes on to hold, if nothing new waits for an apply
LEMMA RowsKept ==
  ASSUME PowerShape, powerRows' \in Seq(RowRecord), Evolves, UNCHANGED apart,
         NEW i \in DOMAIN powerRows, RowInv(i),
         apart /\ powerRows[i].op = "modify" /\ Unended(i) => pending' \subseteq pending
  PROVE  RowInv(i)'
<1> USE DEF RowInv
<1>1. powerRows'[i].dep < i /\ powerRows'[i].op = powerRows[i].op
  BY DEF Evolves
<1>2. apart' /\ powerRows'[i].op = "modify" /\ Unended(i)' /\ powerRows'[i].marker
        => pending' \subseteq powerRows'[i].edits
  BY DEF Evolves
<1>3. ASSUME powerRows'[i].op = "start", Waiting(i)'
      PROVE  Covered(powerRows[i].saw, powerRows[i].dep)'
  <2>1. Unended(i)'
    BY <1>3 DEF Waiting, Unended
  <2>2. /\ powerRows'[i].saw = powerRows[i].saw /\ powerRows'[i].dep = powerRows[i].dep
        /\ Waiting(i) /\ powerRows[i].op = "start"
    BY <1>3, <2>1 DEF Evolves
  <2>3. Covered(powerRows[i].saw, powerRows[i].dep)
    BY <2>2
  <2>4. PICK e, d : e = powerRows[i].saw /\ d = powerRows[i].dep
    OBVIOUS
  <2>5. Covered(e, d)'
    BY <2>3, <2>4, CoveredKept
  <2> QED
    BY <2>2, <2>4, <2>5 DEF Covered, Unended
<1>4. ASSUME powerRows'[i].op = "start", powerRows'[i].status = "running"
      PROVE  powerRows'[i].saw \subseteq knobs'
  <2>1. Unended(i)' /\ ~Waiting(i)'
    BY <1>4 DEF Waiting, Unended
  <2>2. /\ powerRows'[i].saw = powerRows[i].saw /\ powerRows[i].op = "start" /\ Unended(i)
        /\ Waiting(i) => Power!Runnable(i)
    BY <1>4, <2>1 DEF Evolves
  <2>3. CASE powerRows[i].status = "running"
    BY <2>2, <2>3 DEF Evolves
  <2>4. CASE Waiting(i)
    <3>1. Covered(powerRows[i].saw, powerRows[i].dep)
      BY <2>2, <2>4
    <3>2. powerRows[i].dep \in DOMAIN powerRows => powerRows[powerRows[i].dep].status = "done"
      BY <2>2, <2>4, RowTypes DEF Power!Runnable, RowRecord
    <3>3. powerRows[i].saw \subseteq knobs
      BY <3>1, <3>2 DEF Covered, Unended
    <3> QED
      BY <2>2, <3>3 DEF Evolves
  <2> QED
    BY <2>2, <2>3, <2>4 DEF Unended, Waiting
<1> QED
  BY <1>1, <1>2, <1>3, <1>4

----------------------------------------------------------------------------
(* Steps that leave things alone *)

\* A request that does not step: no one wrote edits that it does not know of
LEMMA RequestKept ==
  ASSUME PowerShape, powerRows' \in Seq(RowRecord), Evolves, UNCHANGED apart,
         NEW p \in Request, RequestInv(p), req'[p] = req[p],
         apart /\ Power!Active(p) => pending' \subseteq pending,
         apart /\ Power!Active(p) /\ req[p].op \in Power!Writers => Alone(p)'
  PROVE  RequestInv(p)'
<1>1. RestOf(req'[p].op, req'[p].left)
  BY DEF RequestInv
<1> SUFFICES ASSUME Power!Active(p), Knows(p, req[p]) PROVE Knows(p, req[p])'
  BY <1>1 DEF RequestInv, Power!Active, RestOf
<1>2. /\ Len(powerRows) \in Nat /\ DOMAIN powerRows = 1 .. Len(powerRows)
      /\ Len(powerRows') \in Nat /\ DOMAIN powerRows' = 1 .. Len(powerRows')
      /\ Len(powerRows) <= Len(powerRows') /\ req[p] \in RequestRecord
  BY RowTypes DEF Evolves
<1>3. \A i \in DOMAIN powerRows : (StartAt(i)' <=> StartAt(i)) /\ (Waiting(i)' => Waiting(i))
  <2>1. DOMAIN powerRows \subseteq DOMAIN powerRows'
    BY <1>2
  <2> QED
    BY <2>1 DEF StartAt, Waiting, Unended, Evolves
<1> DEFINE q == req[p]
<1>4. q.last <= Len(powerRows') /\ q.mark <= Len(powerRows')
  BY <1>2 DEF Knows, RequestRecord
<1>5. \A i \in q.hit : StartAt(i)'
  BY <1>3 DEF Knows, StartAt
<1>6. apart' /\ Earlier(q) => pending' \subseteq q.saw
  BY DEF Knows
<1>7. q.op \in {"start", "restart"} /\ Len(q.left) = 1 => Covered(req[p].saw, req[p].last)'
  <2> SUFFICES ASSUME Covered(q.saw, q.last) PROVE Covered(req[p].saw, req[p].last)'
    BY DEF Knows
  <2>1. PICK e, d : e = q.saw /\ d = q.last
    OBVIOUS
  <2>2. Covered(e, d)'
    BY <2>1, CoveredKept
  <2>3. e = req'[p].saw /\ d = req'[p].last
    BY <2>1
  <2> QED
    BY <2>2, <2>3 DEF Covered, Unended
<1>8. q.op = "stop" /\ Len(q.left) <= 4
        => \A i \in 1 .. q.mark : StartAt(i)' /\ Waiting(i)' => i \in q.hit
  <2>1. \A i \in 1 .. q.mark : i \in DOMAIN powerRows
    BY <1>2 DEF Knows, RequestRecord
  <2> QED
    BY <1>3, <2>1 DEF Knows
<1>9. q.op = "stop" /\ Len(q.left) <= 3 => q.hit = {}
  BY DEF Knows
<1>10. apart' /\ q.op \in Power!Writers => Alone(p)'
  OBVIOUS
<1>11. q = req'[p]
  OBVIOUS
<1> HIDE DEF q
<1> QED
  BY <1>4, <1>5, <1>6, <1>7, <1>8, <1>9, <1>10, <1>11 DEF Knows, Covered, Unended, Alone, StartAt, Waiting

LEMMA ExecKept ==
  ASSUME PowerShape, powerRows' \in Seq(RowRecord), Evolves, ExecInv, UNCHANGED <<apart, powerExec>>,
         powerExec.pc # "idle" => powerRows'[powerExec.row] = powerRows[powerExec.row],
         powerExec.pc = "wait" /\ vm \in {"running", "off"} => vm' \in {"running", "off"},
         apart /\ powerExec.pc = "synced" => pending' = pending
  PROVE  ExecInv'
<1>1. powerExec.row \in DOMAIN powerRows => powerExec.row \in DOMAIN powerRows'
  BY RowTypes DEF Evolves
<1>2. knobs \subseteq knobs'
  BY DEF Evolves
<1> QED
  BY <1>1, <1>2 DEF ExecInv, PcOf

\* A step of one request, whatever it does: the others and the executor go on as they were
LEMMA HandlerFrame ==
  ASSUME PowerInv, NEW r \in Request,
         \/ Power!Active(r)
         \/ apart => \A p \in Request : Power!Active(p) => req[p].op \notin Power!Writers,
         req' \in [Request -> RequestRecord], \A p \in Request : p # r => req'[p] = req[p],
         powerRows' \in Seq(RowRecord), Evolves, UNCHANGED apart,
         PowerSets', Power!EditKept', ExecInv', powerExec' \in ExecRecord,
         RequestInv(r)',
         \A i \in DOMAIN powerRows' : i \notin DOMAIN powerRows => RowInv(i)',
         \/ pending' \subseteq pending
         \/ apart => Alone(r)
  PROVE  PowerInv'
<1>1. PowerShape
  BY DEF PowerInv
<1>2. ASSUME NEW p \in Request, p # r PROVE RequestInv(p)'
  <2>1. RequestInv(p) /\ req'[p] = req[p]
    BY <1>2 DEF PowerInv
  <2>2. apart /\ Power!Active(p) => pending' \subseteq pending
    BY <1>2 DEF Alone
  <2>3. ~(apart /\ Power!Active(p) /\ req[p].op \in Power!Writers)
    <3> SUFFICES ASSUME apart, Power!Active(p), req[p].op \in Power!Writers PROVE FALSE
      OBVIOUS
    <3>1. Alone(p)
      BY <2>1 DEF RequestInv, Knows
    <3> QED
      BY <1>2, <3>1 DEF Alone
  <2> QED
    BY <1>1, <2>1, <2>2, <2>3, RequestKept
<1>3. ASSUME NEW i \in DOMAIN powerRows' PROVE RowInv(i)'
  <2>1. CASE i \in DOMAIN powerRows
    <3>1. RowInv(i)
      BY <2>1 DEF PowerInv
    <3>2. apart /\ powerRows[i].op = "modify" /\ Unended(i) => pending' \subseteq pending
      BY <2>1 DEF Alone
    <3> QED
      BY <1>1, <2>1, <3>1, <3>2, RowsKept
  <2> QED
    BY <2>1
<1>4. PowerShape'
  BY DEF PowerShape
<1> QED
  BY <1>2, <1>3, <1>4 DEF PowerInv

\* A step of the executor: the requests go on as they were
LEMMA ExecFrame ==
  ASSUME PowerInv, powerRows' \in Seq(RowRecord), Evolves, Len(powerRows') = Len(powerRows),
         UNCHANGED <<apart, req>>, PowerSets', Power!EditKept', ExecInv', powerExec' \in ExecRecord,
         apart => pending' \subseteq pending
  PROVE  PowerInv'
<1>1. /\ PowerShape /\ PowerShape' /\ DOMAIN powerRows' = DOMAIN powerRows
      /\ \A i \in DOMAIN powerRows : RowInv(i)
  BY DEF PowerInv, PowerShape
<1>2. ASSUME NEW p \in Request PROVE RequestInv(p)'
  <2>1. RequestInv(p) /\ req'[p] = req[p]
    BY DEF PowerInv
  <2>2. ASSUME apart, Power!Active(p), req[p].op \in Power!Writers PROVE Alone(p)'
    <3>1. Alone(p)
      BY <2>1, <2>2 DEF RequestInv, Knows
    <3> QED
      BY <1>1, <3>1 DEF Alone, Evolves, Power!Active
  <2> QED
    BY <1>1, <2>1, <2>2, RequestKept
<1>3. ASSUME NEW i \in DOMAIN powerRows' PROVE RowInv(i)'
  BY <1>1, RowsKept
<1> QED
  BY <1>1, <1>2, <1>3 DEF PowerInv

----------------------------------------------------------------------------
(* The steps of a request                                                  *)

LEMMA AtFacts ==
  ASSUME PowerInv, NEW r \in Request, NEW s, Power!At(r, s)
  PROVE  /\ PowerShape /\ PowerSets /\ Power!EditKept /\ ExecInv /\ Power!Active(r)
         /\ req[r] \in RequestRecord /\ Len(req[r].left) \in Nat /\ Len(req[r].left) >= 1
         /\ RestOf(req[r].op, req[r].left) /\ Knows(r, req[r])
         /\ Place(req[r].op, Len(req[r].left), s) /\ Calls \subseteq CallNames
         /\ Len(powerRows) \in Nat /\ DOMAIN powerRows = 1 .. Len(powerRows)
         /\ powerExec \in ExecRecord /\ powerRows \in Seq(RowRecord)
<1>1. /\ PowerShape /\ PowerSets /\ Power!EditKept /\ ExecInv /\ RequestInv(r) /\ Power!Active(r)
      /\ Calls \subseteq CallNames
  BY UpkeepAssumption DEF PowerInv, Power!At
<1>2. RestOf(req[r].op, req[r].left) /\ Knows(r, req[r])
  BY <1>1 DEF RequestInv
<1>3. req[r] \in RequestRecord /\ req[r].left \in Seq(StepName) /\ req[r].left # <<>>
  BY <1>1 DEF PowerShape, RequestRecord, Power!Active
<1>4. Place(req[r].op, Len(req[r].left), s)
  BY <1>1, <1>2, Heads
<1> QED
  BY <1>1, <1>2, <1>3, <1>4 DEF PowerShape

LEMMA AloneStill ==
  ASSUME NEW r \in Request, Alone(r), \A p \in Request : p # r => req'[p] = req[p],
         UNCHANGED powerRows
  PROVE  Alone(r)'
BY DEF Alone, Power!Active, Unended

\* A step that changes the request only
LEMMA QuietFrame ==
  ASSUME PowerInv, NEW r \in Request,
         \/ Power!Active(r)
         \/ apart => \A p \in Request : Power!Active(p) => req[p].op \notin Power!Writers,
         req' \in [Request -> RequestRecord], \A p \in Request : p # r => req'[p] = req[p],
         UNCHANGED <<apart, vm, knobs, pending, powerRows, powerExec, acked, dropped, outside>>,
         RequestInv(r)'
  PROVE  PowerInv'
<1>1. PowerShape /\ PowerSets /\ Power!EditKept /\ ExecInv
  BY DEF PowerInv
<1>2. PowerSets' /\ Power!EditKept' /\ powerExec' \in ExecRecord /\ powerRows' \in Seq(RowRecord)
  BY <1>1 DEF PowerSets, Power!EditKept, PowerShape
<1>3. Evolves
  BY <1>1, RowsStill
<1>4. ExecInv'
  BY <1>1, <1>2, <1>3, ExecKept
<1> QED
  BY <1>2, <1>3, <1>4, HandlerFrame

LEMMA Fewer ==
  ASSUME NEW m \in Nat, NEW n, n = m - 1
  PROVE  /\ n <= 4 => m <= 4 \/ m = 5
         /\ n <= 3 => m <= 3 \/ m = 4
         /\ n = 1 => m = 2
OBVIOUS

\* A request that goes on knows what it knew, and what the step it took makes it know
LEMMA StepKnows ==
  ASSUME PowerInv, NEW r \in Request, NEW s, Power!At(r, s), Power!Step(r),
         UNCHANGED <<apart, knobs, pending, powerRows>>,
         ~(req[r].op \in {"start", "restart"} /\ Len(req[r].left) = 2),
         ~(req[r].op = "stop" /\ Len(req[r].left) = 5),
         req[r].op = "stop" /\ Len(req[r].left) = 4 => req[r].hit = {}
  PROVE  /\ RequestInv(r)' /\ req' \in [Request -> RequestRecord]
         /\ \A p \in Request : p # r => req'[p] = req[p]
<1> DEFINE q == req[r]
<1>0. PowerShape /\ Power!Active(r) /\ RestOf(q.op, q.left) /\ q \in RequestRecord
      /\ Knows(r, q) /\ Len(q.left) \in Nat /\ Calls \subseteq CallNames
  BY AtFacts
<1>1. /\ req' \in [Request -> RequestRecord]
      /\ \A p \in Request : p # r => req'[p] = req[p]
      /\ req'[r].op = q.op /\ req'[r].left = Tail(q.left)
      /\ Len(q.left) # 1 => req'[r] = [q EXCEPT !.left = Tail(@)]
      /\ Len(req'[r].left) = Len(q.left) - 1
      /\ Len(q.left) = 1 => req'[r].left = <<>>
      /\ RestOf(req'[r].op, req'[r].left)
  BY <1>0, Stepped
<1>2. CASE Len(q.left) = 1
  BY <1>1, <1>2 DEF RequestInv, Power!Active, RestOf
<1>3. CASE Len(q.left) # 1
  <2>1. /\ req'[r].saw = q.saw /\ req'[r].last = q.last /\ req'[r].hit = q.hit /\ req'[r].mark = q.mark
        /\ req'[r].op = q.op /\ Len(req'[r].left) = Len(q.left) - 1
    BY <1>0, <1>1, <1>3 DEF RequestRecord
  <2>2. apart /\ q.op \in Power!Writers => Alone(r)'
    BY <1>0, <1>1, AloneStill DEF Knows
  <2>4. /\ Len(req'[r].left) <= 4 => Len(q.left) <= 4 \/ Len(q.left) = 5
        /\ Len(req'[r].left) <= 3 => Len(q.left) <= 3 \/ Len(q.left) = 4
        /\ Len(req'[r].left) = 1 => Len(q.left) = 2
    BY <1>0, <2>1, Fewer
  <2>5. Knows(r, req[r])'
    <3>1. req'[r].last <= Len(powerRows') /\ req'[r].mark <= Len(powerRows')
      BY <1>0, <2>1 DEF Knows
    <3>2. \A i \in req'[r].hit : StartAt(i)'
      BY <1>0, <2>1 DEF Knows, StartAt
    <3>3. apart' => pending' \subseteq req'[r].saw
      BY <1>0, <1>3, <2>1 DEF Knows, Earlier
    <3>4. ~(req'[r].op \in {"start", "restart"} /\ Len(req'[r].left) = 1)
      BY <2>1, <2>4
    <3>5. req'[r].op = "stop" /\ Len(req'[r].left) <= 4
            => \A i \in 1 .. req'[r].mark : StartAt(i)' /\ Waiting(i)' => i \in req'[r].hit
      BY <1>0, <2>1, <2>4 DEF Knows, StartAt, Waiting
    <3>6. req'[r].op = "stop" /\ Len(req'[r].left) <= 3 => req'[r].hit = {}
      BY <1>0, <2>1, <2>4 DEF Knows
    <3>7. apart' /\ req'[r].op \in Power!Writers => Alone(r)'
      BY <2>1, <2>2
    <3> QED
      BY <3>1, <3>2, <3>3, <3>4, <3>5, <3>6, <3>7 DEF Knows
  <2> QED
    BY <1>1, <2>5 DEF RequestInv, RestOf
<1> QED
  BY <1>1, <1>2, <1>3
\* What a request has to know when a step leaves it with q
LEMMA Remembers ==
  ASSUME NEW r \in Request, NEW q, req'[r] = q, RestOf(q.op, q.left),
         q.last <= Len(powerRows') /\ q.mark <= Len(powerRows'),
         \A i \in q.hit : StartAt(i)',
         apart' /\ Earlier(q) => pending' \subseteq q.saw,
         apart' /\ q.op \in Power!Writers => Alone(r)',
         q.op \in {"start", "restart"} /\ Len(q.left) = 1 => Covered(q.saw, q.last)',
         q.op = "stop" /\ Len(q.left) <= 4
           => \A i \in 1..q.mark : StartAt(i)' /\ Waiting(i)' => i \in q.hit,
         q.op = "stop" /\ Len(q.left) <= 3 => q.hit = {}
  PROVE  RequestInv(r)'
<1>1. Knows(r, q)'
  BY DEF Knows
<1>2. Knows(r, req[r])'
  BY <1>1 DEF Knows, Earlier, Covered, Unended, StartAt, Waiting
<1> QED
  BY <1>2 DEF RequestInv, RestOf

\* Probe, Dedup, MergeRead, List
LEMMA QuietSteps ==
  ASSUME PowerInv, NEW r \in Request,
         Power!Probe(r) \/ Power!Dedup(r) \/ Power!List(r) \/ Power!MergeRead(r)
  PROVE  PowerInv'
<1>1. /\ UNCHANGED <<apart, vm, knobs, pending, powerRows, powerExec, acked, dropped, outside>>
      /\ Power!Active(r)
  BY DEF Power!Probe, Power!Dedup, Power!List, Power!MergeRead, Power!At
<1>2. ASSUME Power!Answer(r) PROVE PowerInv'
  <2>1. PowerShape
    BY DEF PowerInv
  <2>2. /\ req' \in [Request -> RequestRecord] /\ \A p \in Request : p # r => req'[p] = req[p]
        /\ RequestInv(r)'
    BY <1>2, <2>1, Answered DEF RequestInv, Power!Active, RestOf
  <2> QED
    BY <1>1, <2>2, QuietFrame
<1>3. ASSUME NEW s, Power!At(r, s), s \in {"probe", "dedup"}, Power!Step(r) PROVE PowerInv'
  <2>1. Place(req[r].op, Len(req[r].left), s)
    BY <1>3, AtFacts
  <2>2. /\ ~(req[r].op \in {"start", "restart"} /\ Len(req[r].left) = 2)
        /\ ~(req[r].op = "stop" /\ Len(req[r].left) \in {4, 5})
    <3>1. PICK op, n : op = req[r].op /\ n = Len(req[r].left)
      OBVIOUS
    <3>2. Place(op, n, s) /\ s \in {"probe", "dedup"}
      BY <1>3, <2>1, <3>1
    <3>3. /\ ~(op \in {"start", "restart"} /\ n = 2) /\ ~(op = "stop" /\ n \in {4, 5})
      BY <3>2 DEF Place, Power!Verbs
    <3> QED
      BY <3>1, <3>3
  <2>3. /\ RequestInv(r)' /\ req' \in [Request -> RequestRecord]
        /\ \A p \in Request : p # r => req'[p] = req[p]
    BY <1>1, <1>3, <2>2, StepKnows
  <2> QED
    BY <1>1, <2>3, QuietFrame
<1>4. CASE Power!Probe(r) /\ req' = [req EXCEPT ![r].left = <<"direct">>] /\ req[r].op = "put"
  <2>1. /\ req[r] \in RequestRecord /\ Knows(r, req[r]) /\ PowerShape /\ "put" \in Calls
    BY <1>4, AtFacts DEF Power!Probe, Place
  <2>2. <<"direct">> \in Seq(StepName) /\ Len(<<"direct">>) = 1 /\ <<"direct">>[1] = "direct"
    BY DEF StepName
  <2>3. PICK left : left = <<"direct">>
    OBVIOUS
  <2>4. PICK q : q = [req[r] EXCEPT !.left = left]
    OBVIOUS
  <2>5. /\ q \in RequestRecord /\ q.op = "put" /\ q.left = left /\ q.saw = req[r].saw
        /\ q.last = req[r].last /\ q.hit = req[r].hit /\ q.mark = req[r].mark
    BY <1>4, <2>1, <2>2, <2>3, <2>4 DEF RequestRecord
  <2>6. req' = [req EXCEPT ![r] = q]
    BY <1>4, <2>3, <2>4
  <2>7. /\ req' \in [Request -> RequestRecord] /\ req'[r] = q
        /\ \A p \in Request : p # r => req'[p] = req[p]
    BY <2>1, <2>5, <2>6 DEF PowerShape
  <2>8. RestOf(q.op, q.left)
    BY <2>1, <2>2, <2>3, <2>5 DEF RestOf
  <2>9. apart /\ req[r].op \in Power!Writers => Alone(r)'
    BY <1>1, <2>1, <2>7, AloneStill DEF Knows
  <2>10. Len(q.left) = 1 /\ q.op \notin {"start", "restart", "stop"}
    BY <2>2, <2>3, <2>5
  <2>11. q.last <= Len(powerRows') /\ q.mark <= Len(powerRows') /\ \A i \in q.hit : StartAt(i)'
    BY <1>1, <2>1, <2>5 DEF Knows, StartAt
  <2>12. apart' => pending' \subseteq q.saw
    BY <1>1, <1>4, <2>1, <2>5 DEF Knows, Earlier
  <2>13. RequestInv(r)'
    BY <1>1, <1>4, <2>5, <2>7, <2>8, <2>9, <2>10, <2>11, <2>12, Remembers
  <2> QED
    BY <1>1, <2>7, <2>13, QuietFrame
<1>5. CASE Power!List(r) \/ Power!MergeRead(r)
  <2>1. PICK s : s \in {"list", "read"} /\ Power!At(r, s)
    BY <1>5 DEF Power!List, Power!MergeRead
  <2>2. /\ PowerShape /\ req[r] \in RequestRecord /\ Knows(r, req[r]) /\ PowerSets
        /\ RestOf(req[r].op, req[r].left) /\ Calls \subseteq CallNames
        /\ Place(req[r].op, Len(req[r].left), s)
        /\ Len(powerRows) \in Nat /\ DOMAIN powerRows = 1 .. Len(powerRows)
    BY <2>1, AtFacts
  <2>3. PICK left : left = Tail(req[r].left)
    OBVIOUS
  <2>4. /\ left \in Seq(StepName) /\ Len(left) = Len(req[r].left) - 1
        /\ left = <<>> <=> Len(req[r].left) = 1
        /\ RestOf(req[r].op, left)
    BY <2>2, <2>3, <1>1, TailRest DEF RequestRecord, Power!Active
  <2>5. CASE Power!List(r)
    <3>1. req[r].op = "stop" /\ Len(left) = 4
      BY <2>1, <2>2, <2>4, <2>5 DEF Place, Power!List, Power!At
    <3>2. PICK hit : hit = {i \in Power!Unfinished("start") : powerRows[i].status = "pending"}
      OBVIOUS
    <3>3. hit = {i \in DOMAIN powerRows : StartAt(i) /\ Waiting(i)}
      BY <3>2 DEF Power!Unfinished, StartAt, Waiting
    <3>4. PICK q : q = [req[r] EXCEPT !.left = left, !.hit = hit]
      OBVIOUS
    <3>5. /\ q \in RequestRecord /\ q.op = "stop" /\ q.left = left /\ q.saw = req[r].saw
          /\ q.last = req[r].last /\ q.hit = hit /\ q.mark = req[r].mark
      <4>1. hit \in SUBSET Nat
        BY <2>2, <3>3
      <4> QED
        BY <2>2, <2>4, <3>1, <3>4, <4>1 DEF RequestRecord
    <3>6. req' = [req EXCEPT ![r] = q]
      BY <2>2, <2>3, <2>5, <3>2, <3>4 DEF Power!List, PowerShape
    <3>7. /\ req' \in [Request -> RequestRecord] /\ req'[r] = q
          /\ \A p \in Request : p # r => req'[p] = req[p]
      BY <2>2, <3>5, <3>6 DEF PowerShape
    <3>8. \A i \in 1 .. q.mark : StartAt(i) /\ Waiting(i) => i \in hit
      BY <3>3 DEF StartAt
    <3>9. q.op \notin Power!Writers /\ q.op \notin {"start", "restart"} /\ ~(Len(q.left) <= 3)
      <4>1. Len(q.left) = 4 /\ q.op = "stop"
        BY <3>1, <3>5
      <4>2. ~(Len(q.left) <= 3)
        BY <4>1
      <4>3. q.op \notin Power!Writers /\ q.op \notin {"start", "restart"}
        BY <4>1 DEF Power!Writers
      <4> QED
        BY <4>2, <4>3
    <3>10. q.last <= Len(powerRows') /\ q.mark <= Len(powerRows') /\ \A i \in q.hit : StartAt(i)'
      BY <1>1, <2>2, <3>3, <3>5 DEF Knows, StartAt
    <3>11. apart' => pending' \subseteq q.saw
      BY <1>1, <2>2, <3>1, <3>5 DEF Knows, Earlier
    <3>12. \A i \in 1 .. q.mark : StartAt(i)' /\ Waiting(i)' => i \in q.hit
      BY <1>1, <3>5, <3>8 DEF StartAt, Waiting
    <3>13. RestOf(q.op, q.left)
      BY <2>4, <3>1, <3>5
    <3>14. RequestInv(r)'
      BY <3>7, <3>9, <3>10, <3>11, <3>12, <3>13, Remembers
    <3> QED
      BY <1>1, <3>7, <3>14, QuietFrame
  <2>6. CASE Power!MergeRead(r)
    <3>1. req[r].op = "put" /\ Len(left) = 1
      BY <2>1, <2>2, <2>4, <2>6 DEF Place, Power!MergeRead, Power!At
    <3>2. PICK q : q = [req[r] EXCEPT !.left = left, !.saw = pending]
      OBVIOUS
    <3>3. /\ q \in RequestRecord /\ q.op = "put" /\ q.left = left /\ q.saw = pending
          /\ q.last = req[r].last /\ q.hit = req[r].hit /\ q.mark = req[r].mark
      BY <2>2, <2>4, <3>1, <3>2 DEF RequestRecord, PowerSets
    <3>4. req' = [req EXCEPT ![r] = q]
      BY <2>2, <2>3, <2>6, <3>2 DEF Power!MergeRead, PowerShape
    <3>5. /\ req' \in [Request -> RequestRecord] /\ req'[r] = q
          /\ \A p \in Request : p # r => req'[p] = req[p]
      BY <2>2, <3>3, <3>4 DEF PowerShape
    <3>6. apart /\ req[r].op \in Power!Writers => Alone(r)'
      BY <1>1, <2>2, <3>5, AloneStill DEF Knows
    <3>7. Len(q.left) = 1 /\ q.op \notin {"start", "restart", "stop"}
      BY <3>1, <3>3
    <3>8. q.last <= Len(powerRows') /\ q.mark <= Len(powerRows') /\ \A i \in q.hit : StartAt(i)'
      BY <1>1, <2>2, <3>3 DEF Knows, StartAt
    <3>9. apart' => pending' \subseteq q.saw
      BY <1>1, <3>3
    <3>10. RestOf(q.op, q.left) /\ req[r].op = q.op
      BY <2>4, <3>1, <3>3
    <3>11. RequestInv(r)'
      BY <1>1, <3>5, <3>6, <3>7, <3>8, <3>9, <3>10, Remembers
    <3> QED
      BY <1>1, <3>5, <3>11, QuietFrame
  <2> QED
    BY <1>5, <2>5, <2>6
<1>6. CASE Power!Probe(r)
  BY <1>2, <1>3, <1>4, <1>6 DEF Power!Probe
<1>7. CASE Power!Dedup(r)
  BY <1>2, <1>3, <1>7 DEF Power!Dedup
<1> QED
  BY <1>5, <1>6, <1>7

\* A request that has queued a task: the task is sound, and the request goes on with its place
LEMMA Created ==
  ASSUME PowerInv, NEW r \in Request, NEW s, Power!At(r, s),
         NEW task \in RowRecord, Power!Create(r, task),
         UNCHANGED <<apart, vm, knobs, pending, powerExec, acked, dropped, outside>>,
         task.dep <= Len(powerRows), task.status = "pending",
         apart /\ task.op = "modify" /\ task.marker => pending \subseteq task.edits,
         task.op = "start" => Covered(task.saw, task.dep),
         req[r].op \in {"start", "restart"} /\ Len(req[r].left) = 2
           => task.op = "modify" /\ req[r].saw \subseteq task.edits,
         req[r].op \in Power!Writers => Len(req[r].left) = 1,
         req[r].op = "stop" => Len(req[r].left) <= 3
  PROVE  PowerInv'
<1>1. /\ PowerShape /\ PowerSets /\ Power!EditKept /\ ExecInv /\ Power!Active(r)
      /\ req[r] \in RequestRecord /\ req[r].left \in Seq(StepName) /\ req[r].left # <<>>
      /\ Len(req[r].left) \in Nat /\ Len(req[r].left) >= 1
      /\ RestOf(req[r].op, req[r].left) /\ Knows(r, req[r]) /\ Calls \subseteq CallNames
      /\ Len(powerRows) \in Nat /\ DOMAIN powerRows = 1 .. Len(powerRows)
      /\ powerExec \in ExecRecord
  BY AtFacts DEF RequestRecord, Power!Active
<1>2. PICK left, n, m : left = Tail(req[r].left) /\ n = Len(powerRows) + 1 /\ m = Len(req[r].left)
  OBVIOUS
<1>3. /\ left \in Seq(StepName) /\ Len(left) = m - 1 /\ RestOf(req[r].op, left) /\ n \in Nat
      /\ left = <<>> <=> m = 1
  <2>1. /\ Tail(req[r].left) \in Seq(StepName) /\ Len(Tail(req[r].left)) = Len(req[r].left) - 1
        /\ Tail(req[r].left) = <<>> <=> Len(req[r].left) = 1
        /\ RestOf(req[r].op, Tail(req[r].left))
    BY <1>1, TailRest
  <2>2. n \in Nat
    BY <1>1, <1>2
  <2> QED
    BY <1>2, <2>1, <2>2
<1>4. PICK q : q = [req[r] EXCEPT !.left = left, !.last = n]
  OBVIOUS
<1>5. /\ q \in RequestRecord /\ q.op = req[r].op /\ q.left = left /\ q.saw = req[r].saw
      /\ q.last = n /\ q.hit = req[r].hit /\ q.mark = req[r].mark
  BY <1>1, <1>3, <1>4 DEF RequestRecord
<1>6. Power!Become(r, q)
  BY <1>2, <1>4 DEF Power!Create
<1>7. /\ req' \in [Request -> RequestRecord] /\ \A p \in Request : p # r => req'[p] = req[p]
      /\ req'[r].op = q.op /\ req'[r].left = left /\ (left # <<>> => req'[r] = q)
      /\ RestOf(req'[r].op, req'[r].left)
  BY <1>1, <1>3, <1>5, <1>6, Becomes
<1>8. powerRows' = Append(powerRows, task)
  BY DEF Power!Create
<1>9. /\ Evolves /\ powerRows' \in Seq(RowRecord) /\ Len(powerRows') = n /\ powerRows'[n] = task
      /\ \A i \in DOMAIN powerRows : powerRows'[i] = powerRows[i]
      /\ DOMAIN powerRows' = 1 .. n
  BY <1>1, <1>2, <1>8, RowsAdded
<1>10. PowerSets' /\ Power!EditKept'
  BY <1>1 DEF PowerSets, Power!EditKept
<1>11. ExecInv'
  <2>1. powerExec.pc # "idle" => powerExec.row \in DOMAIN powerRows
    BY <1>1 DEF ExecInv
  <2> QED
    BY <1>1, <1>9, <2>1, ExecKept
<1>12. RequestInv(r)'
  <2>1. CASE left = <<>>
    BY <1>7, <2>1 DEF RequestInv, Power!Active, RestOf
  <2>2. CASE left # <<>>
    <3>0. m \in Nat /\ m # 1 /\ Knows(r, req[r]) /\ m = Len(req[r].left)
      BY <1>1, <1>2, <1>3, <2>2
    <3>1. RestOf(q.op, q.left) /\ req'[r] = q
      BY <1>3, <1>5, <1>7, <2>2
    <3>2. q.last <= Len(powerRows') /\ q.mark <= Len(powerRows')
      BY <1>1, <1>2, <1>5, <1>9 DEF Knows, RequestRecord
    <3>3. \A i \in q.hit : StartAt(i)'
      BY <1>1, <1>2, <1>5, <1>9 DEF Knows, StartAt
    <3>4. apart' => pending' \subseteq q.saw
      BY <1>1, <1>2, <1>5, <3>0 DEF Knows, Earlier
    <3>5. q.op \notin Power!Writers
      BY <1>5, <3>0
    <3>6. q.op \in {"start", "restart"} /\ Len(q.left) = 1 => Covered(q.saw, q.last)'
      <4> SUFFICES ASSUME q.op \in {"start", "restart"}, Len(q.left) = 1 PROVE Covered(q.saw, q.last)'
        OBVIOUS
      <4>1. m = 2
        BY <1>3, <1>5, <3>0, Fewer
      <4>2. task.op = "modify" /\ q.saw \subseteq task.edits
        BY <1>5, <3>0, <4>1
      <4>3. n \in DOMAIN powerRows' /\ powerRows'[q.last] = task
        BY <1>3, <1>5, <1>9, <1>1, <1>2
      <4> QED
        BY <1>5, <4>2, <4>3 DEF Covered, Unended
    <3>7. q.op = "stop" => Len(req[r].left) <= 3 /\ Len(req[r].left) <= 4
      BY <1>1, <1>5
    <3>8. q.op = "stop" => q.hit = {}
      BY <1>5, <3>0, <3>7 DEF Knows
    <3>9. q.op = "stop" => \A i \in 1 .. q.mark : StartAt(i)' /\ Waiting(i)' => i \in q.hit
      <4> SUFFICES ASSUME q.op = "stop", NEW i \in 1 .. q.mark, StartAt(i)', Waiting(i)'
                   PROVE  i \in q.hit
        OBVIOUS
      <4>1. i \in DOMAIN powerRows
        BY <1>1, <1>5 DEF Knows, RequestRecord
      <4>2. StartAt(i) /\ Waiting(i)
        BY <1>9, <4>1 DEF StartAt, Waiting
      <4> QED
        BY <1>5, <3>0, <3>7, <4>2 DEF Knows
    <3> QED
      BY <3>1, <3>2, <3>3, <3>4, <3>5, <3>6, <3>8, <3>9, Remembers
  <2> QED
    BY <2>1, <2>2
<1>13. ASSUME NEW i \in DOMAIN powerRows', i \notin DOMAIN powerRows PROVE RowInv(i)'
  <2>1. i = n /\ powerRows'[i] = task
    BY <1>1, <1>2, <1>9, <1>13
  <2>2. powerRows'[i].dep < i
    BY <1>1, <1>2, <2>1 DEF RowRecord
  <2>3. task.op = "start" => Covered(task.saw, task.dep)'
    <3>1. PICK edits, d : edits = task.saw /\ d = task.dep
      OBVIOUS
    <3> QED
      BY <1>1, <1>9, <3>1, CoveredKept
  <2>4. powerRows'[i].op = "start" => Covered(powerRows[i].saw, powerRows[i].dep)'
    BY <2>1, <2>3 DEF Covered, Unended
  <2> QED
    BY <2>1, <2>2, <2>4 DEF RowInv, Waiting
<1> QED
  BY <1>1, <1>7, <1>9, <1>10, <1>11, <1>12, <1>13, HandlerFrame

LEMMA QueueSteps ==
  ASSUME PowerInv, NEW r \in Request,
         Power!QueueTask(r) \/ Power!QueueApply(r) \/ Power!QueueDirect(r)
  PROVE  PowerInv'
<1>1. CASE Power!QueueTask(r)
  <2>1. PICK op \in Power!Verbs \cup {"start", "stop"} :
          /\ Power!At(r, op)
          /\ Power!Create(r, Power!Row(op, Power!Predecessor(r), {}, FALSE, req[r].saw))
    BY <1>1 DEF Power!QueueTask
  <2>2. /\ req[r] \in RequestRecord /\ Knows(r, req[r]) /\ Place(req[r].op, Len(req[r].left), op)
        /\ Len(powerRows) \in Nat
    BY <2>1, AtFacts
  <2>3. PICK task : task = Power!Row(op, Power!Predecessor(r), {}, FALSE, req[r].saw)
    OBVIOUS
  <2>4. /\ task \in RowRecord /\ task.op = op /\ task.dep = req[r].last /\ task.marker = FALSE
        /\ task.saw = req[r].saw /\ task.status = "pending"
    BY <2>2, <2>3 DEF Power!Row, Power!Predecessor, RowRecord, RowOp, RowStatus, RequestRecord
  <2>5. PICK call, n : call = req[r].op /\ n = Len(req[r].left)
    OBVIOUS
  <2>6. Place(call, n, op)
    BY <2>2, <2>5
  <2>7. /\ op = "start" => call \in {"start", "restart"} /\ n = 1
        /\ ~(call \in {"start", "restart"} /\ n = 2)
        /\ call \notin Power!Writers
        /\ call = "stop" => n = 2
        /\ op # "modify"
    BY <2>6 DEF Place, Power!Verbs, Power!Writers
  <2>8. op = "start" => Covered(task.saw, task.dep)
    BY <2>2, <2>4, <2>5, <2>7 DEF Knows
  <2>9. task.dep <= Len(powerRows)
    BY <2>2, <2>4 DEF Knows
  <2>10. req[r].op = "stop" => Len(req[r].left) <= 3
    <3>1. call = "stop" => n = 2
      BY <2>7
    <3>2. n = 2 => n <= 3
      OBVIOUS
    <3> QED
      BY <2>5, <3>1, <3>2
  <2>11. Power!Create(r, task)
    BY <2>1, <2>3
  <2>12. UNCHANGED <<apart, vm, knobs, pending, powerExec, acked, dropped, outside>>
    BY <1>1 DEF Power!QueueTask
  <2> QED
    BY <2>1, <2>4, <2>5, <2>7, <2>8, <2>9, <2>10, <2>11, <2>12, Created
<1>2. CASE Power!QueueApply(r)
  <2>1. /\ Power!At(r, "apply")
        /\ UNCHANGED <<apart, vm, knobs, pending, powerExec, acked, dropped, outside>>
    BY <1>2 DEF Power!QueueApply
  <2>2. /\ req[r] \in RequestRecord /\ Knows(r, req[r]) /\ Power!Active(r)
        /\ Place(req[r].op, Len(req[r].left), "apply") /\ Len(powerRows) \in Nat
    BY <2>1, AtFacts
  <2>3. PICK call, n : call = req[r].op /\ n = Len(req[r].left)
    OBVIOUS
  <2>4. (call \in {"start", "restart"} /\ n = 2) \/ (call \in {"stop", "apply"} /\ n = 1)
    BY <2>2, <2>3 DEF Place
  <2>5. CASE Power!Become(r, [req[r] EXCEPT !.left = Tail(@), !.saw = {}]) /\ UNCHANGED powerRows
    <3>1. PICK left : left = Tail(req[r].left)
      OBVIOUS
    <3>2. /\ left \in Seq(StepName) /\ Len(left) = n - 1 /\ RestOf(call, left)
          /\ left = <<>> <=> n = 1
      BY <2>1, <2>2, <2>3, <3>1, AtFacts, TailRest DEF RequestRecord, Power!Active
    <3>3. PICK q : q = [req[r] EXCEPT !.left = left, !.saw = {}]
      OBVIOUS
    <3>4. /\ q \in RequestRecord /\ q.op = call /\ q.left = left /\ q.saw = {}
          /\ q.last = req[r].last /\ q.hit = req[r].hit /\ q.mark = req[r].mark
      BY <2>2, <2>3, <3>2, <3>3 DEF RequestRecord
    <3>5. Power!Become(r, q)
      BY <2>5, <3>1, <3>3
    <3>6. /\ req' \in [Request -> RequestRecord] /\ \A p \in Request : p # r => req'[p] = req[p]
          /\ req'[r].left = left /\ (left # <<>> => req'[r] = q)
          /\ RestOf(req'[r].op, req'[r].left)
      BY <2>1, <3>2, <3>4, <3>5, AtFacts, Becomes
    <3>7. CASE left = <<>>
      <4>1. RequestInv(r)'
        BY <3>6, <3>7 DEF RequestInv, Power!Active, RestOf
      <4> QED
        BY <2>1, <2>2, <2>5, <3>6, <4>1, QuietFrame
    <3>8. CASE left # <<>>
      <4>1. /\ call \in {"start", "restart"} /\ Len(left) = 1 /\ req'[r] = q
            /\ call \notin Power!Writers /\ call # "stop"
        BY <2>4, <3>2, <3>6, <3>8 DEF Power!Writers
      <4>2. q.last <= Len(powerRows') /\ q.mark <= Len(powerRows') /\ \A i \in q.hit : StartAt(i)'
        BY <2>2, <2>5, <3>4 DEF Knows, StartAt
      <4>3. Covered(q.saw, q.last)'
        BY <3>4 DEF Covered
      <4>4. ~Earlier(q)
        BY <3>4, <4>1 DEF Earlier
      <4>5. RestOf(q.op, q.left)
        BY <3>2, <3>4
      <4>6. q.op \notin Power!Writers /\ q.op # "stop"
        BY <3>4, <4>1
      <4>7. RequestInv(r)'
        BY <4>1, <4>2, <4>3, <4>4, <4>5, <4>6, Remembers
      <4> QED
        BY <2>1, <2>2, <2>5, <3>6, <4>7, QuietFrame
    <3> QED
      BY <3>7, <3>8
  <2>6. CASE Power!Create(r, Power!Row("modify", req[r].last, req[r].saw, TRUE, {}))
    <3>1. PICK task : task = Power!Row("modify", req[r].last, req[r].saw, TRUE, {})
      OBVIOUS
    <3>2. /\ task \in RowRecord /\ task.op = "modify" /\ task.dep = req[r].last
          /\ task.edits = req[r].saw /\ task.status = "pending"
      BY <2>2, <3>1 DEF Power!Row, RowRecord, RowOp, RowStatus, RequestRecord
    <3>3. Power!Create(r, task)
      BY <2>6, <3>1
    <3>4. apart => pending \subseteq task.edits
      <4>1. Earlier(req[r])
        BY <2>3, <2>4 DEF Earlier
      <4> QED
        BY <2>2, <3>2, <4>1 DEF Knows
    <3>5. task.dep <= Len(powerRows)
      BY <2>2, <3>2 DEF Knows
    <3>6. call \notin Power!Writers /\ (call = "stop" => n = 1)
      BY <2>4 DEF Power!Writers
    <3>7. req[r].op = "stop" => Len(req[r].left) <= 3
      <4>1. n = 1 => n <= 3
        OBVIOUS
      <4> QED
        BY <2>3, <3>6, <4>1
    <3> QED
      BY <2>1, <2>3, <3>2, <3>3, <3>4, <3>5, <3>6, <3>7, Created
  <2> QED
    BY <1>2, <2>5, <2>6 DEF Power!QueueApply
<1>3. CASE Power!QueueDirect(r)
  <2>1. PICK task : task = Power!Row("modify", 0, {r}, FALSE, {})
    OBVIOUS
  <2>2. /\ Power!At(r, "direct") /\ Power!Create(r, task)
        /\ UNCHANGED <<apart, vm, knobs, pending, powerExec, acked, dropped, outside>>
    BY <1>3, <2>1 DEF Power!QueueDirect
  <2>3. Place(req[r].op, Len(req[r].left), "direct") /\ Len(powerRows) \in Nat
    BY <2>2, AtFacts
  <2>4. req[r].op = "put" /\ Len(req[r].left) = 1
    BY <2>3 DEF Place
  <2>5. /\ task \in RowRecord /\ task.op = "modify" /\ task.dep = 0
        /\ task.marker = FALSE /\ task.status = "pending"
    BY <2>1 DEF Power!Row, RowRecord, RowOp, RowStatus
  <2>6. task.dep <= Len(powerRows)
    BY <2>3, <2>5
  <2>7. req[r].op \notin {"start", "restart", "stop"}
    BY <2>4
  <2> QED
    BY <2>2, <2>4, <2>5, <2>6, <2>7, Created
<1> QED
  BY <1>1, <1>2, <1>3

\* One cancelled start of a stop: it ends, and the executor is free if it ran it
LEMMA CancelSteps ==
  ASSUME PowerInv, NEW r \in Request, Power!Cancel(r)
  PROVE  PowerInv'
<1>1. /\ Power!At(r, "cancel")
      /\ UNCHANGED <<apart, knobs, pending, acked, dropped, outside>>
  BY DEF Power!Cancel
<1>2. /\ PowerShape /\ PowerSets /\ Power!EditKept /\ ExecInv /\ Power!Active(r)
      /\ req[r] \in RequestRecord /\ RestOf(req[r].op, req[r].left) /\ Knows(r, req[r])
      /\ Len(powerRows) \in Nat /\ DOMAIN powerRows = 1 .. Len(powerRows)
      /\ powerExec \in ExecRecord /\ powerRows \in Seq(RowRecord)
      /\ Place(req[r].op, Len(req[r].left), "cancel")
  BY <1>1, AtFacts
<1>3. req[r].op = "stop" /\ Len(req[r].left) = 4
  BY <1>2 DEF Place
<1>4. CASE req[r].hit = {}
  <2>1. Power!Step(r) /\ UNCHANGED <<vm, powerRows, powerExec>>
    BY <1>4 DEF Power!Cancel
  <2>2. /\ RequestInv(r)' /\ req' \in [Request -> RequestRecord]
        /\ \A p \in Request : p # r => req'[p] = req[p]
    BY <1>1, <1>3, <1>4, <2>1, StepKnows
  <2> QED
    BY <1>1, <1>2, <2>1, <2>2, QuietFrame
<1>5. CASE req[r].hit # {}
  <2>1. PICK i \in req[r].hit :
          /\ req' = [req EXCEPT ![r].hit = @ \ {i}]
          /\ powerRows' = IF i \in Power!Unfinished("start") THEN Power!Finished(i, "failed")
                          ELSE powerRows
          /\ IF Power!Killed(i)
             THEN powerExec' = Power!Idle /\ vm' = (IF vm \in {"running", "paused"} THEN "off" ELSE vm)
             ELSE UNCHANGED <<powerExec, vm>>
    BY <1>5 DEF Power!Cancel
  <2>2. StartAt(i)
    BY <1>2, <2>1 DEF Knows
  <2>3. /\ Evolves /\ powerRows' \in Seq(RowRecord) /\ Len(powerRows') = Len(powerRows)
        /\ ~Waiting(i)'
        /\ \A j \in DOMAIN powerRows : j # i => powerRows'[j] = powerRows[j]
    <3>1. i \in DOMAIN powerRows /\ powerRows[i].op = "start"
      BY <2>2 DEF StartAt
    <3>2. CASE Unended(i)
      <4>1. powerRows' = Power!Finished(i, "failed")
        BY <2>1, <3>1, <3>2 DEF Unended, Power!Unfinished
      <4>2. powerRows'[i].status = "failed" /\ Evolves /\ powerRows' \in Seq(RowRecord)
            /\ Len(powerRows') = Len(powerRows)
            /\ \A j \in DOMAIN powerRows : j # i => powerRows'[j] = powerRows[j]
        BY <1>1, <1>2, <3>1, <3>2, <4>1, RowEnds
      <4> QED
        BY <4>2 DEF Waiting
    <3>3. CASE ~Unended(i)
      <4>1. powerRows' = powerRows
        BY <2>1, <3>1, <3>3 DEF Unended, Power!Unfinished
      <4>2. Evolves
        BY <1>1, <1>2, <4>1, RowsStill
      <4> QED
        BY <1>2, <3>3, <4>1, <4>2 DEF Waiting, Unended
    <3> QED
      BY <3>2, <3>3
  <2>4. PICK q : q = [req[r] EXCEPT !.hit = @ \ {i}]
    OBVIOUS
  <2>5. /\ q \in RequestRecord /\ q.op = "stop" /\ q.left = req[r].left /\ q.saw = req[r].saw
        /\ q.last = req[r].last /\ q.hit = req[r].hit \ {i} /\ q.mark = req[r].mark
    BY <1>2, <1>3, <2>4 DEF RequestRecord
  <2>6. req' = [req EXCEPT ![r] = q]
    BY <1>2, <2>1, <2>4 DEF PowerShape
  <2>7. /\ req' \in [Request -> RequestRecord] /\ req'[r] = q
        /\ \A p \in Request : p # r => req'[p] = req[p]
    BY <1>2, <2>5, <2>6 DEF PowerShape
  <2>8. RequestInv(r)'
    <3>1. RestOf(q.op, q.left)
      BY <1>2, <1>3, <2>5
    <3>2. q.last <= Len(powerRows') /\ q.mark <= Len(powerRows')
      BY <1>2, <2>3, <2>5 DEF Knows
    <3>3. \A j \in DOMAIN powerRows : (StartAt(j)' <=> StartAt(j)) /\ (Waiting(j)' => Waiting(j))
      <4>1. DOMAIN powerRows' = DOMAIN powerRows
        BY <1>2, <2>3
      <4>2. \A j \in DOMAIN powerRows : j # i => powerRows'[j] = powerRows[j]
        BY <2>3
      <4>3. \A j \in DOMAIN powerRows : powerRows'[j].op = powerRows[j].op
        BY <2>3 DEF Evolves
      <4> QED
        BY <2>3, <4>1, <4>2, <4>3 DEF StartAt, Waiting
    <3>4. \A j \in q.hit : StartAt(j)'
      <4>1. \A j \in q.hit : StartAt(j)
        BY <1>2, <2>5 DEF Knows
      <4> QED
        BY <3>3, <4>1 DEF StartAt
    <3>5. apart' => pending' \subseteq q.saw
      <4>1. Earlier(req[r])
        BY <2>5, <1>3 DEF Earlier
      <4> QED
        BY <1>1, <1>2, <2>5, <4>1 DEF Knows
    <3>6. q.op \notin Power!Writers /\ q.op \notin {"start", "restart"}
      BY <2>5 DEF Power!Writers
    <3>7. \A j \in 1 .. q.mark : StartAt(j)' /\ Waiting(j)' => j \in q.hit
      <4> SUFFICES ASSUME NEW j \in 1 .. q.mark, StartAt(j)', Waiting(j)' PROVE j \in q.hit
        OBVIOUS
      <4>1. j \in DOMAIN powerRows
        BY <1>2, <2>5 DEF Knows, RequestRecord
      <4>2. StartAt(j) /\ Waiting(j)
        BY <3>3, <4>1
      <4>3. Len(req[r].left) <= 4
        BY <1>3
      <4>4. j \in req[r].hit
        BY <1>2, <1>3, <2>5, <4>2, <4>3 DEF Knows
      <4>5. j # i
        BY <2>3
      <4> QED
        BY <2>5, <4>4, <4>5
    <3>8. ~(Len(q.left) <= 3)
      <4>1. Len(q.left) = 4
        BY <1>3, <2>5
      <4> QED
        BY <4>1
    <3> QED
      BY <2>7, <3>1, <3>2, <3>4, <3>5, <3>6, <3>7, <3>8, Remembers
  <2>9. PowerSets' /\ Power!EditKept'
    BY <1>1, <1>2, <2>1 DEF PowerSets, Power!EditKept
  <2>10. ExecInv' /\ powerExec' \in ExecRecord
    <3>1. CASE Power!Killed(i)
      BY <2>1, <3>1 DEF ExecInv, Power!Idle, ExecRecord
    <3>2. CASE ~Power!Killed(i)
      <4>1. UNCHANGED <<powerExec, vm>> /\ powerExec.row # i
        BY <2>1, <3>2 DEF Power!Killed
      <4>2. powerExec.pc # "idle" => powerExec.row \in DOMAIN powerRows
        BY <1>2 DEF ExecInv
      <4> QED
        BY <1>1, <1>2, <2>3, <4>1, <4>2, ExecKept
    <3> QED
      BY <3>1, <3>2
  <2>11. \A j \in DOMAIN powerRows' : j \in DOMAIN powerRows
    BY <1>2, <2>3
  <2> QED
    BY <1>1, <1>2, <2>3, <2>7, <2>8, <2>9, <2>10, <2>11, HandlerFrame
<1> QED
  BY <1>4, <1>5

\* The writers of edits: with apart, nobody else uses what they change
LEMMA WriteSteps ==
  ASSUME PowerInv, NEW r \in Request, Power!MergeWrite(r) \/ Power!ClearEdits(r)
  PROVE  PowerInv'
<1>1. PICK s \in {"write", "clear"} : Power!At(r, s)
  BY DEF Power!MergeWrite, Power!ClearEdits
<1>2. /\ UNCHANGED <<apart, vm, knobs, powerRows, powerExec, outside>> /\ Power!Step(r)
      /\ \/ pending' = req[r].saw \cup {r} /\ acked' = acked \cup {r} /\ dropped' = dropped
         \/ pending' = {} /\ dropped' = dropped \cup req[r].saw /\ acked' = acked
  BY DEF Power!MergeWrite, Power!ClearEdits
<1>3. /\ PowerShape /\ PowerSets /\ Power!EditKept /\ ExecInv /\ Power!Active(r)
      /\ req[r] \in RequestRecord /\ RestOf(req[r].op, req[r].left) /\ Knows(r, req[r])
      /\ Place(req[r].op, Len(req[r].left), s) /\ Calls \subseteq CallNames
      /\ powerExec \in ExecRecord /\ powerRows \in Seq(RowRecord)
  BY <1>1, AtFacts
<1>4. req[r].op \in Power!Writers /\ Len(req[r].left) = 1
  BY <1>1, <1>3 DEF Place, Power!Writers
<1>5. /\ req' \in [Request -> RequestRecord] /\ \A p \in Request : p # r => req'[p] = req[p]
      /\ req'[r].left = <<>> /\ RestOf(req'[r].op, req'[r].left)
  BY <1>2, <1>3, <1>4, Stepped
<1>6. RequestInv(r)'
  BY <1>5 DEF RequestInv, Power!Active, RestOf
<1>7. apart => Alone(r) /\ pending \subseteq req[r].saw
  <2>1. Earlier(req[r])
    BY <1>4 DEF Earlier, Power!Writers
  <2> QED
    BY <1>3, <1>4, <2>1 DEF Knows
<1>8. PowerSets'
  BY <1>2, <1>3 DEF PowerSets, RequestRecord
<1>9. Power!EditKept'
  BY <1>2, <1>3, <1>7 DEF Power!EditKept
<1>10. Evolves
  BY <1>2, <1>3, RowsStill
<1>11. ~(apart /\ powerExec.pc = "synced")
  <2> SUFFICES ASSUME apart, powerExec.pc = "synced" PROVE FALSE
    OBVIOUS
  <2>1. /\ powerExec.row \in DOMAIN powerRows /\ powerRows[powerExec.row].status = "running"
        /\ powerExec.pc \in PcOf(powerRows[powerExec.row].op)
    BY <1>3 DEF ExecInv
  <2>2. powerRows[powerExec.row].op \in RowOp
    BY <1>3, <2>1, RowTypes DEF RowRecord
  <2>3. powerRows[powerExec.row].op = "modify"
    BY <2>1, <2>2 DEF PcOf, RowOp, Power!Verbs
  <2> QED
    BY <1>7, <2>1, <2>3 DEF Alone, Unended
<1>12. ExecInv'
  BY <1>2, <1>3, <1>10, <1>11, ExecKept
<1> QED
  BY <1>2, <1>3, <1>5, <1>6, <1>7, <1>8, <1>9, <1>10, <1>12, HandlerFrame

LEMMA BeginSteps ==
  ASSUME PowerInv, NEW r \in Request, NEW op \in Calls, Power!Begin(r, op)
  PROVE  PowerInv'
<1>1. /\ UNCHANGED <<apart, vm, knobs, pending, powerRows, powerExec, acked, dropped, outside>>
      /\ Power!Allowed(op)
  BY DEF Power!Begin
<1>2. /\ PowerShape /\ PowerSets /\ Len(powerRows) \in Nat /\ DOMAIN powerRows = 1 .. Len(powerRows)
      /\ Calls \subseteq CallNames
  BY RowTypes, UpkeepAssumption DEF PowerInv
<1>3. ~Power!Active(r)
  <2>1. RestOf(req[r].op, req[r].left) /\ req[r].op = "none"
    BY DEF PowerInv, RequestInv, Power!Begin
  <2>2. "none" \notin Calls
    BY <1>2 DEF CallNames
  <2> QED
    BY <2>1, <2>2 DEF RestOf, Power!Active
<1>4. PICK plan : plan = Power!Plan(op)
  OBVIOUS
<1>5. plan \in Seq(StepName) /\ Len(plan) >= 1 /\ PlanOf(op, plan)
  BY <1>2, <1>4, Plans
<1>6. PICK mark : mark = IF op = "stop" THEN Len(powerRows) ELSE 0
  OBVIOUS
<1>7. mark \in Nat /\ mark <= Len(powerRows)
  BY <1>2, <1>6
<1>8. PICK q : q = [Power!NoRequest EXCEPT !.op = op, !.left = plan, !.saw = pending, !.mark = mark]
  OBVIOUS
<1>9. /\ q \in RequestRecord /\ q.op = op /\ q.left = plan /\ q.saw = pending
      /\ q.last = 0 /\ q.hit = {} /\ q.mark = mark
  BY <1>2, <1>5, <1>7, <1>8 DEF Power!NoRequest, RequestRecord, PowerSets
<1>10. req' = [req EXCEPT ![r] = q]
  BY <1>4, <1>6, <1>8 DEF Power!Begin
<1>11. /\ req' \in [Request -> RequestRecord] /\ req'[r] = q
      /\ \A p \in Request : p # r => req'[p] = req[p]
  BY <1>2, <1>9, <1>10 DEF PowerShape
<1>12. RestOf(q.op, q.left)
  <2>1. \A k \in 1 .. Len(plan) : plan[k] = plan[k + Len(plan) - Len(plan)]
    BY <1>5
  <2> QED
    BY <1>4, <1>5, <1>9, <2>1 DEF RestOf
<1>13. apart' /\ q.op \in Power!Writers => Alone(r)'
  <2> SUFFICES ASSUME apart, op \in Power!Writers PROVE Alone(r)'
    BY <1>1, <1>9
  <2>1. \A p \in Request : ~Power!Active(p)
    BY <1>1 DEF Power!Allowed
  <2>2. Power!Unfinished("modify") = {}
    BY <1>1 DEF Power!Allowed
  <2>3. \A i \in DOMAIN powerRows : powerRows[i].op = "modify" => ~Unended(i)
    BY <2>2 DEF Power!Unfinished, Unended
  <2> QED
    BY <1>1, <1>11, <2>1, <2>3 DEF Alone, Power!Active, Unended
<1>14. ~(op \in {"start", "restart"} /\ Len(plan) = 1) /\ ~(op = "stop" /\ Len(plan) <= 4)
       /\ ~(op = "stop" /\ Len(plan) <= 3)
  BY <1>5 DEF PlanOf
<1>15. q.last <= Len(powerRows') /\ q.mark <= Len(powerRows') /\ pending' \subseteq q.saw
  BY <1>1, <1>2, <1>9, <1>7
<1>16. RequestInv(r)'
  BY <1>9, <1>11, <1>12, <1>13, <1>14, <1>15, Remembers
<1>17. apart => \A p \in Request : Power!Active(p) => req[p].op \notin Power!Writers
  BY <1>1 DEF Power!Allowed
<1> QED
  BY <1>1, <1>11, <1>16, <1>17, QuietFrame

----------------------------------------------------------------------------
(* The steps of the queue and of the executors *)

LEMMA ExecFacts ==
  ASSUME PowerInv
  PROVE  /\ PowerShape /\ PowerSets /\ Power!EditKept /\ ExecInv
         /\ powerExec \in ExecRecord /\ powerRows \in Seq(RowRecord)
         /\ Len(powerRows) \in Nat /\ DOMAIN powerRows = 1 .. Len(powerRows)
         /\ \A i \in DOMAIN powerRows : RowInv(i) /\ powerRows[i] \in RowRecord
         /\ powerExec.pc # "idle"
              => /\ powerExec.row \in DOMAIN powerRows /\ Unended(powerExec.row)
                 /\ powerRows[powerExec.row].status = "running"
                 /\ powerExec.pc \in PcOf(powerRows[powerExec.row].op)
                 /\ powerRows[powerExec.row].op \in RowOp
<1>1. /\ PowerShape /\ PowerSets /\ Power!EditKept /\ ExecInv
      /\ \A i \in DOMAIN powerRows : RowInv(i)
  BY DEF PowerInv
<1>2. /\ powerExec \in ExecRecord /\ powerRows \in Seq(RowRecord)
      /\ Len(powerRows) \in Nat /\ DOMAIN powerRows = 1 .. Len(powerRows)
      /\ \A i \in DOMAIN powerRows : powerRows[i] \in RowRecord
  BY <1>1, RowTypes DEF PowerShape
<1>3. ASSUME powerExec.pc # "idle"
      PROVE  /\ powerExec.row \in DOMAIN powerRows /\ Unended(powerExec.row)
             /\ powerRows[powerExec.row].status = "running"
             /\ powerExec.pc \in PcOf(powerRows[powerExec.row].op)
             /\ powerRows[powerExec.row].op \in RowOp
  BY <1>1, <1>2, <1>3 DEF ExecInv, Unended, RowRecord
<1> QED
  BY <1>1, <1>2, <1>3

\* Which operation a place of the executor belongs to
LEMMA Executing ==
  ASSUME NEW op \in RowOp, NEW pc \in PcOf(op)
  PROVE  /\ pc \in {"start", "booted"} => op = "start"
         /\ pc \in {"stop", "wait", "poweroff"} => op = "stop"
         /\ pc \in {"modify", "sync", "synced", "clear"} => op = "modify"
BY DEF PcOf, RowOp, Power!Verbs

\* The task ends, and the executor is free
LEMMA EndsSteps ==
  ASSUME PowerInv, powerExec.pc # "idle", NEW s \in {"done", "failed"}, Power!Ends(s),
         UNCHANGED <<apart, req>>, knobs \subseteq knobs', PowerSets', Power!EditKept',
         apart => pending' \subseteq pending,
         powerRows[powerExec.row].op = "modify" /\ s = "done"
           => powerRows[powerExec.row].edits \subseteq knobs'
  PROVE  PowerInv'
<1>1. /\ PowerShape /\ powerExec.row \in DOMAIN powerRows /\ Unended(powerExec.row)
  BY ExecFacts
<1>2. powerRows' = Power!Finished(powerExec.row, s) /\ powerExec' = Power!Idle
  BY DEF Power!Ends
<1>3. Evolves /\ powerRows' \in Seq(RowRecord) /\ Len(powerRows') = Len(powerRows)
  BY <1>1, <1>2, RowEnds
<1>4. ExecInv' /\ powerExec' \in ExecRecord
  BY <1>2 DEF ExecInv, Power!Idle, ExecRecord
<1> QED
  BY <1>3, <1>4, ExecFrame

\* The executor goes on to pc
LEMMA GoesSteps ==
  ASSUME PowerInv, powerExec.pc # "idle", NEW pc,
         powerExec'.pc = pc, powerExec'.row = powerExec.row, powerExec' \in ExecRecord,
         UNCHANGED <<powerRows, apart, req>>,
         pc \in PcOf(powerRows[powerExec.row].op), pc # "idle",
         knobs \subseteq knobs', PowerSets', Power!EditKept',
         apart => pending' \subseteq pending,
         pc \in {"sync", "synced", "clear"} => powerRows[powerExec.row].edits \subseteq knobs',
         pc = "clear" => powerRows[powerExec.row].marker,
         apart /\ pc = "synced" => powerExec'.conf = pending',
         pc = "wait" => vm' \in {"running", "off"}
  PROVE  PowerInv'
<1>1. /\ PowerShape /\ powerExec.row \in DOMAIN powerRows /\ powerRows \in Seq(RowRecord)
      /\ powerRows[powerExec.row].status = "running"
  BY ExecFacts
<1>2. Evolves
  BY <1>1, RowsStill
<1>3. ExecInv'
  BY <1>1 DEF ExecInv
<1> QED
  BY <1>1, <1>2, <1>3, ExecFrame

\* What Goes does to the record of the executor
LEMMA Gone ==
  ASSUME powerExec \in ExecRecord, NEW pc, Power!Goes(pc),
         pc \in {"booted", "wait", "poweroff", "sync", "synced", "clear"}
  PROVE  /\ powerExec'.pc = pc /\ powerExec'.row = powerExec.row
         /\ powerExec'.conf = powerExec.conf /\ powerExec' \in ExecRecord /\ UNCHANGED powerRows
BY DEF Power!Goes, ExecRecord

LEMMA RunSteps ==
  ASSUME PowerInv, Power!Run
  PROVE  PowerInv'
<1>1. PICK i \in DOMAIN powerRows :
        /\ Power!Runnable(i) /\ powerRows' = [powerRows EXCEPT ![i].status = "running"]
        /\ powerExec' = [Power!Idle EXCEPT !.row = i, !.pc = powerRows[i].op]
  BY DEF Power!Run
<1>2. UNCHANGED <<apart, vm, knobs, pending, req, acked, dropped, outside>>
  BY DEF Power!Run
<1>3. PowerShape /\ PowerSets /\ Power!EditKept /\ powerRows[i].op \in RowOp /\ i \in Nat
  BY ExecFacts DEF RowRecord
<1>4. /\ Evolves /\ powerRows' \in Seq(RowRecord) /\ Len(powerRows') = Len(powerRows)
      /\ powerRows'[i].status = "running" /\ powerRows'[i].op = powerRows[i].op
  BY <1>1, <1>2, <1>3, RowRuns
<1>5. PowerSets' /\ Power!EditKept'
  BY <1>2, <1>3 DEF PowerSets, Power!EditKept
<1>6. PICK op : op = powerRows[i].op
  OBVIOUS
<1>7. powerExec'.row = i /\ powerExec'.pc = op /\ powerExec' \in ExecRecord
  BY <1>1, <1>3, <1>6 DEF Power!Idle, ExecRecord
<1>8. op \in PcOf(op) /\ op \notin {"idle", "sync", "synced", "clear", "wait"}
  BY <1>3, <1>6 DEF PcOf, RowOp, Power!Verbs
<1>9. i \in DOMAIN powerRows'
  BY <1>1, <1>3, <1>4, RowTypes
<1>10. ExecInv'
  BY <1>4, <1>6, <1>7, <1>8, <1>9 DEF ExecInv
<1> QED
  BY <1>2, <1>4, <1>5, <1>7, <1>10, ExecFrame

LEMMA DropSteps ==
  ASSUME PowerInv, Power!DropChained
  PROVE  PowerInv'
<1>1. PICK i \in DOMAIN powerRows : Waiting(i) /\ powerRows' = Power!Finished(i, "failed")
  BY DEF Power!DropChained, Waiting
<1>2. UNCHANGED <<apart, vm, knobs, pending, req, powerExec, acked, dropped, outside>>
  BY DEF Power!DropChained
<1>3. /\ PowerShape /\ PowerSets /\ Power!EditKept /\ ExecInv /\ powerExec \in ExecRecord
      /\ powerExec.pc # "idle" => powerExec.row \in DOMAIN powerRows
                                  /\ powerRows[powerExec.row].status = "running"
  BY ExecFacts
<1>4. /\ Evolves /\ powerRows' \in Seq(RowRecord) /\ Len(powerRows') = Len(powerRows)
      /\ \A j \in DOMAIN powerRows : j # i => powerRows'[j] = powerRows[j]
  BY <1>1, <1>2, <1>3, RowEnds DEF Waiting, Unended
<1>5. powerExec.pc # "idle" => powerRows'[powerExec.row] = powerRows[powerExec.row]
  BY <1>1, <1>3, <1>4 DEF Waiting
<1>6. ExecInv'
  BY <1>2, <1>3, <1>4, <1>5, ExecKept
<1>7. PowerSets' /\ Power!EditKept'
  BY <1>2, <1>3 DEF PowerSets, Power!EditKept
<1> QED
  BY <1>2, <1>3, <1>4, <1>6, <1>7, ExecFrame

LEMMA OutsideSteps ==
  ASSUME PowerInv, Power!Outside
  PROVE  PowerInv'
<1>1. /\ UNCHANGED <<apart, knobs, pending, req, powerRows, powerExec, acked, dropped>>
      /\ vm' \in {"running", "off"} /\ outside < MaxOutside /\ outside' = outside + 1
  BY DEF Power!Outside
<1>2. /\ PowerShape /\ PowerSets /\ Power!EditKept /\ ExecInv
      /\ powerExec \in ExecRecord /\ powerRows \in Seq(RowRecord)
  BY ExecFacts
<1>3. Evolves
  BY <1>1, <1>2, RowsStill
<1>4. PowerSets' /\ Power!EditKept'
  BY <1>1, <1>2, UpkeepAssumption DEF PowerSets, Power!EditKept
<1>5. ExecInv'
  BY <1>1, <1>2, <1>3, ExecKept
<1> QED
  BY <1>1, <1>2, <1>3, <1>4, <1>5, ExecFrame

\* Boot, Booted, Signal, Wait, PowerOff, Verb: the executors that touch no edits
LEMMA PowerSteps ==
  ASSUME PowerInv,
         \/ Power!Boot \/ Power!Booted \/ Power!Signal
         \/ Power!Wait \/ Power!PowerOff \/ Power!Verb
  PROVE  PowerInv'
<1>1. /\ UNCHANGED <<apart, knobs, pending, req, acked, dropped, outside>>
      /\ vm' = vm \/ vm' \in {"running", "off", "paused", "saved"}
  BY DEF Power!Boot, Power!Booted, Power!Signal, Power!Wait, Power!PowerOff, Power!Verb, Power!After
<1>2. /\ PowerSets /\ Power!EditKept /\ powerExec \in ExecRecord
      /\ powerExec.pc \notin {"idle", "modify", "sync", "synced", "clear"}
  BY ExecFacts DEF Power!Boot, Power!Booted, Power!Signal, Power!Wait, Power!PowerOff, Power!Verb,
                   Power!Verbs
<1>3. /\ powerExec.pc \in PcOf(powerRows[powerExec.row].op)
      /\ powerRows[powerExec.row].op \in RowOp
  BY <1>2, ExecFacts
<1>4. PICK op, at : op = powerRows[powerExec.row].op /\ at = powerExec.pc
  OBVIOUS
<1>5. op # "modify"
  BY <1>2, <1>3, <1>4 DEF PcOf
<1>6. PowerSets' /\ Power!EditKept'
  BY <1>1, <1>2 DEF PowerSets, Power!EditKept
<1>7. ASSUME NEW s \in {"done", "failed"}, Power!Ends(s) PROVE PowerInv'
  BY <1>1, <1>2, <1>4, <1>5, <1>6, <1>7, EndsSteps
<1>8. ASSUME NEW pc \in {"booted", "wait", "poweroff"}, Power!Goes(pc), pc \in PcOf(op),
             pc = "wait" => vm' \in {"running", "off"}
      PROVE  PowerInv'
  <2>1. /\ powerExec'.pc = pc /\ powerExec'.row = powerExec.row
        /\ powerExec' \in ExecRecord /\ UNCHANGED powerRows
    BY <1>2, <1>8, Gone
  <2>2. pc \notin {"idle", "sync", "synced", "clear"}
    BY <1>8
  <2> QED
    BY <1>1, <1>2, <1>4, <1>6, <1>8, <2>1, <2>2, GoesSteps
<1>9. CASE Power!Boot
  <2>1. op = "start"
    BY <1>3, <1>4, <1>9, Executing DEF Power!Boot
  <2>2. Power!Goes("booted") \/ Power!Ends("failed")
    BY <1>9 DEF Power!Boot
  <2>3. "booted" \in PcOf(op)
    BY <2>1 DEF PcOf
  <2> QED
    BY <1>7, <1>8, <2>2, <2>3
<1>10. CASE Power!Signal
  <2>1. op = "stop"
    BY <1>3, <1>4, <1>10, Executing DEF Power!Signal
  <2>2. (vm' = "running" /\ Power!Goes("wait")) \/ Power!Goes("poweroff")
    BY <1>10 DEF Power!Signal
  <2>3. "wait" \in PcOf(op) /\ "poweroff" \in PcOf(op)
    BY <2>1 DEF PcOf
  <2> QED
    BY <1>8, <2>2, <2>3
<1>11. CASE Power!Wait
  <2>1. op = "stop"
    BY <1>3, <1>4, <1>11, Executing DEF Power!Wait
  <2>2. Power!Ends("done") \/ Power!Goes("poweroff")
    BY <1>11 DEF Power!Wait, Power!TimedOut
  <2>3. "poweroff" \in PcOf(op)
    BY <2>1 DEF PcOf
  <2> QED
    BY <1>7, <1>8, <2>2, <2>3
<1>12. CASE Power!Booted \/ Power!PowerOff \/ Power!Verb
  <2>1. Power!Ends("done") \/ Power!Ends("failed")
    BY <1>12 DEF Power!Booted, Power!PowerOff, Power!Verb
  <2> QED
    BY <1>7, <2>1
<1> QED
  BY <1>9, <1>10, <1>11, <1>12

\* Modify, SyncRead, SyncWrite, ClearApplied: a modification sets its edits before it clears them
LEMMA ModifySteps ==
  ASSUME PowerInv, Power!Modify \/ Power!SyncRead \/ Power!SyncWrite \/ Power!ClearApplied
  PROVE  PowerInv'
<1>1. /\ UNCHANGED <<apart, vm, req, acked, dropped, outside>>
      /\ powerExec.pc \in {"modify", "sync", "synced", "clear"}
  BY DEF Power!Modify, Power!SyncRead, Power!SyncWrite, Power!ClearApplied
<1>2. /\ PowerSets /\ Power!EditKept /\ ExecInv /\ powerExec \in ExecRecord
      /\ powerExec.row \in DOMAIN powerRows /\ Unended(powerExec.row)
      /\ powerRows[powerExec.row] \in RowRecord /\ RowInv(powerExec.row)
      /\ powerExec.pc \in PcOf(powerRows[powerExec.row].op)
      /\ powerRows[powerExec.row].op \in RowOp
  BY <1>1, ExecFacts
<1>3. powerRows[powerExec.row].op = "modify"
  BY <1>1, <1>2, Executing
<1>4. powerExec.pc # "idle"
  BY <1>1
<1>5. PICK task : task = powerRows[powerExec.row]
  OBVIOUS
<1>6. /\ task.op = "modify" /\ task.edits \subseteq Request /\ task.marker \in BOOLEAN
      /\ powerExec.conf \subseteq Request
  BY <1>2, <1>3, <1>5 DEF RowRecord, ExecRecord
<1>7. \A pc \in {"sync", "synced", "clear"} : pc \in PcOf(task.op) /\ pc # "idle"
  BY <1>6 DEF PcOf
<1>8. /\ powerExec.pc \in {"sync", "synced", "clear"} => task.edits \subseteq knobs
      /\ powerExec.pc = "clear" => task.marker
      /\ apart /\ powerExec.pc = "synced" => powerExec.conf = pending
      /\ apart /\ task.marker => pending \subseteq task.edits
  BY <1>2, <1>4, <1>5, <1>6 DEF ExecInv, RowInv
<1>9. CASE Power!Modify
  <2>1. /\ UNCHANGED pending /\ knobs \subseteq knobs' /\ knobs' \subseteq Request
        /\ \/ knobs' = knobs \cup task.edits /\ Power!Goes("sync")
           \/ Power!Ends("failed")
    <3>1. CASE vm = "off" /\ knobs' = knobs \cup task.edits /\ Power!Goes("sync")
      BY <1>2, <1>6, <1>9, <3>1 DEF Power!Modify, PowerSets
    <3>2. CASE /\ knobs' \in {knobs \cup part : part \in IF vm = "off" THEN SUBSET task.edits ELSE {{}}}
               /\ Power!Ends("failed")
      <4>1. PICK part : part \subseteq task.edits /\ knobs' = knobs \cup part
        BY <3>2
      <4> QED
        BY <1>2, <1>6, <1>9, <3>2, <4>1 DEF Power!Modify, PowerSets
    <3> QED
      BY <1>5, <1>9, <3>1, <3>2 DEF Power!Modify
  <2>2. PowerSets' /\ Power!EditKept'
    BY <1>1, <1>2, <2>1 DEF PowerSets, Power!EditKept
  <2>3. CASE Power!Ends("failed")
    BY <1>1, <1>4, <2>1, <2>2, <2>3, EndsSteps
  <2>4. CASE knobs' = knobs \cup task.edits /\ Power!Goes("sync")
    <3>1. /\ powerExec'.pc = "sync" /\ powerExec'.row = powerExec.row
          /\ powerExec' \in ExecRecord /\ UNCHANGED powerRows
      BY <1>2, <2>4, Gone
    <3> QED
      BY <1>1, <1>4, <1>5, <1>7, <2>1, <2>2, <2>4, <3>1, GoesSteps
  <2> QED
    BY <2>1, <2>3, <2>4
<1>10. CASE Power!SyncRead
  <2>1. /\ UNCHANGED <<pending, knobs, powerRows>>
        /\ powerExec' = [powerExec EXCEPT !.pc = "synced", !.conf = pending]
    BY <1>10 DEF Power!SyncRead
  <2>2. PowerSets' /\ Power!EditKept'
    BY <1>1, <1>2, <2>1 DEF PowerSets, Power!EditKept
  <2>3. /\ powerExec'.pc = "synced" /\ powerExec'.row = powerExec.row
        /\ powerExec'.conf = pending /\ powerExec' \in ExecRecord
    BY <1>2, <2>1 DEF ExecRecord, PowerSets
  <2>4. task.edits \subseteq knobs'
    BY <1>8, <1>10, <2>1 DEF Power!SyncRead
  <2> QED
    BY <1>1, <1>4, <1>5, <1>7, <2>1, <2>2, <2>3, <2>4, GoesSteps
<1>11. CASE Power!SyncWrite
  <2>1. /\ UNCHANGED knobs /\ pending' = powerExec.conf /\ powerExec.pc = "synced"
        /\ IF task.marker THEN Power!Goes("clear") ELSE Power!Ends("done")
    BY <1>5, <1>11 DEF Power!SyncWrite
  <2>2. apart => pending' = pending
    BY <1>8, <2>1
  <2>3. PowerSets' /\ Power!EditKept'
    BY <1>1, <1>2, <1>6, <2>1, <2>2 DEF PowerSets, Power!EditKept
  <2>4. task.edits \subseteq knobs'
    BY <1>8, <2>1
  <2>5. CASE Power!Ends("done")
    BY <1>1, <1>4, <1>5, <2>1, <2>2, <2>3, <2>4, <2>5, EndsSteps
  <2>6. CASE Power!Goes("clear") /\ task.marker
    <3>1. /\ powerExec'.pc = "clear" /\ powerExec'.row = powerExec.row
          /\ powerExec' \in ExecRecord /\ UNCHANGED powerRows
      BY <1>2, <2>6, Gone
    <3> QED
      BY <1>1, <1>4, <1>5, <1>7, <2>1, <2>2, <2>3, <2>4, <2>6, <3>1, GoesSteps
  <2> QED
    BY <2>1, <2>5, <2>6
<1>12. CASE Power!ClearApplied
  <2>1. UNCHANGED knobs /\ pending' = {} /\ powerExec.pc = "clear" /\ Power!Ends("done")
    BY <1>12 DEF Power!ClearApplied
  <2>2. apart => pending \subseteq knobs
    BY <1>8, <2>1
  <2>3. PowerSets' /\ Power!EditKept'
    BY <1>1, <1>2, <2>1, <2>2 DEF PowerSets, Power!EditKept
  <2>4. task.edits \subseteq knobs'
    BY <1>8, <2>1
  <2> QED
    BY <1>1, <1>4, <1>5, <2>1, <2>3, <2>4, EndsSteps
<1> QED
  BY <1>9, <1>10, <1>11, <1>12

----------------------------------------------------------------------------
(* The power requests keep the edits *)

LEMMA PowerStarts ==
  ASSUME Power!Init
  PROVE  PowerInv
<1>1. /\ req = [r \in Request |-> Power!NoRequest] /\ powerRows = <<>> /\ powerExec = Power!Idle
      /\ knobs = {} /\ pending = {} /\ acked = {} /\ dropped = {} /\ outside = 0
      /\ apart \in BOOLEAN /\ vm \in {"off", "running"}
  BY DEF Power!Init
<1>2. Power!NoRequest \in RequestRecord /\ Power!NoRequest.left = <<>>
  BY DEF Power!NoRequest, RequestRecord
<1>3. PowerShape
  BY <1>1, <1>2 DEF PowerShape, Power!Idle, ExecRecord
<1>4. PowerSets /\ Power!EditKept
  BY <1>1, UpkeepAssumption DEF PowerSets, Power!EditKept
<1>5. ASSUME NEW r \in Request PROVE RequestInv(r)
  BY <1>1, <1>2 DEF RequestInv, RestOf, Power!Active
<1>6. ExecInv /\ \A i \in DOMAIN powerRows : RowInv(i)
  BY <1>1 DEF ExecInv, Power!Idle
<1> QED
  BY <1>3, <1>4, <1>5, <1>6 DEF PowerInv

LEMMA PowerSame ==
  ASSUME PowerInv, UNCHANGED powerVars
  PROVE  PowerInv'
<1>1. UNCHANGED <<apart, vm, knobs, pending, req, powerRows, powerExec, acked, dropped, outside>>
  BY DEF powerVars
<1>2. /\ PowerShape /\ PowerSets /\ Power!EditKept /\ ExecInv
      /\ powerExec \in ExecRecord /\ powerRows \in Seq(RowRecord)
  BY ExecFacts
<1>3. Evolves
  BY <1>1, <1>2, RowsStill
<1>4. PowerSets' /\ Power!EditKept'
  BY <1>1, <1>2 DEF PowerSets, Power!EditKept
<1>5. ExecInv'
  BY <1>1, <1>2, <1>3, ExecKept
<1> QED
  BY <1>1, <1>2, <1>3, <1>4, <1>5, ExecFrame

LEMMA PowerStep ==
  ASSUME PowerInv, Power!Next
  PROVE  PowerInv'
<1>1. ASSUME NEW r \in Request, Power!Handler(r) PROVE PowerInv'
  BY <1>1, QuietSteps, QueueSteps, CancelSteps, WriteSteps DEF Power!Handler
<1>2. ASSUME NEW r \in Request, NEW op \in Calls, Power!Begin(r, op) PROVE PowerInv'
  BY <1>2, BeginSteps
<1>3. ASSUME Power!Executor PROVE PowerInv'
  BY <1>3, RunSteps, DropSteps, PowerSteps, ModifySteps DEF Power!Executor
<1>4. ASSUME Power!Outside PROVE PowerInv'
  BY <1>4, OutsideSteps
<1> QED
  BY <1>1, <1>2, <1>3, <1>4 DEF Power!Next

LEMMA PowerTypes ==
  ASSUME PowerInv
  PROVE  Power!TypeOK /\ Power!EditKept
<1>1. /\ PowerSets /\ Power!EditKept /\ ExecInv /\ powerExec \in ExecRecord
      /\ Len(powerRows) \in Nat /\ DOMAIN powerRows = 1 .. Len(powerRows)
  BY ExecFacts
<1>2. ASSUME NEW i \in DOMAIN powerRows
      PROVE  powerRows[i].dep \in 0..(i - 1)
             /\ powerRows[i].status \in {"pending", "running", "done", "failed"}
  <2>1. powerRows[i] \in RowRecord /\ RowInv(i) /\ i \in Nat
    BY ExecFacts
  <2>2. powerRows[i].dep \in Nat /\ powerRows[i].dep < i /\ powerRows[i].status \in RowStatus
    BY <2>1 DEF RowRecord, RowInv
  <2> QED
    BY <2>1, <2>2 DEF RowStatus
<1>3. powerExec.row \in 0..Len(powerRows)
  BY <1>1 DEF ExecInv, ExecRecord
<1>4. IF powerExec.pc = "idle" THEN powerExec.row = 0 ELSE powerRows[powerExec.row].status = "running"
  BY <1>1 DEF ExecInv
<1> QED
  BY <1>1, <1>2, <1>3, <1>4 DEF Power!TypeOK, PowerSets

\* A step of the whole is a step of the power requests, or leaves them alone
LEMMA PowerTurn ==
  ASSUME [UpkeepNext]_upkeepVars
  PROVE  Power!Next \/ UNCHANGED powerVars
BY DEF UpkeepNext, upkeepVars

\* Everything known of the power requests holds throughout (machines_lifecycle.go,
\* machines_modify.go, machines_pending.go, hostdoc_store.go).
THEOREM PowerCorrect == UpkeepSpec => []PowerInv
<1>1. UpkeepInit => PowerInv
  BY PowerStarts DEF UpkeepInit
<1>2. PowerInv /\ [UpkeepNext]_upkeepVars => PowerInv'
  BY PowerTurn, PowerStep, PowerSame
<1> QED
  BY <1>1, <1>2, PTL DEF UpkeepSpec

\* No accrued edit is lost, whatever power cycles fail or are refused: it waits, it is set, or a
\* DELETE named it (accrueModifyChanges, applyPending, syncLiveConfiguration).
THEOREM EditsKept == UpkeepSpec => []PowerEditKept
<1>1. PowerInv => PowerEditKept
  BY PowerTypes DEF PowerEditKept
<1> QED
  BY <1>1, PowerCorrect, PTL

----------------------------------------------------------------------------
(* What a boot and a stop may rely on *)

\* A boot: the modification that its start was chained behind is through
LEMMA BootStep ==
  ASSUME PowerInv, powerExec.pc = "start"
  PROVE  powerRows[powerExec.row].saw \subseteq knobs
<1>1. /\ powerExec.row \in DOMAIN powerRows /\ RowInv(powerExec.row)
      /\ powerRows[powerExec.row].status = "running" /\ powerRows[powerExec.row].op \in RowOp
      /\ powerExec.pc \in PcOf(powerRows[powerExec.row].op)
  BY ExecFacts
<1>2. powerRows[powerExec.row].op = "start"
  BY <1>1, Executing
<1> QED
  BY <1>1, <1>2 DEF RowInv

LEMMA StillExecutes ==
  ASSUME powerExec.pc \in {"wait", "poweroff"}, powerExec' = Power!Idle
  PROVE  powerExec' # powerExec
BY DEF Power!Idle

\* A stop that ends well leaves the machine off: it saw it go, or switched it off
LEMMA StopStep ==
  ASSUME PowerInv, Power!Next, powerExec.pc \in {"wait", "poweroff"}, powerExec' = Power!Idle,
         powerRows'[powerExec.row].status = "done"
  PROVE  vm' \notin {"running", "paused"}
<1>1. /\ PowerShape /\ ExecInv /\ powerExec.row \in DOMAIN powerRows
      /\ powerRows[powerExec.row].op = "stop" /\ powerExec' # powerExec
      /\ powerExec.pc # "idle"
  <2>1. /\ PowerShape /\ ExecInv /\ powerExec.row \in DOMAIN powerRows
        /\ powerRows[powerExec.row].op \in RowOp
        /\ powerExec.pc \in PcOf(powerRows[powerExec.row].op)
    BY ExecFacts
  <2>2. powerRows[powerExec.row].op = "stop"
    BY <2>1, Executing
  <2> QED
    BY <2>1, <2>2, StillExecutes
<1>2. ASSUME NEW r \in Request, Power!Handler(r) PROVE FALSE
  <2>1. Power!Cancel(r)
    BY <1>1, <1>2 DEF Power!Handler, Power!Probe, Power!Dedup, Power!QueueTask, Power!QueueApply,
                      Power!QueueDirect, Power!List, Power!MergeRead, Power!MergeWrite,
                      Power!ClearEdits
  <2>2. Knows(r, req[r])
    BY <2>1, AtFacts DEF Power!Cancel
  <2>3. PICK i \in req[r].hit : Power!Killed(i)
    BY <1>1, <2>1 DEF Power!Cancel
  <2>4. StartAt(i)
    BY <2>2 DEF Knows
  <2> QED
    BY <1>1, <2>3, <2>4 DEF StartAt, Power!Killed
<1>3. ~(\E r \in Request : \E op \in Calls : Power!Begin(r, op)) /\ ~Power!Outside
  BY <1>1 DEF Power!Begin, Power!Outside
<1>4. Power!Wait \/ Power!PowerOff
  <2>1. Power!Executor
    BY <1>2, <1>3 DEF Power!Next
  <2> QED
    BY <1>1, <2>1 DEF Power!Executor, Power!Run, Power!DropChained, Power!Boot, Power!Booted,
      Power!Signal, Power!Verb, Power!Verbs, Power!Modify, Power!SyncRead, Power!SyncWrite,
      Power!ClearApplied
<1>5. CASE Power!Wait
  <2>1. vm \in {"running", "off"} /\ vm' = vm
    BY <1>1, <1>5 DEF ExecInv, Power!Wait
  <2>2. vm # "running"
    BY <1>1, <1>5 DEF Power!Wait, Power!TimedOut, Power!Goes, Power!Idle, PowerShape, ExecRecord
  <2> QED
    BY <2>1, <2>2
<1>6. CASE Power!PowerOff
  <2>1. ~Power!Ends("failed")
    <3>1. ASSUME Power!Ends("failed") PROVE FALSE
      <4>1. powerRows' = Power!Finished(powerExec.row, "failed")
        BY <3>1 DEF Power!Ends
      <4>2. powerRows'[powerExec.row].status = "failed"
        BY <1>1, <4>1 DEF Power!Finished, Power!Row, PowerShape
      <4> QED
        BY <4>2
    <3> QED
      BY <3>1
  <2>2. vm' = "off"
    BY <1>6, <2>1 DEF Power!PowerOff
  <2> QED
    BY <2>2
<1> QED
  BY <1>4, <1>5, <1>6

\* A step of one request is none of another
LEMMA OthersStay ==
  ASSUME PowerShape, NEW p \in Request, NEW r \in Request, p # r, Power!Handler(p)
  PROVE  req'[r] = req[r]
<1>1. ASSUME NEW state, Power!Become(p, state) PROVE req'[r] = req[r]
  BY <1>1 DEF Power!Become, PowerShape
<1>2. Power!Step(p) \/ Power!Answer(p) => req'[r] = req[r]
  BY <1>1 DEF Power!Step, Power!Answer
<1>3. ASSUME NEW task, Power!Create(p, task) PROVE req'[r] = req[r]
  BY <1>1, <1>3 DEF Power!Create
<1>4. CASE Power!Probe(p) \/ Power!Dedup(p)
  BY <1>2, <1>4 DEF Power!Probe, Power!Dedup, PowerShape
<1>5. CASE Power!QueueTask(p) \/ Power!QueueApply(p) \/ Power!QueueDirect(p)
  <2>1. Power!QueueTask(p) \/ Power!QueueDirect(p) => req'[r] = req[r]
    BY <1>3 DEF Power!QueueTask, Power!QueueDirect
  <2>2. ASSUME Power!QueueApply(p) PROVE req'[r] = req[r]
    <3>1. PICK state : state = [req[p] EXCEPT !.left = Tail(@), !.saw = {}]
      OBVIOUS
    <3>2. PICK task : task = Power!Row("modify", req[p].last, req[p].saw, TRUE, {})
      OBVIOUS
    <3>3. Power!Create(p, task) \/ Power!Become(p, state)
      BY <2>2, <3>1, <3>2 DEF Power!QueueApply
    <3> QED
      BY <1>1, <1>3, <3>3
  <2> QED
    BY <1>5, <2>1, <2>2
<1>6. CASE Power!List(p) \/ Power!MergeRead(p)
  BY <1>6 DEF Power!List, Power!MergeRead, PowerShape
<1>7. CASE Power!Cancel(p)
  <2>1. CASE req[p].hit = {}
    BY <1>2, <1>7, <2>1 DEF Power!Cancel
  <2>2. CASE req[p].hit # {}
    <3>1. PICK i \in req[p].hit : req' = [req EXCEPT ![p].hit = @ \ {i}]
      BY <1>7, <2>2 DEF Power!Cancel
    <3> QED
      BY <3>1 DEF PowerShape
  <2> QED
    BY <2>1, <2>2
<1>8. CASE Power!MergeWrite(p) \/ Power!ClearEdits(p)
  BY <1>2, <1>8 DEF Power!MergeWrite, Power!ClearEdits
<1> QED
  BY <1>4, <1>5, <1>6, <1>7, <1>8 DEF Power!Handler

\* The last steps of a stop: the starts that it found are cancelled, and none has come before it
LEMMA OverrideStep ==
  ASSUME PowerInv, Power!Next, NEW r \in Request, Power!StopEnds(r), ~Power!At(r, "probe")
  PROVE  Power!StartsBefore(r) = {}
<1>1. /\ Power!Active(r) /\ req[r].op = "stop" /\ req'[r].left = <<>> /\ req'[r] # req[r]
  BY DEF Power!StopEnds, Power!Active
<1>2. PowerShape /\ Power!Handler(r)
  <2>1. PowerShape
    BY DEF PowerInv
  <2>2. ASSUME NEW p \in Request, NEW op \in Calls, Power!Begin(p, op) PROVE FALSE
    <3>1. req'[r] = req[r] \/ req[r].op = "none"
      BY <2>1, <2>2 DEF Power!Begin, PowerShape
    <3> QED
      BY <1>1, <3>1
  <2>3. ~Power!Executor /\ ~Power!Outside
    BY <1>1 DEF Power!Executor, Power!Run, Power!DropChained, Power!Boot, Power!Booted,
      Power!Signal, Power!Wait, Power!PowerOff, Power!Verb, Power!Modify, Power!SyncRead,
      Power!SyncWrite, Power!ClearApplied, Power!Outside
  <2>4. PICK p \in Request : Power!Handler(p)
    BY <2>2, <2>3 DEF Power!Next
  <2> QED
    BY <1>1, <2>1, <2>4, OthersStay
<1>3. PICK s : s = Head(req[r].left)
  OBVIOUS
<1>4. Power!At(r, s) /\ s # "probe"
  BY <1>1, <1>3 DEF Power!At
<1>5. /\ req[r] \in RequestRecord /\ Len(req[r].left) \in Nat /\ Knows(r, req[r])
      /\ RestOf(req[r].op, req[r].left)
      /\ Place(req[r].op, Len(req[r].left), s) /\ Calls \subseteq CallNames
      /\ Len(powerRows) \in Nat /\ DOMAIN powerRows = 1 .. Len(powerRows)
  BY <1>4, AtFacts
<1>6. CASE s \in {"dedup", "stop", "apply"}
  <2>1. Len(req[r].left) \in {1, 2, 3}
    <3>1. PICK call, n : call = req[r].op /\ n = Len(req[r].left)
      OBVIOUS
    <3>2. Place(call, n, s) /\ call = "stop"
      BY <1>1, <1>5, <3>1
    <3>3. n \in {1, 2, 3}
      BY <1>6, <3>2 DEF Place, Power!Verbs
    <3> QED
      BY <3>1, <3>3
  <2>2. Len(req[r].left) <= 3 /\ Len(req[r].left) <= 4
    <3>1. \A n \in {1, 2, 3} : n <= 3 /\ n <= 4
      OBVIOUS
    <3> QED
      BY <2>1, <3>1
  <2>3. Power!Dedup(r) \/ Power!QueueTask(r) \/ Power!QueueApply(r)
    BY <1>3, <1>6, <1>2 DEF Power!Handler, Power!Probe, Power!QueueDirect, Power!List, Power!Cancel,
      Power!MergeRead, Power!MergeWrite, Power!ClearEdits, Power!At
  <2>4. powerRows' = powerRows \/ \E task : powerRows' = Append(powerRows, task)
    BY <2>3 DEF Power!Dedup, Power!QueueTask, Power!QueueApply, Power!Create
  <2>5. \A i \in DOMAIN powerRows : powerRows'[i] = powerRows[i]
    BY <1>2, <2>4 DEF PowerShape
  <2>6. \A i \in 1 .. req[r].mark : i \in DOMAIN powerRows
    BY <1>5 DEF Knows, RequestRecord
  <2>7. \A i \in 1 .. req[r].mark : ~(StartAt(i) /\ Waiting(i))
    BY <1>1, <1>5, <2>2 DEF Knows
  <2> QED
    BY <2>5, <2>6, <2>7 DEF Power!StartsBefore, StartAt, Waiting
<1>7. CASE s \in {"list", "cancel"}
  <2>1. Len(req[r].left) \in {4, 5} /\ req[r].left \in Seq(StepName)
    BY <1>5, <1>7 DEF Place, RequestRecord
  <2>2. /\ Power!List(r) \/ Power!Cancel(r)
    BY <1>2, <1>3, <1>7 DEF Power!Handler, Power!Probe, Power!Dedup, Power!QueueTask, Power!Verbs,
      Power!QueueApply, Power!QueueDirect, Power!MergeRead, Power!MergeWrite, Power!ClearEdits, Power!At
  <2>3. req'[r].left = Tail(req[r].left) \/ req'[r].left = req[r].left
    <3>1. CASE Power!List(r)
      BY <1>2, <1>5, <3>1 DEF Power!List, PowerShape, RequestRecord
    <3>2. CASE Power!Cancel(r) /\ req[r].hit = {}
      BY <1>1, <1>2, <1>5, <3>2, Stepped DEF Power!Cancel
    <3>3. CASE Power!Cancel(r) /\ req[r].hit # {}
      <4>1. PICK i \in req[r].hit : req' = [req EXCEPT ![r].hit = @ \ {i}]
        BY <3>3 DEF Power!Cancel
      <4> QED
        BY <1>2, <1>5, <4>1 DEF PowerShape, RequestRecord
    <3> QED
      BY <2>2, <3>1, <3>2, <3>3
  <2>4. Tail(req[r].left) # <<>>
    <3>1. Tail(req[r].left) = <<>> <=> Len(req[r].left) = 1
      BY <1>1, <1>5, <2>1, TailRest DEF Power!Active
    <3>2. \A n \in {4, 5} : n # 1
      OBVIOUS
    <3> QED
      BY <2>1, <3>1, <3>2
  <2> QED
    BY <1>1, <2>3, <2>4 DEF Power!Active
<1>8. s \in {"dedup", "stop", "apply", "list", "cancel"}
  <2>1. PICK call, n : call = req[r].op /\ n = Len(req[r].left)
    OBVIOUS
  <2>2. Place(call, n, s) /\ call = "stop" /\ s \in StepName
    BY <1>1, <1>5, <2>1 DEF Place
  <2> QED
    BY <1>4, <2>2 DEF Place, StepName, Power!Verbs
<1> QED
  BY <1>6, <1>7, <1>8

\* A boot has every edit its start was chained behind, none where that task was not queued; when a stop is done the machine does not
\* run; a stop of a machine that is on leaves no start pending from before it (handleStartMachine,
\* handleRestartMachine, stop, waitForPowerOff, cancelPendingStarts).
THEOREM BootsAndStops == UpkeepSpec => PowerBootsApplied
<1>1. PowerInv /\ [UpkeepNext]_upkeepVars
      => [powerExec.pc = "start" /\ powerExec'.pc = "booted"
            => powerRows[powerExec.row].saw \subseteq knobs]_(Power!powerVars)
  BY BootStep
<1>2. PowerInv /\ [UpkeepNext]_upkeepVars
      => [powerExec.pc \in {"wait", "poweroff"} /\ powerExec' = Power!Idle
            /\ powerRows'[powerExec.row].status = "done"
            => vm' \notin {"running", "paused"}]_(Power!powerVars)
  <2>1. powerExec.pc \in {"wait", "poweroff"} /\ powerExec' = Power!Idle => ~UNCHANGED powerVars
    BY StillExecutes DEF powerVars
  <2> QED
    BY <2>1, PowerTurn, StopStep
<1>3. PowerInv /\ [UpkeepNext]_upkeepVars
      => [\A r \in Request : Power!StopEnds(r) /\ ~Power!At(r, "probe")
            => Power!StartsBefore(r) = {}]_(Power!powerVars)
  <2>1. ASSUME UNCHANGED powerVars, NEW r \in Request PROVE ~Power!StopEnds(r)
    BY <2>1 DEF powerVars, Power!StopEnds, Power!Active
  <2> QED
    BY <2>1, PowerTurn, OverrideStep
<1> QED
  BY <1>1, <1>2, <1>3, PowerCorrect, PTL DEF UpkeepSpec, PowerBootsApplied, Power!BootsApplied,
    Power!StopHalts, Power!StopOverrides

----------------------------------------------------------------------------
(* A provisioning run *)

\* The rows are a line: done, then at most one that runs, then what waits or was cancelled
InLine ==
  \A i \in DOMAIN row : row[i] \in {"running", "done"} => \A j \in 1..(i - 1) : row[j] = "done"

\* A cancelled run has nothing of its own left that was there
Cascaded ==
  Provision!Cancelled
    => \A i \in DOMAIN row : i <= cut /\ chain[i].of = "run" => row[i] \notin {"pending", "running"}

ChainInv ==
  /\ row \in Seq({"pending", "running", "done", "cancelled"})
  /\ built = Len(row) /\ cut \in 0..built
  /\ InLine /\ Cascaded

LEMMA ChainInsert ==
  ASSUME ChainInv, Provision!Insert
  PROVE  ChainInv'
<1>1. /\ row' = Append(row, "pending") /\ built' = built + 1
      /\ UNCHANGED <<cut, chain, runStatus>>
  BY DEF Provision!Insert, Provision!planVars
<1>2. /\ row' \in Seq({"pending", "running", "done", "cancelled"}) /\ Len(row) \in Nat
      /\ Len(row') = Len(row) + 1 /\ row'[Len(row) + 1] = "pending"
      /\ \A i \in DOMAIN row : row'[i] = row[i]
      /\ DOMAIN row = 1 .. Len(row) /\ DOMAIN row' = 1 .. Len(row) + 1
  BY <1>1 DEF ChainInv
<1>3. InLine'
  BY <1>2 DEF InLine, ChainInv
<1>4. Cascaded'
  BY <1>1, <1>2 DEF Cascaded, ChainInv, Provision!Cancelled
<1> QED
  BY <1>1, <1>2, <1>3, <1>4 DEF ChainInv

\* One row changes: it starts after the rows before it, or it is over
LEMMA ChainMoves ==
  ASSUME ChainInv, NEW i \in DOMAIN row, NEW s \in {"running", "done", "cancelled"},
         row' = [row EXCEPT ![i] = s], UNCHANGED <<cut, chain, runStatus, built>>,
         row[i] \in {"pending", "running"},
         s = "running" => Provision!Ready(i),
         s = "done" => row[i] = "running"
  PROVE  ChainInv'
<1>1. /\ row' \in Seq({"pending", "running", "done", "cancelled"}) /\ Len(row') = Len(row)
      /\ row'[i] = s /\ \A j \in DOMAIN row : j # i => row'[j] = row[j]
      /\ Len(row) \in Nat /\ DOMAIN row = 1 .. Len(row) /\ DOMAIN row' = DOMAIN row
  BY DEF ChainInv
<1>2. s \in {"running", "done"} => \A j \in 1..(i - 1) : row[j] = "done"
  <2>1. CASE s = "done"
    BY <2>1 DEF ChainInv, InLine
  <2>2. CASE s = "running"
    <3>1. i # 1 => i - 1 \in DOMAIN row /\ row[i - 1] = "done"
      BY <1>1, <2>2 DEF Provision!Ready, Provision!DependsOn
    <3>2. i # 1 => \A j \in 1..(i - 2) : row[j] = "done"
      BY <1>1, <3>1 DEF ChainInv, InLine
    <3>3. \A j \in 1..(i - 1) : j = i - 1 \/ j \in 1..(i - 2)
      BY <1>1
    <3> QED
      BY <1>1, <3>1, <3>2, <3>3
  <2> QED
    BY <2>1, <2>2
<1>3. InLine'
  <2> SUFFICES ASSUME NEW k \in DOMAIN row, row'[k] \in {"running", "done"}, NEW j \in 1..(k - 1)
               PROVE  row'[j] = "done"
    BY <1>1 DEF InLine
  <2>1. row[j] = "done" /\ j \in DOMAIN row
    BY <1>1, <1>2 DEF ChainInv, InLine
  <2> QED
    BY <1>1, <2>1
<1>4. Cascaded'
  BY <1>1 DEF Cascaded, ChainInv, Provision!Cancelled, Provision!Ready
<1> QED
  BY <1>1, <1>3, <1>4 DEF ChainInv

LEMMA ChainCancelled ==
  ASSUME ChainInv, Provision!CancelParent, UNCHANGED <<chain, built>>
  PROVE  ChainInv'
<1>1. /\ cut' = built
      /\ row' = [i \in DOMAIN row |-> IF i \in Provision!CascadeChildren THEN "cancelled" ELSE row[i]]
      /\ Len(row) \in Nat /\ DOMAIN row = 1 .. Len(row)
  BY DEF Provision!CancelParent, ChainInv
<1>2. \A i \in DOMAIN row : row'[i] = IF i \in Provision!CascadeChildren THEN "cancelled" ELSE row[i]
  BY <1>1
<1>3. /\ row' \in Seq({"pending", "running", "done", "cancelled"}) /\ Len(row') = Len(row)
      /\ DOMAIN row' = DOMAIN row
  <2>1. \A i \in 1 .. Len(row) : row'[i] \in {"pending", "running", "done", "cancelled"}
    BY <1>1, <1>2 DEF ChainInv
  <2> QED
    BY <1>1, <2>1
<1>4. InLine'
  BY <1>2, <1>3 DEF ChainInv, InLine, Provision!CascadeChildren
<1>5. Cascaded'
  BY <1>1, <1>2, <1>3 DEF Cascaded, Provision!CascadeChildren
<1> QED
  BY <1>1, <1>3, <1>4, <1>5 DEF ChainInv

LEMMA ChainStep ==
  ASSUME ChainInv, Provision!Next \/ UNCHANGED chainVars
  PROVE  ChainInv'
<1>1. CASE Provision!Insert
  BY <1>1, ChainInsert
<1>2. CASE Provision!InsertFails \/ Provision!CancelRun
  <2>1. UNCHANGED <<chain, built>>
        /\ (Provision!CancelParent \/ UNCHANGED <<runStatus, cut, row>>)
    BY <1>2 DEF Provision!InsertFails, Provision!CancelRun, Provision!planVars
  <2> QED
    BY <2>1, ChainCancelled DEF ChainInv, InLine, Cascaded, Provision!Cancelled
<1>3. CASE Provision!Run
  <2>1. PICK i \in DOMAIN row : Provision!Ready(i) /\ row' = [row EXCEPT ![i] = "running"]
    BY <1>3 DEF Provision!Run
  <2>2. UNCHANGED <<cut, chain, runStatus, built>> /\ row[i] = "pending"
    BY <1>3, <2>1 DEF Provision!Run, Provision!planVars, Provision!Ready
  <2> QED
    BY <2>1, <2>2, ChainMoves
<1>4. CASE Provision!Succeed
  <2>1. PICK i \in DOMAIN row : row[i] = "running" /\ row' = [row EXCEPT ![i] = "done"]
    BY <1>4 DEF Provision!Succeed
  <2>2. UNCHANGED <<cut, chain, runStatus, built>>
    BY <1>4 DEF Provision!Succeed, Provision!planVars
  <2> QED
    BY <2>1, <2>2, ChainMoves
<1>5. CASE Provision!Fail
  <2>1. PICK i \in DOMAIN row : /\ row[i] \in {"pending", "running"}
                                /\ row' = [row EXCEPT ![i] = "cancelled"]
    BY <1>5 DEF Provision!Fail
  <2>2. UNCHANGED <<cut, chain, runStatus, built>>
    BY <1>5 DEF Provision!Fail, Provision!planVars
  <2> QED
    BY <2>1, <2>2, ChainMoves
<1>6. CASE UNCHANGED chainVars
  BY <1>6 DEF chainVars, ChainInv, InLine, Cascaded, Provision!Cancelled
<1> QED
  BY <1>1, <1>2, <1>3, <1>4, <1>5, <1>6 DEF Provision!Next

LEMMA ChainTurn ==
  ASSUME [UpkeepNext]_upkeepVars
  PROVE  Provision!Next \/ UNCHANGED chainVars
BY DEF UpkeepNext, upkeepVars

\* A row that starts: the step is the queue's
LEMMA ChainStarts ==
  ASSUME ChainInv, Provision!Next \/ UNCHANGED chainVars, NEW i, Provision!Starts(i)
  PROVE  /\ i \in DOMAIN row /\ \A j \in 1..(i - 1) : row[j] = "done"
         /\ row[i] = "pending" /\ row'[i] = "running" /\ ChainInv'
         /\ UNCHANGED <<cut, chain, runStatus>>
<1>1. i \in DOMAIN row /\ row[i] = "pending" /\ row'[i] = "running" /\ ChainInv'
  BY ChainStep DEF Provision!Starts
<1>2. Provision!Run
  <2>1. ~Provision!Insert
    BY <1>1 DEF Provision!Insert, ChainInv
  <2>2. ~Provision!CancelParent
    BY <1>1 DEF Provision!CancelParent
  <2>3. ~Provision!InsertFails /\ ~Provision!CancelRun
    BY <1>1, <2>2 DEF Provision!InsertFails, Provision!CancelRun
  <2>4. ~Provision!Succeed
    BY <1>1 DEF Provision!Succeed, ChainInv
  <2>5. ~Provision!Fail
    BY <1>1 DEF Provision!Fail, ChainInv
  <2>6. ~UNCHANGED chainVars
    BY <1>1 DEF chainVars
  <2> QED
    BY <2>1, <2>3, <2>4, <2>5, <2>6 DEF Provision!Next
<1>3. UNCHANGED <<cut, chain, runStatus>>
  BY <1>2 DEF Provision!Run, Provision!planVars
<1>4. \A j \in 1..(i - 1) : row[j] = "done"
  <2>1. PICK k \in DOMAIN row : row' = [row EXCEPT ![k] = "running"]
    BY <1>2 DEF Provision!Run
  <2>2. i = k
    BY <1>1, <2>1 DEF ChainInv
  <2>3. \A j \in 1..(i - 1) : row'[j] = "done"
    <3>1. DOMAIN row' = DOMAIN row
      BY <2>1
    <3>2. InLine'
      BY <1>1 DEF ChainInv
    <3> QED
      BY <1>1, <3>1, <3>2 DEF InLine
  <2>4. \A j \in 1..(i - 1) : j \in DOMAIN row /\ j # i
    BY <1>1 DEF ChainInv
  <2> QED
    BY <2>1, <2>2, <2>3, <2>4 DEF ChainInv
<1> QED
  BY <1>1, <1>3, <1>4

\* The queue runs the rows of a run one after the other, and a cancellation leaves none of the
\* run's own to be started (buildProvisionChain, cancelChildren).
THEOREM RunsInLine == UpkeepSpec => []ChainInv
<1>1. UpkeepInit => ChainInv
  <2> SUFFICES ASSUME Provision!Init PROVE ChainInv
    BY DEF UpkeepInit
  <2>1. row = <<>> /\ built = 0 /\ cut = 0
    BY DEF Provision!Init
  <2> QED
    BY <2>1 DEF ChainInv, InLine, Cascaded
<1>2. ChainInv /\ [UpkeepNext]_upkeepVars => ChainInv'
  BY ChainTurn, ChainStep
<1> QED
  BY <1>1, <1>2, PTL DEF UpkeepSpec

\* No task of a run overtakes an earlier one, and none of its own that was there starts after the
\* cancellation (buildProvisionChain's dependencies, cancelChildren).
THEOREM DocumentsInOrder == UpkeepSpec => ProvisionDocumentOrder
<1>1. ChainInv /\ [UpkeepNext]_upkeepVars
      => [\A i \in DOMAIN row : Provision!Starts(i) => \A j \in 1..(i - 1) : row[j] = "done"]_(Provision!chainVars)
  BY ChainTurn, ChainStarts
<1>2. ChainInv /\ [UpkeepNext]_upkeepVars
      => [\A i \in DOMAIN row : Provision!Starts(i) /\ i <= cut /\ chain[i].of = "run"
            => ~Provision!Cancelled]_(Provision!chainVars)
  <2>1. ASSUME ChainInv, [UpkeepNext]_upkeepVars, NEW i \in DOMAIN row, Provision!Starts(i),
               i <= cut, chain[i].of = "run"
        PROVE  ~Provision!Cancelled
    BY <2>1, ChainTurn, ChainStarts DEF ChainInv, Cascaded
  <2> QED
    BY <2>1
<1> QED
  BY <1>1, <1>2, RunsInLine, PTL DEF UpkeepSpec, ProvisionDocumentOrder, Provision!DocumentOrder,
    Provision!CancelStopsWalk

----------------------------------------------------------------------------
(* The plan of a provisioning run *)

WalkOps == {"hook", "shell", "playbook", "remote", "docker"}
PlanTask == [op : Provision!ChainOps, final : BOOLEAN, of : {"run", "anchor"}]

\* Steps of the document, all in place; the flag, if it is theirs, is on the last
Segment(s, owns) ==
  /\ s \in Seq(PlanTask)
  /\ \A i \in DOMAIN s : s[i].op \in Provision!DocumentOps /\ (s[i].final <=> owns /\ i = Len(s))

\* Tasks around the document, without the flag
Around(s) ==
  /\ s \in Seq(PlanTask)
  /\ \A i \in DOMAIN s : s[i].op \notin Provision!DocumentOps /\ ~s[i].final

\* The elements of a finite set of numbers, counted from the lowest
Below(S, i) == {j \in S : j < i}

LEMMA CountedOff ==
  ASSUME NEW S \in SUBSET Nat, IsFiniteSet(S), NEW n \in Nat, n = Cardinality(S)
  PROVE  /\ \A i \in S : Cardinality(Below(S, i)) \in 0..(n - 1)
         /\ \A i, j \in S : i < j => Cardinality(Below(S, i)) < Cardinality(Below(S, j))
         /\ \A k \in 1..n : \E i \in S : Cardinality(Below(S, i)) = k - 1
<1> DEFINE rank == [i \in S |-> Cardinality(Below(S, i))]
<1>1. ASSUME NEW i \in S
      PROVE  IsFiniteSet(Below(S, i)) /\ Cardinality(Below(S, i)) \in 0..(n - 1)
  <2>1. Below(S, i) \in SUBSET S /\ i \notin Below(S, i)
    BY DEF Below
  <2>2. IsFiniteSet(Below(S, i)) /\ Cardinality(Below(S, i)) \in Nat
    BY <2>1, FS_Subset, FS_CardinalityType
  <2>3. Cardinality(Below(S, i)) <= n /\ Cardinality(Below(S, i)) # n
    BY <2>1, FS_Subset
  <2> QED
    BY <2>2, <2>3
<1>2. ASSUME NEW i \in S, NEW j \in S, i < j
      PROVE  Cardinality(Below(S, i)) < Cardinality(Below(S, j))
  <2>1. IsFiniteSet(Below(S, j)) /\ Cardinality(Below(S, j)) \in Nat /\ Cardinality(Below(S, i)) \in Nat
    BY <1>1
  <2>2. \A h \in S : h < i => h < j
    BY <1>2
  <2>3. Below(S, i) \in SUBSET Below(S, j) /\ i \in Below(S, j) /\ i \notin Below(S, i)
    <3>1. i < j /\ ~(i < i)
      BY <1>2
    <3> QED
      BY <2>2, <3>1 DEF Below
  <2>4. Cardinality(Below(S, i)) <= Cardinality(Below(S, j)) /\ Cardinality(Below(S, i)) # Cardinality(Below(S, j))
    BY <2>1, <2>3, FS_Subset
  <2> QED
    BY <2>1, <2>4
<1>3. rank \in [S -> 0..(n - 1)] /\ \A i \in S : rank[i] = Cardinality(Below(S, i))
  BY <1>1
<1> HIDE DEF rank
<1>4. \A i, j \in S : rank[i] = rank[j] => i = j
  <2> SUFFICES ASSUME NEW i \in S, NEW j \in S, rank[i] = rank[j], i # j PROVE FALSE
    OBVIOUS
  <2>1. i < j \/ j < i
    OBVIOUS
  <2>2. Cardinality(Below(S, i)) \in Nat /\ Cardinality(Below(S, j)) \in Nat
    BY <1>1
  <2> QED
    BY <1>2, <1>3, <2>1, <2>2
<1>5. rank \in Injection(S, 0..(n - 1))
  BY <1>3, <1>4 DEF Injection, IsInjective
<1>6. IsFiniteSet(0..(n - 1)) /\ Cardinality(0..(n - 1)) = n
  <2>1. 0 \in Int /\ n - 1 \in Int /\ (n - 1) - 0 + 1 = n /\ (0 > n - 1 => n = 0)
    OBVIOUS
  <2>2. IsFiniteSet(0..(n - 1)) /\ Cardinality(0..(n - 1)) = IF 0 > n - 1 THEN 0 ELSE (n - 1) - 0 + 1
    BY <2>1, FS_Interval
  <2> QED
    BY <2>1, <2>2
<1>7. rank \in Surjection(S, 0..(n - 1))
  BY <1>5, <1>6, FS_Injection
<1>8. \A k \in 1..n : \E i \in S : rank[i] = k - 1
  <2> SUFFICES ASSUME NEW k \in 1..n PROVE \E i \in S : rank[i] = k - 1
    OBVIOUS
  <2>1. k - 1 \in 0..(n - 1)
    OBVIOUS
  <2> QED
    BY <1>7, <2>1 DEF Surjection
<1> QED
  BY <1>1, <1>2, <1>3, <1>8

\* A finite set of numbers that is not empty has its last where all others are below
LEMMA LastCounted ==
  ASSUME NEW S \in SUBSET Nat, IsFiniteSet(S), S # {}, NEW n \in Nat, n = Cardinality(S)
  PROVE  /\ n > 0
         /\ \E i \in S : \A j \in S : j <= i
         /\ \A i \in S : (\A j \in S : j <= i) <=> Cardinality(Below(S, i)) = n - 1
<1>1. n > 0
  BY FS_EmptySet
<1>2. PICK m \in S : Cardinality(Below(S, m)) = n - 1
  BY <1>1, CountedOff
<1>3. \A i \in S : Cardinality(Below(S, i)) \in 0..(n - 1)
  BY CountedOff
<1>4. \A j \in S : j <= m
  <2> SUFFICES ASSUME NEW j \in S, m < j PROVE FALSE
    OBVIOUS
  <2>1. Cardinality(Below(S, m)) < Cardinality(Below(S, j))
    BY CountedOff
  <2> QED
    BY <1>1, <1>2, <1>3, <2>1
<1>5. ASSUME NEW i \in S, Cardinality(Below(S, i)) = n - 1 PROVE i = m
  <2>1. i < m => Cardinality(Below(S, i)) < Cardinality(Below(S, m))
    BY CountedOff
  <2> QED
    BY <1>1, <1>2, <1>4, <1>5, <2>1
<1>6. ASSUME NEW i \in S, \A j \in S : j <= i PROVE i = m
  BY <1>4, <1>6
<1> QED
  BY <1>1, <1>2, <1>4, <1>5, <1>6

LEMMA ChainCount ==
  ASSUME NEW S
  PROVE  Provision!Cardinality(S) = Cardinality(S)
BY DEF Provision!Cardinality, Cardinality

\* The types of a document are all that a plan needs of it
LEMMA DocumentOK ==
  ASSUME doc \in Documents
  PROVE  /\ {doc.pre, doc.post, doc.folders, doc.back} \subseteq Nat
         /\ Len(doc.methods) \in Nat
         /\ {doc.package, doc.winrm, doc.rotate} \subseteq BOOLEAN
BY DEF Documents

LEMMA MethodsOK ==
  ASSUME Len(doc.methods) \in Nat
  PROVE  Provision!Methods \in Seq(WalkOps \cup {Provision!Skip})
<1>1. ASSUME NEW m, NEW k \in {1, 2} PROVE Provision!MethodSteps(m)[k] \in WalkOps \cup {Provision!Skip}
  BY DEF Provision!MethodSteps, WalkOps, Provision!Skip
<1>2. 2 * Len(doc.methods) \in Nat
  OBVIOUS
<1>3. \A i \in 1..(2 * Len(doc.methods)) : 2 - (i % 2) \in {1, 2}
  OBVIOUS
<1>4. \A i \in 1..(2 * Len(doc.methods)) :
        Provision!MethodSteps(doc.methods[(i + 1) \div 2])[2 - (i % 2)] \in WalkOps \cup {Provision!Skip}
  BY <1>1, <1>3
<1> QED
  BY <1>2, <1>4 DEF Provision!Methods

LEMMA WalkOK ==
  ASSUME doc \in Documents
  PROVE  Provision!Walk \in Seq(WalkOps \cup {Provision!Skip})
<1> DEFINE T == WalkOps \cup {Provision!Skip}
           M == Provision!Methods
<1>0. "hook" \in T /\ "shell" \in T /\ Provision!Skip \in T
  BY DEF WalkOps
<1>1. doc.pre \in Nat /\ doc.post \in Nat /\ Len(doc.methods) \in Nat
  BY DocumentOK
<1>2. M \in Seq(T)
  BY <1>1, MethodsOK
<1>3. Provision!Times(doc.pre, "hook") \in Seq(T) /\ Provision!Times(doc.post, "hook") \in Seq(T)
  BY <1>0, <1>1 DEF Provision!Times
<1> HIDE DEF T, M
<1>4. CASE kind = "narrowed"
  <2>1. Provision!Walk = [i \in DOMAIN M |-> IF M[i] = "shell" THEN "shell" ELSE Provision!Skip]
    BY <1>4 DEF Provision!Walk, M
  <2> QED
    BY <1>0, <1>2, <2>1 DEF T
<1>5. CASE kind # "narrowed"
  <2>1. Provision!Walk = Provision!Times(doc.pre, "hook") \o M \o Provision!Times(doc.post, "hook")
    BY <1>5 DEF Provision!Walk, M
  <2> QED
    BY <1>2, <1>3, <2>1 DEF T
<1> QED
  BY <1>4, <1>5

\* The walk's tasks: each real entry once, in order, the flag on the last
LEMMA WalkSegment ==
  ASSUME doc \in Documents, NEW owns \in BOOLEAN
  PROVE  /\ Segment(Provision!WalkTasks(owns), owns)
         /\ Len(Provision!WalkTasks(owns)) > 0 <=> Provision!LastReal > 0
<1> DEFINE S == Provision!Real
           W == Provision!Walk
           T == Provision!WalkTasks(owns)
<1>1. W \in Seq(WalkOps \cup {Provision!Skip})
  BY WalkOK
<1>2. S = {i \in DOMAIN W : W[i] # Provision!Skip}
  BY DEF Provision!Real
<1> HIDE DEF W, S
<1>3. DOMAIN W = 1..Len(W) /\ Len(W) \in Nat
  BY <1>1
<1>4. S \in SUBSET (1..Len(W)) /\ S \in SUBSET Nat /\ 0 \notin S
  BY <1>2, <1>3
<1>5. IsFiniteSet(S)
  <2>1. IsFiniteSet(1..Len(W))
    BY <1>3, FS_Interval
  <2> QED
    BY <1>4, <2>1, FS_Subset
<1>6. PICK n \in Nat : n = Cardinality(S)
  BY <1>5, FS_CardinalityType
<1>7. \A i \in S : W[i] \in WalkOps
  BY <1>1, <1>2, <1>3
<1> DEFINE rank == [i \in S |-> Cardinality(Below(S, i))]
<1>8. /\ rank \in [S -> 0..(n - 1)]
      /\ \A i, j \in S : i < j => rank[i] < rank[j]
      /\ \A k \in 1..n : \E i \in S : rank[i] = k - 1
  BY <1>4, <1>5, <1>6, CountedOff
<1>9. T = [k \in 1..n |-> Provision!Task(W[Provision!RealAt(k)],
                                         owns /\ Provision!RealAt(k) = Provision!LastReal, "run")]
  BY <1>6, ChainCount DEF Provision!WalkTasks, W, S
<1>10. \A k \in 1..n : Provision!RealAt(k) = CHOOSE i \in S : rank[i] = k - 1
  <2>1. \A i \in S : Provision!Cardinality({j \in S : j < i}) = rank[i]
    BY ChainCount DEF Below
  <2>2. \A k \in 1..n : Provision!RealAt(k) = CHOOSE i \in S : Provision!Cardinality({j \in S : j < i}) = k - 1
    BY DEF Provision!RealAt, S
  <2> QED
    BY <2>1, <2>2
<1>11. \A k \in 1..n : Provision!RealAt(k) \in S /\ rank[Provision!RealAt(k)] = k - 1
  <2> HIDE DEF rank
  <2> QED
    BY <1>8, <1>10
<1>12. S = {} => n = 0 /\ Provision!LastReal = 0
  BY <1>6, FS_EmptySet DEF Provision!LastReal, S
<1>13. S # {} => n > 0 /\ Provision!LastReal \in S /\ rank[Provision!LastReal] = n - 1
  <2> SUFFICES ASSUME S # {}
               PROVE  n > 0 /\ Provision!LastReal \in S /\ rank[Provision!LastReal] = n - 1
    OBVIOUS
  <2>1. /\ n > 0 /\ \E i \in S : \A j \in S : j <= i
        /\ \A i \in S : (\A j \in S : j <= i) => rank[i] = n - 1
    BY <1>4, <1>5, <1>6, LastCounted
  <2>2. Provision!LastReal = CHOOSE i \in S : \A j \in S : j <= i
    BY DEF Provision!LastReal, S
  <2>3. Provision!LastReal \in S /\ \A j \in S : j <= Provision!LastReal
    BY <2>1, <2>2
  <2> QED
    BY <2>1, <2>3
<1> HIDE DEF rank
<1>14. ASSUME NEW k \in 1..n PROVE Provision!RealAt(k) = Provision!LastReal <=> k = n
  <2>1. S # {} /\ Provision!LastReal \in S /\ rank[Provision!LastReal] = n - 1
    BY <1>12, <1>13
  <2>2. Provision!RealAt(k) \in S /\ rank[Provision!RealAt(k)] = k - 1
    BY <1>11
  <2>3. \A i, j \in S : rank[i] = rank[j] => i = j
    <3> SUFFICES ASSUME NEW i \in S, NEW j \in S, rank[i] = rank[j], i # j PROVE FALSE
      OBVIOUS
    <3>1. i < j \/ j < i
      BY <1>4
    <3>2. rank[i] \in Nat
      BY <1>8
    <3> QED
      BY <1>8, <3>1, <3>2
  <2> QED
    BY <2>1, <2>2, <2>3
<1> HIDE DEF T
<1>15. ASSUME NEW k \in 1..n
       PROVE  T[k] \in PlanTask /\ T[k].op \in WalkOps /\ (T[k].final <=> owns /\ k = n)
  <2> DEFINE op == W[Provision!RealAt(k)]
             f == owns /\ Provision!RealAt(k) = Provision!LastReal
  <2>1. op \in WalkOps
    BY <1>7, <1>11
  <2>2. WalkOps \subseteq Provision!ChainOps
    BY DEF WalkOps, Provision!ChainOps, Provision!DocumentOps
  <2>3. f \in BOOLEAN /\ (f <=> owns /\ k = n)
    BY <1>14
  <2>4. T[k] = Provision!Task(op, f, "run")
    BY <1>9
  <2> HIDE DEF op, f
  <2>5. T[k] = [op |-> op, final |-> f, of |-> "run"]
    BY <2>4 DEF Provision!Task
  <2>6. op \in Provision!ChainOps
    BY <2>1, <2>2
  <2>7. T[k] \in PlanTask
    BY <2>3, <2>5, <2>6 DEF PlanTask
  <2>8. T[k].op = op /\ T[k].final = f
    BY <2>5
  <2> QED
    BY <2>1, <2>3, <2>7, <2>8
<1>16. T \in Seq(PlanTask) /\ Len(T) = n /\ DOMAIN T = 1..n
  BY <1>9, <1>15
<1>17. Segment(T, owns)
  <2>1. WalkOps \subseteq Provision!DocumentOps
    BY DEF WalkOps, Provision!DocumentOps
  <2> QED
    BY <1>15, <1>16, <2>1 DEF Segment
<1>18. n > 0 <=> Provision!LastReal > 0
  <2>1. S # {} => n > 0 /\ Provision!LastReal \in 1..Len(W)
    BY <1>4, <1>13
  <2>2. S = {} => n = 0 /\ Provision!LastReal = 0
    BY <1>12
  <2> QED
    BY <1>3, <2>1, <2>2
<1>19. Segment(T, owns) /\ (Len(T) > 0 <=> Provision!LastReal > 0)
  BY <1>16, <1>17, <1>18
<1> QED
  BY <1>19 DEF T

\* Two sequences of tasks in line
LEMMA Joined ==
  ASSUME NEW s \in Seq(PlanTask), NEW t \in Seq(PlanTask)
  PROVE  /\ s \o t \in Seq(PlanTask)
         /\ Len(s \o t) = Len(s) + Len(t)
         /\ DOMAIN (s \o t) = 1..(Len(s) + Len(t))
         /\ \A i \in 1..Len(s) : (s \o t)[i] = s[i]
         /\ \A i \in 1..(Len(s) + Len(t)) : i > Len(s) =>
              i - Len(s) \in 1..Len(t) /\ (s \o t)[i] = t[i - Len(s)]
<1>1. Len(s) \in Nat /\ Len(t) \in Nat
  OBVIOUS
<1> QED
  BY <1>1

\* The document lies between two positions of a plan, the flag, if any, on its last step
Planted(s, a, e, flagged) ==
  /\ s \in Seq(PlanTask) /\ a \in Nat /\ e \in Nat /\ a <= e /\ e <= Len(s)
  /\ \A i \in DOMAIN s : s[i].op \in Provision!DocumentOps <=> a < i /\ i <= e
  /\ \A i \in DOMAIN s : s[i].final <=> flagged /\ i = e /\ a < e

\* A wait for SSH comes after the boot and before any stop
Waits(s) ==
  \A i \in DOMAIN s : s[i].op = "wait_ssh"
    => /\ \A j \in 1..(i - 1) : s[j].op # "stop"
       /\ Provision!Boots => \E j \in 1..(i - 1) : s[j].op = "start"

LEMMA DocumentGrows ==
  ASSUME NEW s, NEW t, NEW a, NEW before \in BOOLEAN, NEW owns \in BOOLEAN, NEW flagged \in BOOLEAN,
         Planted(s, a, Len(s), before), Segment(t, owns),
         Len(t) > 0 => ~before /\ (flagged <=> owns), Len(t) = 0 => (flagged <=> before)
  PROVE  Planted(s \o t, a, Len(s \o t), flagged)
<1> DEFINE u == s \o t
<1>1. s \in Seq(PlanTask) /\ t \in Seq(PlanTask) /\ a \in Nat /\ a <= Len(s)
  BY DEF Planted, Segment
<1>2. Len(s) \in Nat /\ Len(t) \in Nat /\ DOMAIN s = 1..Len(s) /\ DOMAIN t = 1..Len(t)
  BY <1>1
<1>3. /\ u \in Seq(PlanTask) /\ Len(u) = Len(s) + Len(t) /\ DOMAIN u = 1..Len(u)
      /\ \A i \in 1..Len(s) : u[i] = s[i]
      /\ \A i \in 1..Len(u) : i > Len(s) => i - Len(s) \in 1..Len(t) /\ u[i] = t[i - Len(s)]
  BY <1>1, Joined
<1> HIDE DEF u
<1>4. ASSUME NEW i \in 1..Len(u), i <= Len(s)
      PROVE  /\ u[i].op \in Provision!DocumentOps <=> a < i /\ i <= Len(u)
             /\ u[i].final <=> flagged /\ i = Len(u) /\ a < Len(u)
  <2>1. i \in DOMAIN s /\ u[i] = s[i]
    BY <1>2, <1>3, <1>4
  <2>2. /\ s[i].op \in Provision!DocumentOps <=> a < i /\ i <= Len(s)
        /\ s[i].final <=> before /\ i = Len(s) /\ a < Len(s)
    BY <2>1 DEF Planted
  <2>3. i <= Len(u) /\ (Len(t) > 0 => i # Len(u)) /\ (Len(t) = 0 => Len(u) = Len(s))
    <3>1. i \in Nat /\ Len(s) \in Nat /\ Len(t) \in Nat /\ i <= Len(s) /\ Len(u) = Len(s) + Len(t)
      BY <1>2, <1>3, <1>4
    <3> QED
      BY <3>1
  <2> QED
    BY <1>2, <1>4, <2>1, <2>2, <2>3
<1>5. ASSUME NEW i \in 1..Len(u), i > Len(s)
      PROVE  /\ u[i].op \in Provision!DocumentOps <=> a < i /\ i <= Len(u)
             /\ u[i].final <=> flagged /\ i = Len(u) /\ a < Len(u)
  <2>1. i - Len(s) \in 1..Len(t) /\ u[i] = t[i - Len(s)]
    BY <1>3, <1>5
  <2>2. /\ t[i - Len(s)].op \in Provision!DocumentOps
        /\ t[i - Len(s)].final <=> owns /\ i - Len(s) = Len(t)
    BY <1>2, <2>1 DEF Segment
  <2>3. Len(t) > 0 /\ a < i /\ i <= Len(u) /\ a < Len(u) /\ (i - Len(s) = Len(t) <=> i = Len(u))
    BY <1>1, <1>2, <1>3, <1>5, <2>1
  <2> QED
    BY <2>1, <2>2, <2>3
<1>6. a <= Len(u) /\ Len(u) \in Nat
  BY <1>1, <1>2, <1>3
<1>7. \A i \in 1..Len(u) : /\ u[i].op \in Provision!DocumentOps <=> a < i /\ i <= Len(u)
                           /\ u[i].final <=> flagged /\ i = Len(u) /\ a < Len(u)
  <2> TAKE i \in 1..Len(u)
  <2>1. i <= Len(s) \/ i > Len(s)
    BY <1>2
  <2> QED
    BY <1>4, <1>5, <2>1
<1>8. Planted(u, a, Len(u), flagged)
  BY <1>1, <1>3, <1>6, <1>7 DEF Planted
<1> QED
  BY <1>8 DEF u

LEMMA AroundGrows ==
  ASSUME NEW s, NEW t, NEW a, NEW e, NEW flagged \in BOOLEAN, Planted(s, a, e, flagged), Around(t)
  PROVE  Planted(s \o t, a, e, flagged)
<1> DEFINE u == s \o t
<1>1. s \in Seq(PlanTask) /\ t \in Seq(PlanTask) /\ a \in Nat /\ e \in Nat /\ a <= e /\ e <= Len(s)
  BY DEF Planted, Around
<1>2. Len(s) \in Nat /\ Len(t) \in Nat /\ DOMAIN s = 1..Len(s) /\ DOMAIN t = 1..Len(t)
  BY <1>1
<1>3. /\ u \in Seq(PlanTask) /\ Len(u) = Len(s) + Len(t) /\ DOMAIN u = 1..Len(u)
      /\ \A i \in 1..Len(s) : u[i] = s[i]
      /\ \A i \in 1..Len(u) : i > Len(s) => i - Len(s) \in 1..Len(t) /\ u[i] = t[i - Len(s)]
  BY <1>1, Joined
<1> HIDE DEF u
<1>4. ASSUME NEW i \in 1..Len(u), i <= Len(s)
      PROVE  /\ u[i].op \in Provision!DocumentOps <=> a < i /\ i <= e
             /\ u[i].final <=> flagged /\ i = e /\ a < e
  <2>1. i \in DOMAIN s /\ u[i] = s[i]
    BY <1>2, <1>3, <1>4
  <2> QED
    BY <2>1 DEF Planted
<1>5. ASSUME NEW i \in 1..Len(u), i > Len(s)
      PROVE  /\ u[i].op \in Provision!DocumentOps <=> a < i /\ i <= e
             /\ u[i].final <=> flagged /\ i = e /\ a < e
  <2>1. i - Len(s) \in 1..Len(t) /\ u[i] = t[i - Len(s)]
    BY <1>3, <1>5
  <2>2. t[i - Len(s)].op \notin Provision!DocumentOps /\ ~t[i - Len(s)].final
    BY <1>2, <2>1 DEF Around
  <2>3. ~(i <= e) /\ i # e
    BY <1>1, <1>2, <1>5
  <2> QED
    BY <2>1, <2>2, <2>3
<1>6. \A i \in 1..Len(u) : /\ u[i].op \in Provision!DocumentOps <=> a < i /\ i <= e
                           /\ u[i].final <=> flagged /\ i = e /\ a < e
  <2> TAKE i \in 1..Len(u)
  <2>1. i <= Len(s) \/ i > Len(s)
    BY <1>2
  <2> QED
    BY <1>4, <1>5, <2>1
<1>7. e <= Len(u)
  BY <1>1, <1>2, <1>3
<1>8. Planted(u, a, e, flagged)
  BY <1>1, <1>3, <1>6, <1>7 DEF Planted
<1> QED
  BY <1>8 DEF u

LEMMA WaitsKept ==
  ASSUME NEW s \in Seq(PlanTask), NEW t \in Seq(PlanTask), Waits(s),
         \A i \in DOMAIN t : t[i].op # "wait_ssh"
  PROVE  Waits(s \o t)
<1> DEFINE u == s \o t
<1>1. Len(s) \in Nat /\ Len(t) \in Nat /\ DOMAIN s = 1..Len(s) /\ DOMAIN t = 1..Len(t)
  OBVIOUS
<1>2. /\ DOMAIN u = 1..(Len(s) + Len(t))
      /\ \A i \in 1..Len(s) : u[i] = s[i]
      /\ \A i \in 1..(Len(s) + Len(t)) : i > Len(s) => i - Len(s) \in 1..Len(t) /\ u[i] = t[i - Len(s)]
  BY Joined
<1> HIDE DEF u
<1>3. ASSUME NEW i \in DOMAIN u, u[i].op = "wait_ssh"
      PROVE  /\ \A j \in 1..(i - 1) : u[j].op # "stop"
             /\ Provision!Boots => \E j \in 1..(i - 1) : u[j].op = "start"
  <2>1. i \in 1..(Len(s) + Len(t)) /\ i <= Len(s)
    <3>1. i > Len(s) => i - Len(s) \in DOMAIN t /\ u[i] = t[i - Len(s)]
      BY <1>1, <1>2
    <3> QED
      BY <1>1, <1>2, <1>3, <3>1
  <2>2. i \in DOMAIN s /\ s[i].op = "wait_ssh"
    BY <1>1, <1>2, <1>3, <2>1
  <2>3. \A j \in 1..(i - 1) : j \in 1..Len(s)
    BY <1>1, <2>1
  <2>4. \A j \in 1..(i - 1) : u[j] = s[j]
    BY <1>2, <2>3
  <2> QED
    BY <2>2, <2>4 DEF Waits
<1>4. Waits(u)
  BY <1>3 DEF Waits
<1> QED
  BY <1>4 DEF u

\* A plan whose parts are in their places is sound
LEMMA PlacedSound ==
  ASSUME NEW a, NEW e, NEW flagged \in BOOLEAN, Planted(chain, a, e, flagged), Waits(chain),
         kind \in {"provision", "provisioners"} /\ a < e => flagged
  PROVE  Provision!PlanSound
<1>1. chain \in Seq(PlanTask) /\ a \in Nat /\ e \in Nat /\ e <= Len(chain)
  BY DEF Planted
<1>2. DOMAIN chain = 1..Len(chain) /\ Len(chain) \in Nat
  BY <1>1
<1>3. chain \in Seq([op : Provision!ChainOps, final : BOOLEAN, of : {"run", "anchor"}])
  BY <1>1 DEF PlanTask
<1>4. /\ \A i \in DOMAIN chain : chain[i].op \in Provision!DocumentOps <=> a < i /\ i <= e
      /\ \A i \in DOMAIN chain : chain[i].final <=> flagged /\ i = e /\ a < e
  BY DEF Planted
<1>5. \A f \in DOMAIN chain : chain[f].final
        => /\ chain[f].op \in Provision!DocumentOps
           /\ \A i \in DOMAIN chain : chain[i].op \in Provision!DocumentOps => i <= f
  BY <1>1, <1>4
<1>6. kind \in {"provision", "provisioners"} /\ (\E i \in DOMAIN chain : chain[i].op \in Provision!DocumentOps)
        => \E f \in DOMAIN chain : chain[f].final
  <2> SUFFICES ASSUME kind \in {"provision", "provisioners"},
                      NEW i \in DOMAIN chain, chain[i].op \in Provision!DocumentOps
               PROVE  \E f \in DOMAIN chain : chain[f].final
    OBVIOUS
  <2>1. a < i /\ i <= e
    BY <1>4
  <2>2. a < e /\ e \in DOMAIN chain
    BY <1>1, <1>2, <2>1
  <2> QED
    BY <1>4, <2>2
<1> QED
  BY <1>3, <1>5, <1>6 DEF Waits, Provision!PlanSound

\* A bracket that has a task carries the flag, if it is its own, on its last child
LEMMA BracketSegment ==
  ASSUME NEW op \in {"sync", "syncback"}, NEW n \in Nat, NEW owns \in BOOLEAN
  PROVE  /\ Segment(Provision!Bracket(op, n, owns), owns)
         /\ Len(Provision!Bracket(op, n, owns)) > 0 <=> n > 0
<1> DEFINE head == <<Provision!Bare(op)>>
           children == [i \in 1..n |-> Provision!Task(op, owns /\ i = n, "anchor")]
           b == Provision!Bracket(op, n, owns)
<1>1. op \in Provision!ChainOps /\ op \in Provision!DocumentOps
  BY DEF Provision!ChainOps, Provision!DocumentOps
<1>2. CASE n = 0
  <2>1. b = <<>>
    BY <1>2 DEF Provision!Bracket, Provision!When
  <2>2. Segment(<<>>, owns) /\ Len(<<>>) = 0
    BY DEF Segment
  <2> QED
    BY <1>2, <2>1, <2>2
<1>3. CASE n > 0
  <2>1. b = head \o children
    BY <1>3 DEF Provision!Bracket, Provision!When
  <2>2. /\ head \in Seq(PlanTask) /\ Len(head) = 1
        /\ head[1].op = op /\ head[1].final = FALSE
    BY <1>1 DEF Provision!Bare, Provision!Task, PlanTask
  <2>10. ASSUME NEW i \in 1..n
        PROVE  /\ Provision!Task(op, owns /\ i = n, "anchor") \in PlanTask
               /\ Provision!Task(op, owns /\ i = n, "anchor").op = op
               /\ Provision!Task(op, owns /\ i = n, "anchor").final <=> owns /\ i = n
    <3> DEFINE f == owns /\ i = n
    <3>1. f \in BOOLEAN
      OBVIOUS
    <3> HIDE DEF f
    <3>2. /\ Provision!Task(op, f, "anchor") \in PlanTask
          /\ Provision!Task(op, f, "anchor").op = op
          /\ Provision!Task(op, f, "anchor").final = f
      BY <1>1, <3>1 DEF Provision!Task, PlanTask
    <3> QED
      BY <3>1, <3>2 DEF f
  <2>3. /\ children \in Seq(PlanTask) /\ Len(children) = n
        /\ \A i \in 1..n : children[i].op = op /\ (children[i].final <=> owns /\ i = n)
    BY <2>10
  <2> HIDE DEF head, children, b
  <2>4. /\ b \in Seq(PlanTask) /\ Len(b) = 1 + n /\ DOMAIN b = 1..(1 + n)
        /\ b[1] = head[1]
        /\ \A i \in 1..(1 + n) : i > 1 => i - 1 \in 1..n /\ b[i] = children[i - 1]
    <3>1. /\ b \in Seq(PlanTask) /\ Len(b) = Len(head) + Len(children)
          /\ DOMAIN b = 1..(Len(head) + Len(children))
          /\ \A i \in 1..Len(head) : b[i] = head[i]
          /\ \A i \in 1..(Len(head) + Len(children)) : i > Len(head) =>
               i - Len(head) \in 1..Len(children) /\ b[i] = children[i - Len(head)]
      BY <2>1, <2>2, <2>3, Joined
    <3>2. Len(head) = 1 /\ Len(children) = n /\ 1 \in 1..1
      BY <2>2, <2>3
    <3> QED
      BY <3>1, <3>2
  <2>5. ASSUME NEW i \in 1..(1 + n)
        PROVE  b[i].op = op /\ (b[i].final <=> owns /\ i = 1 + n)
    <3>1. CASE i = 1
      BY <1>3, <2>2, <2>4, <3>1
    <3>2. CASE i > 1
      <4>1. i - 1 \in 1..n /\ b[i] = children[i - 1]
        BY <2>4, <3>2
      <4>2. i - 1 = n <=> i = 1 + n
        OBVIOUS
      <4> QED
        BY <2>3, <4>1, <4>2
    <3> QED
      BY <3>1, <3>2
  <2>6. Segment(b, owns)
    BY <1>1, <2>4, <2>5 DEF Segment
  <2> QED
    BY <1>3, <2>4, <2>6 DEF b
<1> QED
  BY <1>2, <1>3

\* One task of the kinds around the document, or none
LEMMA AroundOne ==
  ASSUME NEW p \in BOOLEAN,
         NEW op \in {"prepare", "start", "wait_ssh", "key_rotate", "stop", "transport_remove", "anchor"}
  PROVE  Around(Provision!When(p, <<Provision!Bare(op)>>))
<1>1. op \in Provision!ChainOps /\ op \notin Provision!DocumentOps
  BY DEF Provision!ChainOps, Provision!DocumentOps
<1>2. Around(<<>>)
  BY DEF Around
<1>3. Around(<<Provision!Bare(op)>>)
  <2>1. <<Provision!Bare(op)>> \in Seq(PlanTask)
    BY <1>1 DEF Provision!Bare, Provision!Task, PlanTask
  <2>2. \A i \in DOMAIN <<Provision!Bare(op)>> : <<Provision!Bare(op)>>[i] = Provision!Bare(op)
    OBVIOUS
  <2>3. Provision!Bare(op).op = op /\ Provision!Bare(op).final = FALSE
    BY DEF Provision!Bare, Provision!Task
  <2> QED
    BY <1>1, <2>1, <2>2, <2>3 DEF Around
<1> QED
  BY <1>2, <1>3 DEF Provision!When

\* No wait for SSH among them
LEMMA NoWaitInOne ==
  ASSUME NEW p \in BOOLEAN, NEW op, op # "wait_ssh"
  PROVE  \A i \in DOMAIN Provision!When(p, <<Provision!Bare(op)>>) :
           Provision!When(p, <<Provision!Bare(op)>>)[i].op # "wait_ssh"
BY DEF Provision!When, Provision!Bare, Provision!Task

LEMMA NoWaitInSegment ==
  ASSUME NEW s, NEW owns, Segment(s, owns)
  PROVE  s \in Seq(PlanTask) /\ \A i \in DOMAIN s : s[i].op # "wait_ssh"
BY DEF Segment, Provision!DocumentOps

LEMMA AroundAround ==
  ASSUME NEW s, NEW t, Around(s), Around(t)
  PROVE  Around(s \o t)
<1> DEFINE u == s \o t
<1>1. s \in Seq(PlanTask) /\ t \in Seq(PlanTask)
  BY DEF Around
<1>2. /\ Len(s) \in Nat /\ Len(t) \in Nat /\ DOMAIN s = 1..Len(s) /\ DOMAIN t = 1..Len(t)
      /\ u \in Seq(PlanTask) /\ DOMAIN u = 1..(Len(s) + Len(t))
      /\ \A i \in 1..Len(s) : u[i] = s[i]
      /\ \A i \in 1..(Len(s) + Len(t)) : i > Len(s) => i - Len(s) \in 1..Len(t) /\ u[i] = t[i - Len(s)]
  BY <1>1, Joined
<1> HIDE DEF u
<1>3. ASSUME NEW i \in DOMAIN u PROVE u[i].op \notin Provision!DocumentOps /\ ~u[i].final
  <2>1. CASE i <= Len(s)
    <3>1. i \in DOMAIN s /\ u[i] = s[i]
      BY <1>2, <2>1
    <3> QED
      BY <3>1 DEF Around
  <2>2. CASE i > Len(s)
    <3>1. i - Len(s) \in DOMAIN t /\ u[i] = t[i - Len(s)]
      BY <1>2, <2>2
    <3> QED
      BY <3>1 DEF Around
  <2> QED
    BY <1>2, <2>1, <2>2
<1>4. Around(u)
  BY <1>2, <1>3 DEF Around
<1> QED
  BY <1>4 DEF u

LEMMA AroundPlaced ==
  ASSUME NEW s, Around(s)
  PROVE  Planted(s, Len(s), Len(s), FALSE)
<1>1. s \in Seq(PlanTask)
  BY DEF Around
<1>2. Len(s) \in Nat /\ DOMAIN s = 1..Len(s)
  BY <1>1
<1>3. ASSUME NEW i \in DOMAIN s
      PROVE  /\ s[i].op \in Provision!DocumentOps <=> Len(s) < i /\ i <= Len(s)
             /\ s[i].final <=> FALSE /\ i = Len(s) /\ Len(s) < Len(s)
  <2>1. ~(Len(s) < i)
    BY <1>2
  <2> QED
    BY <2>1 DEF Around
<1> QED
  BY <1>1, <1>2, <1>3 DEF Planted

\* What comes before the document: the wait, after the boot of a run that boots
LEMMA HeadPlaced ==
  ASSUME doc \in Documents,
         NEW h, h = Provision!When(doc.package, <<Provision!Bare("prepare")>>)
                    \o Provision!When(Provision!Boots, <<Provision!Bare("start")>>)
                    \o <<Provision!Bare("wait_ssh")>>
  PROVE  Planted(h, Len(h), Len(h), FALSE) /\ Waits(h)
<1> DEFINE p == Provision!When(doc.package, <<Provision!Bare("prepare")>>)
           b == Provision!When(Provision!Boots, <<Provision!Bare("start")>>)
           w == <<Provision!Bare("wait_ssh")>>
           c == p \o b
<1>0. h = c \o w /\ doc.package \in BOOLEAN /\ Provision!Boots \in BOOLEAN
  BY DocumentOK DEF Provision!Boots
<1>1. Around(p) /\ Around(b) /\ Around(w)
  <2>1. w = Provision!When(TRUE, <<Provision!Bare("wait_ssh")>>)
    BY DEF Provision!When
  <2> HIDE DEF w
  <2> QED
    BY <1>0, <2>1, AroundOne
<1>2. /\ \A i \in DOMAIN p : p[i].op = "prepare"
      /\ \A i \in DOMAIN b : b[i].op = "start"
      /\ Provision!Boots => 1 \in DOMAIN b /\ Len(b) = 1
      /\ Len(w) = 1
  BY DEF Provision!When, Provision!Bare, Provision!Task
<1> HIDE DEF p, b, w
<1>3. p \in Seq(PlanTask) /\ b \in Seq(PlanTask) /\ w \in Seq(PlanTask)
  BY <1>1 DEF Around
<1>4. /\ c \in Seq(PlanTask) /\ Len(c) = Len(p) + Len(b) /\ DOMAIN c = 1..(Len(p) + Len(b))
      /\ \A i \in 1..Len(p) : c[i] = p[i]
      /\ \A i \in 1..(Len(p) + Len(b)) : i > Len(p) => i - Len(p) \in 1..Len(b) /\ c[i] = b[i - Len(p)]
  BY <1>3, Joined
<1>5. Around(c)
  BY <1>1, AroundAround
<1> HIDE DEF c
<1>6. Len(p) \in Nat /\ Len(b) \in Nat /\ Len(c) \in Nat /\ DOMAIN p = 1..Len(p) /\ DOMAIN b = 1..Len(b)
  BY <1>3, <1>4
<1>7. \A i \in 1..Len(c) : c[i].op \in {"prepare", "start"}
  <2> TAKE i \in 1..Len(c)
  <2>1. CASE i <= Len(p)
    <3>1. i \in DOMAIN p /\ c[i] = p[i]
      BY <1>4, <1>6, <2>1
    <3> QED
      BY <1>2, <3>1
  <2>2. CASE i > Len(p)
    <3>1. i - Len(p) \in DOMAIN b /\ c[i] = b[i - Len(p)]
      BY <1>4, <1>6, <2>2
    <3> QED
      BY <1>2, <3>1
  <2> QED
    BY <1>6, <2>1, <2>2
<1>8. Provision!Boots => \E j \in 1..Len(c) : c[j].op = "start"
  <2> SUFFICES ASSUME Provision!Boots PROVE \E j \in 1..Len(c) : c[j].op = "start"
    OBVIOUS
  <2>1. Len(b) = 1 /\ b[1].op = "start"
    BY <1>2
  <2>2. Len(p) + 1 \in 1..(Len(p) + Len(b)) /\ Len(p) + 1 > Len(p) /\ (Len(p) + 1) - Len(p) = 1
    BY <1>6, <2>1
  <2>3. c[Len(p) + 1] = b[1]
    BY <1>4, <2>2
  <2> QED
    BY <1>4, <2>1, <2>2, <2>3
<1>9. /\ h \in Seq(PlanTask) /\ Len(h) = Len(c) + 1 /\ DOMAIN h = 1..(Len(c) + 1)
      /\ \A i \in 1..Len(c) : h[i] = c[i]
  <2>1. c \in Seq(PlanTask) /\ w \in Seq(PlanTask) /\ Len(w) = 1 /\ h = c \o w
    BY <1>0, <1>2, <1>3, <1>4
  <2>2. /\ c \o w \in Seq(PlanTask) /\ Len(c \o w) = Len(c) + Len(w)
        /\ DOMAIN (c \o w) = 1..(Len(c) + Len(w))
        /\ \A i \in 1..Len(c) : (c \o w)[i] = c[i]
    BY <2>1, Joined
  <2> QED
    BY <2>1, <2>2
<1>10. Around(h)
  BY <1>0, <1>1, <1>5, AroundAround
<1>11. Planted(h, Len(h), Len(h), FALSE)
  BY <1>10, AroundPlaced
<1>12. Waits(h)
  <2> SUFFICES ASSUME NEW i \in DOMAIN h, h[i].op = "wait_ssh"
               PROVE  /\ \A j \in 1..(i - 1) : h[j].op # "stop"
                      /\ Provision!Boots => \E j \in 1..(i - 1) : h[j].op = "start"
    BY DEF Waits
  <2>1. i \notin 1..Len(c)
    <3>1. i \in 1..Len(c) => h[i].op \in {"prepare", "start"}
      BY <1>7, <1>9
    <3> QED
      BY <3>1
  <2>2. i = Len(c) + 1
    <3>1. PICK n \in Nat : n = Len(c)
      BY <1>6
    <3>2. i \in 1..(n + 1)
      BY <1>9, <3>1
    <3>3. i \notin 1..n
      BY <2>1, <3>1
    <3>4. i = n + 1
      BY <3>2, <3>3
    <3> QED
      BY <3>1, <3>4
  <2>3. 1..(i - 1) = 1..Len(c)
    BY <1>6, <2>2
  <2>4. \A j \in 1..Len(c) : h[j].op \in {"prepare", "start"}
    BY <1>7, <1>9
  <2> QED
    BY <1>8, <1>9, <2>3, <2>4
<1> QED
  BY <1>11, <1>12

\* The plan of a full run
LEMMA FullSound ==
  ASSUME doc \in Documents, chain = Provision!FullChain
  PROVE  Provision!PlanSound
<1> DEFINE FO == Provision!FinalOwner
           h == Provision!When(doc.package, <<Provision!Bare("prepare")>>)
                \o Provision!When(Provision!Boots, <<Provision!Bare("start")>>)
                \o <<Provision!Bare("wait_ssh")>>
           t1 == Provision!Bracket("sync", Provision!Folders, FO = "sync")
           t2 == Provision!WalkTasks(FO = "walk")
           t3 == Provision!Bracket("syncback", Provision!Back, FO = "syncback")
           s1 == h \o t1
           s2 == s1 \o t2
           s3 == s2 \o t3
           t4 == Provision!When(doc.rotate /\ ~doc.winrm, <<Provision!Bare("key_rotate")>>)
           t5 == Provision!When(doc.cycle # "none", <<Provision!Bare("stop")>>)
           t6 == Provision!When(doc.cycle = "remove", <<Provision!Bare("transport_remove")>>)
           t7 == Provision!When(doc.cycle # "none", <<Provision!Bare("start")>>)
           s4 == s3 \o t4
           s5 == s4 \o t5
           s6 == s5 \o t6
           s7 == s6 \o t7
<1>1. chain = s7
  BY DEF Provision!FullChain
<1>2. Provision!Folders \in Nat /\ Provision!Back \in Nat
  BY DocumentOK DEF Provision!Folders, Provision!Back
<1>3. /\ FO \in {"sync", "walk", "syncback", "none"}
      /\ FO = "syncback" <=> Provision!Back > 0
      /\ FO = "walk" => Provision!LastReal > 0
      /\ Provision!LastReal > 0 => FO \in {"syncback", "walk"}
      /\ FO = "sync" => Provision!Folders > 0
      /\ Provision!Folders > 0 => FO # "none"
  BY DEF Provision!FinalOwner
<1>4. Planted(h, Len(h), Len(h), FALSE) /\ Waits(h)
  BY HeadPlaced
<1> HIDE DEF FO
<1>5. Segment(t1, FO = "sync") /\ (Len(t1) > 0 <=> Provision!Folders > 0)
  <2>1. (FO = "sync") \in BOOLEAN /\ "sync" \in {"sync", "syncback"}
    OBVIOUS
  <2> QED
    BY <1>2, <2>1, BracketSegment
<1>6. Segment(t2, FO = "walk") /\ (Len(t2) > 0 <=> Provision!LastReal > 0)
  <2>1. (FO = "walk") \in BOOLEAN
    OBVIOUS
  <2> QED
    BY <2>1, WalkSegment
<1>7. Segment(t3, FO = "syncback") /\ (Len(t3) > 0 <=> Provision!Back > 0)
  <2>1. (FO = "syncback") \in BOOLEAN /\ "syncback" \in {"sync", "syncback"}
    OBVIOUS
  <2> QED
    BY <1>2, <2>1, BracketSegment
<1>8. Around(t4) /\ Around(t5) /\ Around(t6) /\ Around(t7)
  <2>1. /\ (doc.rotate /\ ~doc.winrm) \in BOOLEAN
        /\ (doc.cycle # "none") \in BOOLEAN /\ (doc.cycle = "remove") \in BOOLEAN
    OBVIOUS
  <2> QED
    BY <2>1, AroundOne
<1>9. /\ \A i \in DOMAIN t4 : t4[i].op # "wait_ssh"
      /\ \A i \in DOMAIN t5 : t5[i].op # "wait_ssh"
      /\ \A i \in DOMAIN t6 : t6[i].op # "wait_ssh"
      /\ \A i \in DOMAIN t7 : t7[i].op # "wait_ssh"
  <2>1. /\ (doc.rotate /\ ~doc.winrm) \in BOOLEAN
        /\ (doc.cycle # "none") \in BOOLEAN /\ (doc.cycle = "remove") \in BOOLEAN
    OBVIOUS
  <2>2. /\ "key_rotate" # "wait_ssh"
        /\ "stop" # "wait_ssh"
        /\ "transport_remove" # "wait_ssh"
        /\ "start" # "wait_ssh"
    OBVIOUS
  <2> QED
    BY <2>1, <2>2, NoWaitInOne
<1> HIDE DEF h, t1, t2, t3, t4, t5, t6, t7
<1>10. /\ h \in Seq(PlanTask) /\ Len(h) \in Nat
       /\ t1 \in Seq(PlanTask) /\ t2 \in Seq(PlanTask) /\ t3 \in Seq(PlanTask)
       /\ t4 \in Seq(PlanTask) /\ t5 \in Seq(PlanTask) /\ t6 \in Seq(PlanTask) /\ t7 \in Seq(PlanTask)
  <2>1. h \in Seq(PlanTask)
    BY <1>4 DEF Planted
  <2> QED
    BY <2>1, <1>5, <1>6, <1>7, <1>8 DEF Segment, Around
<1>11. Len(t1) \in Nat /\ Len(t2) \in Nat /\ Len(t3) \in Nat
  BY <1>10
<1> DEFINE f1 == FO = "sync"
           f2 == FO \in {"sync", "walk"}
           f3 == FO # "none"
           o2 == FO = "walk"
           o3 == FO = "syncback"
<1>12. /\ {f1, f2, f3, o2, o3} \subseteq BOOLEAN
       /\ Len(t1) = 0 => ~f1
       /\ Len(t2) > 0 => ~f1 /\ (f2 <=> o2)
       /\ Len(t2) = 0 => (f2 <=> f1)
       /\ Len(t3) > 0 => ~f2 /\ (f3 <=> o3)
       /\ Len(t3) = 0 => (f3 <=> f2)
  BY <1>3, <1>5, <1>6, <1>7
<1>13. Segment(t1, f1) /\ Segment(t2, o2) /\ Segment(t3, o3)
  BY <1>5, <1>6, <1>7
<1> HIDE DEF f1, f2, f3, o2, o3
<1>14. f1 \in BOOLEAN /\ f2 \in BOOLEAN /\ f3 \in BOOLEAN /\ o2 \in BOOLEAN /\ o3 \in BOOLEAN
  BY <1>12
<1>15. Planted(s1, Len(h), Len(s1), f1)
  <2> HIDE DEF s1
  <2>1. Planted(h \o t1, Len(h), Len(h \o t1), f1)
    BY <1>4, <1>12, <1>13, <1>14, DocumentGrows
  <2> QED
    BY <2>1 DEF s1
<1>16. Planted(s2, Len(h), Len(s2), f2)
  <2> HIDE DEF s1, s2
  <2>1. Planted(s1 \o t2, Len(h), Len(s1 \o t2), f2)
    BY <1>15, <1>12, <1>13, <1>14, DocumentGrows
  <2> QED
    BY <2>1 DEF s2
<1>17. Planted(s3, Len(h), Len(s3), f3)
  <2> HIDE DEF s2, s3
  <2>1. Planted(s2 \o t3, Len(h), Len(s2 \o t3), f3)
    BY <1>16, <1>12, <1>13, <1>14, DocumentGrows
  <2> QED
    BY <2>1 DEF s3
<1>18. Len(h) < Len(s3) => f3
  <2>1. s1 \in Seq(PlanTask) /\ Len(s1) = Len(h) + Len(t1)
    BY <1>10, Joined
  <2> HIDE DEF s1
  <2>2. s2 \in Seq(PlanTask) /\ Len(s2) = Len(s1) + Len(t2)
    BY <1>10, <2>1, Joined
  <2> HIDE DEF s2
  <2>3. Len(s3) = Len(s2) + Len(t3)
    BY <1>10, <2>2, Joined
  <2>4. ~f3 => ~(Len(t1) > 0) /\ ~(Len(t2) > 0) /\ ~(Len(t3) > 0)
    BY <1>3, <1>5, <1>6, <1>7 DEF f3
  <2> HIDE DEF s3
  <2> QED
    BY <1>10, <1>11, <2>1, <2>2, <2>3, <2>4
<1>19. Waits(s3)
  <2>1. s1 \in Seq(PlanTask) /\ Waits(s1)
    BY <1>4, <1>5, <1>10, NoWaitInSegment, WaitsKept, Joined
  <2> HIDE DEF s1
  <2>2. s2 \in Seq(PlanTask) /\ Waits(s2)
    BY <1>6, <1>10, <2>1, NoWaitInSegment, WaitsKept, Joined
  <2> HIDE DEF s2
  <2> QED
    BY <1>7, <1>10, <2>2, NoWaitInSegment, WaitsKept, Joined
<1>20. PICK e \in Nat : e = Len(s3)
  BY <1>17 DEF Planted
<1>21. s3 \in Seq(PlanTask) /\ Planted(s3, Len(h), e, f3) /\ Waits(s3)
  BY <1>17, <1>19, <1>20 DEF Planted
<1> HIDE DEF s3
<1>22. s4 \in Seq(PlanTask) /\ Planted(s4, Len(h), e, f3) /\ Waits(s4)
  BY <1>8, <1>9, <1>10, <1>14, <1>21, AroundGrows, WaitsKept, Joined
<1> HIDE DEF s4
<1>23. s5 \in Seq(PlanTask) /\ Planted(s5, Len(h), e, f3) /\ Waits(s5)
  BY <1>8, <1>9, <1>10, <1>14, <1>22, AroundGrows, WaitsKept, Joined
<1> HIDE DEF s5
<1>24. s6 \in Seq(PlanTask) /\ Planted(s6, Len(h), e, f3) /\ Waits(s6)
  BY <1>8, <1>9, <1>10, <1>14, <1>23, AroundGrows, WaitsKept, Joined
<1> HIDE DEF s6
<1>25. Planted(s7, Len(h), e, f3) /\ Waits(s7)
  BY <1>8, <1>9, <1>10, <1>14, <1>24, AroundGrows, WaitsKept, Joined
<1> HIDE DEF s7
<1>26. Planted(chain, Len(h), e, f3) /\ Waits(chain) /\ (Len(h) < e => f3)
  BY <1>1, <1>18, <1>20, <1>25
<1> QED
  BY <1>14, <1>26, PlacedSound

\* The plans that are steps of the document only, the first maybe behind an anchor
LEMMA EmptyPlaced ==
  ASSUME NEW no \in BOOLEAN, no = FALSE
  PROVE  /\ Planted(<<>>, 0, 0, no) /\ Waits(<<>>)
         /\ Planted(<<Provision!Bare("anchor")>>, 1, 1, no) /\ Waits(<<Provision!Bare("anchor")>>)
<1> DEFINE t == <<Provision!Bare("anchor")>>
           n == <<>>
<1>1. Planted(n, 0, 0, no) /\ Waits(n)
  <2>1. n \in Seq(PlanTask) /\ Len(n) = 0 /\ DOMAIN n = {}
    OBVIOUS
  <2> HIDE DEF n
  <2> QED
    BY <2>1 DEF Planted, Waits
<1>2. Around(t)
  <2>1. t = Provision!When(TRUE, <<Provision!Bare("anchor")>>)
    BY DEF Provision!When
  <2> QED
    BY <2>1, AroundOne
<1>3. Len(t) = 1 /\ t[1].op = "anchor" /\ DOMAIN t = 1..1
  BY DEF Provision!Bare, Provision!Task
<1> HIDE DEF t
<1>4. Planted(t, 1, 1, no)
  BY <1>2, <1>3 DEF Planted, Around
<1>5. Waits(t)
  BY <1>3 DEF Waits
<1> QED
  BY <1>1, <1>4, <1>5 DEF t

LEMMA SegmentSound ==
  ASSUME NEW owns \in BOOLEAN, Segment(chain, owns), kind \in {"provision", "provisioners"} => owns
  PROVE  Provision!PlanSound
<1>1. /\ chain \in Seq(PlanTask) /\ DOMAIN chain = 1..Len(chain) /\ Len(chain) \in Nat
      /\ \A i \in DOMAIN chain : chain[i].op \in Provision!DocumentOps
                                 /\ (chain[i].final <=> owns /\ i = Len(chain))
  BY DEF Segment
<1>2. Planted(chain, 0, Len(chain), owns)
  BY <1>1 DEF Planted
<1>3. Waits(chain)
  BY NoWaitInSegment DEF Waits
<1> QED
  BY <1>1, <1>2, <1>3, PlacedSound

LEMMA AdHocSound ==
  ASSUME doc \in Documents, kind = "provisioners",
         chain = Provision!When(Provision!LastReal > 0,
                                <<Provision!Bare("anchor")>> \o Provision!WalkTasks(TRUE))
  PROVE  Provision!PlanSound
<1> DEFINE s == <<Provision!Bare("anchor")>>
           t == Provision!WalkTasks(TRUE)
<1>1. PICK no \in BOOLEAN : no = FALSE
  OBVIOUS
<1>2. PICK yes \in BOOLEAN : yes = TRUE
  OBVIOUS
<1>3. CASE Provision!LastReal > 0
  <2>1. chain = s \o t
    BY <1>3 DEF Provision!When
  <2>2. Segment(t, TRUE) /\ Len(t) > 0
    BY <1>3, WalkSegment
  <2>3. Planted(s, 1, 1, no) /\ Waits(s) /\ Len(s) = 1
    BY <1>1, EmptyPlaced
  <2> HIDE DEF s, t
  <2>4. Planted(s, 1, Len(s), no) /\ Segment(t, yes)
    BY <1>2, <2>2, <2>3
  <2>5. /\ Len(t) > 0 => ~no /\ (yes <=> yes)
        /\ Len(t) = 0 => (yes <=> no)
    BY <1>1, <2>2
  <2>6. Planted(s \o t, 1, Len(s \o t), yes)
    BY <2>4, <2>5, DocumentGrows
  <2>7. Waits(s \o t)
    BY <2>2, <2>3, NoWaitInSegment, WaitsKept DEF Planted
  <2>8. Planted(chain, 1, Len(chain), yes) /\ Waits(chain)
    BY <2>1, <2>6, <2>7
  <2>9. kind \in {"provision", "provisioners"} /\ 1 < Len(chain) => yes
    BY <1>2
  <2> QED
    BY <2>8, <2>9, PlacedSound
<1>4. CASE ~(Provision!LastReal > 0)
  <2>1. chain = <<>>
    BY <1>4 DEF Provision!When
  <2>2. Planted(chain, 0, 0, no) /\ Waits(chain)
    BY <1>1, <2>1, EmptyPlaced
  <2>3. kind \in {"provision", "provisioners"} /\ 0 < 0 => no
    OBVIOUS
  <2> QED
    BY <2>2, <2>3, PlacedSound
<1> QED
  BY <1>3, <1>4

LEMMA PlannedSound ==
  ASSUME Provision!Init PROVE Provision!PlanSound
<1>1. doc \in Documents /\ chain = Provision!Planned
      /\ kind \in {"provision", "provisioners", "narrowed", "sync", "syncback"}
  BY RunsAssumption DEF Provision!Init
<1>2. Provision!Folders \in Nat /\ Provision!Back \in Nat
  BY <1>1, DocumentOK DEF Provision!Folders, Provision!Back
<1>3. CASE kind = "provision"
  <2>1. chain = Provision!FullChain
    BY <1>1, <1>3 DEF Provision!Planned
  <2> QED
    BY <1>1, <2>1, FullSound
<1>4. CASE kind = "provisioners"
  <2>1. chain = Provision!When(Provision!LastReal > 0,
                               <<Provision!Bare("anchor")>> \o Provision!WalkTasks(TRUE))
    BY <1>1, <1>4 DEF Provision!Planned
  <2> QED
    BY <1>1, <1>4, <2>1, AdHocSound
<1>5. CASE kind = "narrowed"
  <2>1. chain = Provision!WalkTasks(FALSE)
    BY <1>1, <1>5 DEF Provision!Planned
  <2> QED
    BY <1>1, <1>5, <2>1, WalkSegment, SegmentSound
<1>6. CASE kind = "sync"
  <2>1. chain = Provision!Bracket("sync", Provision!Folders, FALSE)
    BY <1>1, <1>6 DEF Provision!Planned
  <2> QED
    BY <1>2, <1>6, <2>1, BracketSegment, SegmentSound
<1>7. CASE kind = "syncback"
  <2>1. chain = Provision!Bracket("syncback", Provision!Back, FALSE)
    BY <1>1, <1>7 DEF Provision!Planned
  <2> QED
    BY <1>2, <1>7, <2>1, BracketSegment, SegmentSound
<1> QED
  BY <1>1, <1>3, <1>4, <1>5, <1>6, <1>7

\* Every plan is sound: the flag on the document's last step and nowhere else, the wait for SSH
\* behind the boot (buildProvisionChain, planWalk, finalOwner, lastRealWalk).
THEOREM PlansSound == UpkeepSpec => []Provision!PlanSound
<1>1. UpkeepInit => Provision!PlanSound
  BY PlannedSound DEF UpkeepInit
<1>2. Provision!PlanSound /\ [UpkeepNext]_upkeepVars => Provision!PlanSound'
  <2> SUFFICES ASSUME Provision!PlanSound, [UpkeepNext]_upkeepVars PROVE Provision!PlanSound'
    OBVIOUS
  <2>1. chain' = chain /\ kind' = kind /\ skipBoot' = skipBoot /\ status' = status
    BY DEF UpkeepNext, upkeepVars, chainVars, Provision!Next, Provision!Insert, Provision!InsertFails,
           Provision!CancelRun, Provision!Run, Provision!Succeed, Provision!Fail, Provision!planVars
  <2> QED
    BY <2>1 DEF Provision!PlanSound, Provision!Boots
<1> QED
  BY <1>1, <1>2, PTL DEF UpkeepSpec

----------------------------------------------------------------------------
(* The stamp of a provisioning run *)

DoneRows == {i \in DOMAIN row : row[i] = "done"}

\* The machine runs once a start is through, or as the row said, as long as no stop is
StampInv ==
  /\ doc \in Documents /\ kind \in Runs /\ skipBoot \in BOOLEAN /\ up \in BOOLEAN
  /\ status \in {"running", "stopped"} /\ told \in BOOLEAN /\ refused \in BOOLEAN
  /\ stamped \in BOOLEAN /\ runStatus \in {"running", "cancelled"}
  /\ built <= Len(chain)
  /\ stamped <=> \E f \in DoneRows : chain[f].final
  /\ /\ \A i \in DoneRows : chain[i].op # "stop"
     /\ (told /\ status = "running") \/ \E i \in DoneRows : chain[i].op = "start"
     => up

LEMMA Elements ==
  ASSUME NEW S, NEW s \in Seq(S), NEW i \in DOMAIN s
  PROVE  s[i] \in S
OBVIOUS

LEMMA StampStart ==
  ASSUME Provision!Init, Provision!PlanSound
  PROVE  StampInv
<1>1. /\ doc \in Documents /\ kind \in Runs /\ skipBoot \in BOOLEAN /\ up \in BOOLEAN
      /\ status \in {"running", "stopped"} /\ told = ((status = "running") = up)
      /\ built = 0 /\ refused = FALSE /\ runStatus = "running" /\ row = <<>> /\ stamped = FALSE
  BY DEF Provision!Init
<1>2. DoneRows = {} /\ built <= Len(chain)
  BY <1>1 DEF DoneRows, Provision!PlanSound
<1>3. told \in BOOLEAN /\ (told /\ status = "running" => up)
  BY <1>1
<1> QED
  BY <1>1, <1>2, <1>3 DEF StampInv

\* Every step but a success leaves the tasks that are done, and the stamp
LEMMA StampIdle ==
  ASSUME ChainInv, StampInv, Provision!PlanSound,
         \/ Provision!Insert \/ Provision!InsertFails \/ Provision!CancelRun \/ Provision!Run
         \/ Provision!Fail \/ UNCHANGED chainVars
  PROVE  StampInv'
<1>1. /\ UNCHANGED <<doc, kind, skipBoot, status, told, chain, up, stamped>>
      /\ refused' \in BOOLEAN /\ runStatus' \in {"running", "cancelled"}
  BY DEF Provision!Insert, Provision!InsertFails, Provision!CancelRun, Provision!CancelParent,
         Provision!Run, Provision!Fail, Provision!planVars, chainVars, StampInv
<1>2. built' <= Len(chain)
  <2>1. built \in Nat /\ Len(chain) \in Nat /\ built <= Len(chain)
    BY DEF ChainInv, StampInv, Provision!PlanSound
  <2>2. (built' = built + 1 /\ built < Len(chain)) \/ built' = built
    BY DEF Provision!Insert, Provision!InsertFails, Provision!CancelRun, Provision!Run,
           Provision!Fail, chainVars
  <2> QED
    BY <2>1, <2>2
<1>3. DoneRows' = DoneRows
  <2>1. CASE Provision!Insert
    <3>1. row' = Append(row, "pending")
      BY <2>1 DEF Provision!Insert
    <3> QED
      BY <3>1 DEF DoneRows, ChainInv
  <2>2. CASE Provision!CancelParent
    BY <2>2 DEF Provision!CancelParent, DoneRows, Provision!CascadeChildren
  <2>3. CASE Provision!Run
    <3>1. PICK i \in DOMAIN row : row[i] = "pending" /\ row' = [row EXCEPT ![i] = "running"]
      BY <2>3 DEF Provision!Run, Provision!Ready
    <3> QED
      BY <3>1 DEF DoneRows, ChainInv
  <2>4. CASE Provision!Fail
    <3>1. PICK i \in DOMAIN row : row[i] # "done" /\ row' = [row EXCEPT ![i] = "cancelled"]
      BY <2>4 DEF Provision!Fail
    <3> QED
      BY <3>1 DEF DoneRows, ChainInv
  <2>5. CASE UNCHANGED row
    BY <2>5 DEF DoneRows
  <2> QED
    BY <2>1, <2>2, <2>3, <2>4, <2>5 DEF Provision!InsertFails, Provision!CancelRun, chainVars
<1> QED
  BY <1>1, <1>2, <1>3 DEF StampInv

LEMMA StampSuccess ==
  ASSUME ChainInv, StampInv, Provision!PlanSound, Provision!Succeed
  PROVE  StampInv'
<1>1. PICK i \in DOMAIN row :
        /\ row[i] = "running" /\ Provision!Works(chain[i].op)
        /\ row' = [row EXCEPT ![i] = "done"] /\ up' = Provision!Leaves(chain[i].op)
        /\ stamped' = (stamped \/ chain[i].final)
  BY DEF Provision!Succeed
<1>2. UNCHANGED <<doc, kind, skipBoot, status, told, chain, built, refused, runStatus>>
  BY DEF Provision!Succeed, Provision!planVars
<1>3. DoneRows' = DoneRows \cup {i}
  BY <1>1 DEF DoneRows, ChainInv
<1>4. i \in DOMAIN chain /\ chain[i].final \in BOOLEAN
  <2>1. i \in DOMAIN chain
    BY DEF ChainInv, StampInv, Provision!PlanSound
  <2>2. chain \in Seq([op : Provision!ChainOps, final : BOOLEAN, of : {"run", "anchor"}])
    BY DEF Provision!PlanSound
  <2>3. chain[i] \in [op : Provision!ChainOps, final : BOOLEAN, of : {"run", "anchor"}]
    BY <2>1, <2>2, Elements
  <2> QED
    BY <2>1, <2>3
<1>5. up' \in BOOLEAN /\ stamped' \in BOOLEAN
  BY <1>1, <1>4 DEF StampInv, Provision!Leaves
<1>6. stamped' <=> \E f \in DoneRows' : chain[f].final
  BY <1>1, <1>3, <1>4 DEF StampInv
<1>7. /\ \A k \in DoneRows' : chain[k].op # "stop"
      /\ (told /\ status = "running") \/ \E k \in DoneRows' : chain[k].op = "start"
      => up'
  <2> SUFFICES ASSUME \A k \in DoneRows' : chain[k].op # "stop",
                      (told /\ status = "running") \/ \E k \in DoneRows' : chain[k].op = "start"
               PROVE  up'
    OBVIOUS
  <2>1. CASE chain[i].op = "start"
    BY <1>1, <2>1 DEF Provision!Leaves
  <2>2. CASE chain[i].op # "start"
    <3>1. chain[i].op # "stop"
      BY <1>3
    <3>2. up' = up
      BY <1>1, <2>2, <3>1 DEF Provision!Leaves
    <3>3. up
      BY <1>3, <2>2 DEF StampInv
    <3> QED
      BY <3>2, <3>3
  <2> QED
    BY <2>1, <2>2
<1> QED
  BY <1>2, <1>5, <1>6, <1>7 DEF StampInv

LEMMA StampMeans ==
  ASSUME ChainInv, StampInv, Provision!PlanSound
  PROVE  ProvisionStampLast
<1>1. /\ Len(chain) \in Nat /\ DOMAIN chain = 1 .. Len(chain)
      /\ Len(row) \in Nat /\ DOMAIN row = 1 .. Len(row) /\ built = Len(row)
      /\ Len(row) <= Len(chain)
  BY DEF ChainInv, StampInv, Provision!PlanSound
<1>2. Provision!TypeOK
  BY <1>1 DEF ChainInv, StampInv, Provision!TypeOK
<1>3. Provision!StampLast
  <2> SUFFICES ASSUME stamped, NEW i \in DOMAIN chain, chain[i].op \in Provision!DocumentOps
               PROVE  i \in DOMAIN row /\ row[i] = "done"
    BY DEF Provision!StampLast
  <2>1. PICK f \in DoneRows : chain[f].final
    BY DEF StampInv
  <2>2. f \in DOMAIN row /\ row[f] = "done" /\ f \in DOMAIN chain
    BY <1>1, <2>1 DEF DoneRows
  <2>3. i <= f
    BY <2>1, <2>2 DEF Provision!PlanSound
  <2>4. i = f \/ i \in 1..(f - 1)
    BY <1>1, <2>2, <2>3
  <2> QED
    BY <1>1, <2>2, <2>3, <2>4 DEF ChainInv, InLine
<1>4. Provision!StampComplete
  <2> SUFFICES ASSUME kind \in {"provision", "provisioners"}, built = Len(chain),
                      \A i \in DOMAIN row : row[i] = "done"
               PROVE  stamped <=> \E i \in DOMAIN chain : chain[i].op \in Provision!DocumentOps
    BY DEF Provision!StampComplete
  <2>1. DoneRows = DOMAIN chain
    BY <1>1 DEF DoneRows
  <2> QED
    BY <2>1 DEF StampInv, Provision!PlanSound
<1>5. Provision!BootsFirst
  <2> SUFFICES ASSUME ~skipBoot, told, NEW i \in DOMAIN row, row[i] = "running",
                      chain[i].op = "wait_ssh"
               PROVE  up
    BY DEF Provision!BootsFirst, Provision!WaitsForRunning
  <2>1. i \in DOMAIN chain
    BY <1>1
  <2>2. \A j \in DoneRows : j \in 1..(i - 1)
    <3> SUFFICES ASSUME NEW j \in DoneRows, j >= i PROVE FALSE
      BY <1>1 DEF DoneRows
    <3>1. j \in DOMAIN row /\ row[j] = "done" /\ j # i
      BY DEF DoneRows
    <3>2. i \in 1..(j - 1)
      BY <1>1, <3>1
    <3> QED
      BY <3>1, <3>2 DEF ChainInv, InLine
  <2>3. \A j \in DoneRows : chain[j].op # "stop"
    BY <2>1, <2>2 DEF Provision!PlanSound
  <2>4. status = "running" \/ \E j \in DoneRows : chain[j].op = "start"
    <3> SUFFICES ASSUME status # "running" PROVE \E j \in DoneRows : chain[j].op = "start"
      OBVIOUS
    <3>1. PICK j \in 1..(i - 1) : chain[j].op = "start"
      BY <2>1 DEF Provision!PlanSound, Provision!Boots
    <3>2. j \in DOMAIN row /\ row[j] = "done"
      BY <1>1 DEF ChainInv, InLine
    <3> QED
      BY <3>1, <3>2 DEF DoneRows
  <2> QED
    BY <2>3, <2>4 DEF StampInv
<1> QED
  BY <1>2, <1>3, <1>4, <1>5 DEF ProvisionStampLast

\* A run stamps its machine exactly when the whole document is through, and waits for SSH only
\* once the machine runs, whatever fails or is cancelled meanwhile (finalOwner, stampIfFinal,
\* cancelChildren).
THEOREM StampProvesDocument == UpkeepSpec => []ProvisionStampLast
<1>1. UpkeepInit /\ Provision!PlanSound => StampInv
  BY StampStart DEF UpkeepInit
<1>2. ChainInv /\ StampInv /\ Provision!PlanSound /\ [UpkeepNext]_upkeepVars => StampInv'
  BY ChainTurn, StampIdle, StampSuccess DEF Provision!Next
<1>3. ChainInv /\ StampInv /\ Provision!PlanSound => ProvisionStampLast
  BY StampMeans
<1> QED
  BY <1>1, <1>2, <1>3, RunsInLine, PlansSound, PTL DEF UpkeepSpec

----------------------------------------------------------------------------
(* Scheduled snapshots: the inductive invariant                            *)

SnapName == [prefix : Rotation!Prefixes, key : 0..(MaxClock + 2)]
SlotStatus == {"pending", "running"}

\* A take has a retention by number or by age, or none
TakeRow ==
  {t \in [op : {"take"}, prefix : Rotation!Prefixes, keep : Nat, age : Nat,
          by : {"rotation", "operator", "tier"}, quiesce : BOOLEAN, status : SlotStatus] : t.keep = 0 \/ t.age = 0}
DeleteRow == [op : {"delete"}, name : SnapName, status : SlotStatus]

SnapPlace == {"idle", "name", "take", "list", "prune", "pruneSome", "skipped", "delete"}

RotationShape ==
  /\ snapRows \in [Rotation!Slots -> {Rotation!NoTake} \cup TakeRow \cup DeleteRow]
  /\ snapExec \in [row : 0..MaxRows, pc : SnapPlace,
                   name : [prefix : Rotation!Prefixes \cup {""}, key : 0..(MaxClock + 2)],
                   doomed : SUBSET SnapName]
  /\ snaps \subseteq SnapName /\ IsFiniteSet(snaps)

RotationSets ==
  /\ policy \in [type : Rotation!Policies, quiesce : BOOLEAN]
  /\ clock \in 0..MaxClock /\ ticked \in BOOLEAN /\ lastFire \in 0..(MaxClock + 1)
  /\ posts \in 0..MaxPosts /\ frozen \in {"no", "held", "left"}

Scheduled(t) == t.op = "take" /\ t.by = "rotation"

RotorInv ==
  /\ rotor.pc \in {"idle", "first", "second", "create"}
  /\ rotor.pc # "idle"
       => rotor.want \in TakeRow /\ Scheduled(rotor.want) /\ rotor.want.status = "pending"
  /\ DOMAIN rotor = {"pc", "want"}

\* What the tick has listed without a hit stays away while it goes on
ScheduledInv ==
  /\ \A i, j \in Rotation!Slots : Scheduled(snapRows[i]) /\ Scheduled(snapRows[j]) => i = j
  /\ rotor.pc \in {"second", "create"}
       => \A i \in Rotation!Slots : Scheduled(snapRows[i]) => snapRows[i].status = "running"
  /\ rotor.pc = "create" => \A i \in Rotation!Slots : ~Scheduled(snapRows[i])

OfPrefix(names, p) == {s \in names : s.prefix = p}

\* Each of the doomed may go, of the names that there are at a minute
MayGo(t, doomed, names, now) ==
  IF t.keep > 0
  THEN \A s \in doomed : /\ s.prefix = t.prefix
                         /\ Cardinality(Rotation!Newer(s, OfPrefix(names, t.prefix))) >= t.keep
  ELSE \A s \in doomed : s.key + t.age < now

\* Without them the retention is kept
Remain(t, doomed, names) ==
  t.keep > 0 => Cardinality(OfPrefix(names, t.prefix) \ doomed) <= t.keep

SnapExecInv ==
  /\ frozen = "held" => snapExec.pc = "take"
  /\ snapExec.pc = "take" => snapExec.name \in SnapName
  /\ IF snapExec.pc = "idle" THEN snapExec.row = 0
     ELSE LET task == snapRows[snapExec.row] IN
          /\ snapExec.row \in Rotation!Slots /\ task.status = "running"
          /\ task \in (IF snapExec.pc = "delete" THEN DeleteRow ELSE TakeRow)
          /\ snapExec.pc \in {"prune", "pruneSome"} => MayGo(task, snapExec.doomed, snaps, clock)
          /\ snapExec.pc = "prune" => Remain(task, snapExec.doomed, snaps)

RotationInv == RotationShape /\ RotationSets /\ RotorInv /\ ScheduledInv /\ SnapExecInv

----------------------------------------------------------------------------
(* The newest, the oldest, a free slot *)

LEMMA Least ==
  ASSUME NEW T, T \in SUBSET Nat, T # {}
  PROVE  \E m \in T : \A k \in T : m <= k
<1>1. PICK R : R = OpToRel(<, Nat)
  OBVIOUS
<1>2. R = {ss \in Nat \X Nat : ss[1] < ss[2]}
  BY <1>1 DEF OpToRel
<1>3. IsWellFoundedOn(R, Nat)
  BY <1>1, NatLessThanWellFounded
<1>4. PICK x \in T : \A y \in T : ~(<<y, x>> \in R)
  BY <1>3, WFMin
<1>5. \A y \in T : <<y, x>> \in R <=> y < x
  BY <1>2
<1> QED
  <2>1. x \in Nat /\ \A y \in T : y \in Nat /\ ~(y < x)
    BY <1>4, <1>5
  <2> QED
    BY <2>1

LEMMA OldestName ==
  ASSUME NEW S, S \subseteq SnapName, S # {}
  PROVE  \E s \in S : \A x \in S : x.key >= s.key
<1> DEFINE keys == {s.key : s \in S}
<1>1. \A s \in S : s.key \in Nat
  BY RotationAssumption DEF SnapName
<1>2. keys \in SUBSET Nat /\ keys # {}
  BY <1>1
<1>3. PICK m \in keys : \A k \in keys : m <= k
  BY <1>2, Least
<1>4. PICK s \in S : s.key = m
  BY <1>3
<1>5. \A x \in S : x.key \in keys /\ x.key \in Nat
  BY <1>1
<1> QED
  BY <1>1, <1>3, <1>4, <1>5

\* SnapshotRotation counts with FiniteSets of its own
LEMMA SameCardinality ==
  ASSUME NEW S
  PROVE  Rotation!Cardinality(S) = Cardinality(S)
BY DEF Rotation!Cardinality, Cardinality

\* In a set of names of one prefix, those with fewer than n newer ones are n at most
LEMMA Newest ==
  ASSUME NEW p, NEW M, M \subseteq SnapName, IsFiniteSet(M), \A s \in M : s.prefix = p, NEW n \in Nat
  PROVE  Cardinality({s \in M : ~(Cardinality(Rotation!Newer(s, M)) >= n)}) <= n
<1> DEFINE K == {s \in M : ~(Cardinality(Rotation!Newer(s, M)) >= n)}
<1>1. K \subseteq M /\ K \subseteq SnapName /\ IsFiniteSet(K)
  BY FS_Subset
<1>2. CASE K = {}
  BY <1>2, FS_EmptySet
<1>3. CASE K # {}
  <2>1. PICK s \in K : \A x \in K : x.key >= s.key
    BY <1>1, <1>3, OldestName
  <2>2. \A x \in M : x.key \in Nat /\ x = [prefix |-> p, key |-> x.key]
    BY RotationAssumption DEF SnapName
  <2>3. ASSUME NEW x \in K \ {s} PROVE x \in M /\ x.key > s.key
    <3>1. x \in M /\ s \in M /\ x.key >= s.key /\ x # s
      BY <2>1
    <3>2. x.key # s.key
      BY <2>2, <3>1
    <3> QED
      BY <2>2, <3>1, <3>2
  <2>4. K \ {s} \subseteq Rotation!Newer(s, M)
    BY <2>3 DEF Rotation!Newer
  <2>5. IsFiniteSet(Rotation!Newer(s, M))
    BY FS_Subset DEF Rotation!Newer
  <2>6. Cardinality(K \ {s}) <= Cardinality(Rotation!Newer(s, M)) /\ IsFiniteSet(K \ {s})
    BY <2>4, <2>5, FS_Subset
  <2>7. /\ Cardinality(K \ {s}) \in Nat /\ Cardinality(Rotation!Newer(s, M)) \in Nat
        /\ Cardinality(K) \in Nat
    BY <1>1, <2>5, <2>6, FS_CardinalityType
  <2>8. Cardinality(K \ {s}) = Cardinality(K) - 1
    BY <1>1, <2>1, FS_RemoveElement
  <2>9. ~(Cardinality(Rotation!Newer(s, M)) >= n)
    BY <2>1
  <2>10. Cardinality(K) <= n
    BY <2>6, <2>7, <2>8, <2>9
  <2> QED
    BY <2>10
<1> QED
  BY <1>2, <1>3

\* A row goes to a free slot
LEMMA Enqueued ==
  ASSUME NEW t, Rotation!Enqueue(t)
  PROVE  \E i \in Rotation!Free : snapRows' = [snapRows EXCEPT ![i] = t]
<1>1. Rotation!Free \in SUBSET Nat /\ Rotation!Free # {}
  BY RotationAssumption DEF Rotation!Enqueue, Rotation!Free, Rotation!Slots
<1>2. \E i \in Rotation!Free : \A j \in Rotation!Free : i <= j
  BY <1>1, Least
<1> QED
  BY <1>2 DEF Rotation!Enqueue

----------------------------------------------------------------------------
(* What a prune may delete                                                 *)

\* The surplus may go, and without it the retention is kept
LEMMA ByRetention ==
  ASSUME NEW t \in TakeRow, t.keep > 0, NEW names, names \subseteq SnapName, IsFiniteSet(names),
         NEW now
  PROVE  LET surplus == Rotation!Surplus(OfPrefix(names, t.prefix), t.keep)
         IN MayGo(t, surplus, names, now) /\ Remain(t, surplus, names)
<1> DEFINE M == OfPrefix(names, t.prefix)
           surplus == Rotation!Surplus(M, t.keep)
<1>1. M \subseteq SnapName /\ M \subseteq names /\ \A s \in M : s.prefix = t.prefix
  BY DEF OfPrefix
<1>2. IsFiniteSet(M) /\ t.keep \in Nat
  BY <1>1, FS_Subset DEF TakeRow
<1>3. surplus = {s \in M : Cardinality(Rotation!Newer(s, M)) >= t.keep}
  BY SameCardinality DEF Rotation!Surplus
<1>4. Cardinality(M \ surplus) <= t.keep
  <2>1. M \ surplus = {s \in M : ~(Cardinality(Rotation!Newer(s, M)) >= t.keep)}
    BY <1>3
  <2> QED
    BY <1>1, <1>2, <2>1, Newest
<1>5. \A s \in surplus : s \in M /\ Cardinality(Rotation!Newer(s, M)) >= t.keep
  BY <1>3
<1> QED
  BY <1>1, <1>4, <1>5 DEF MayGo, Remain

\* To delete the oldest of the doomed takes nothing newer from the others
LEMMA OldestGoes ==
  ASSUME NEW t \in TakeRow, NEW names, names \subseteq SnapName, NEW doomed, doomed \subseteq SnapName,
         NEW s \in doomed, \A x \in doomed : x.key >= s.key, NEW now,
         MayGo(t, doomed, names, now)
  PROVE  MayGo(t, doomed \ {s}, names \ {s}, now) /\ MayGo(t, doomed \ {s}, names, now)
<1>1. MayGo(t, doomed \ {s}, names, now)
  BY DEF MayGo
<1>2. ASSUME NEW x \in doomed \ {s}
      PROVE  Rotation!Newer(x, OfPrefix(names \ {s}, t.prefix)) = Rotation!Newer(x, OfPrefix(names, t.prefix))
  <2>1. ~(s.key > x.key)
    BY RotationAssumption DEF SnapName
  <2> QED
    BY <2>1 DEF Rotation!Newer, OfPrefix
<1>3. MayGo(t, doomed \ {s}, names \ {s}, now)
  BY <1>1, <1>2 DEF MayGo
<1> QED
  BY <1>1, <1>3

LEMMA RemainGoes ==
  ASSUME NEW t \in TakeRow, NEW names, names \subseteq SnapName, IsFiniteSet(names),
         NEW doomed, NEW s, Remain(t, doomed, names)
  PROVE  Remain(t, doomed \ {s}, names \ {s})
<1>1. OfPrefix(names \ {s}, t.prefix) \ (doomed \ {s}) = OfPrefix(names, t.prefix) \ (doomed \cup {s})
  BY DEF OfPrefix
<1>2. OfPrefix(names, t.prefix) \ (doomed \cup {s}) \subseteq OfPrefix(names, t.prefix) \ doomed
  OBVIOUS
<1>3. IsFiniteSet(OfPrefix(names, t.prefix) \ doomed)
  BY FS_Subset DEF OfPrefix
<1>4. PICK many, few : /\ many = Cardinality(OfPrefix(names, t.prefix) \ doomed)
                       /\ few = Cardinality(OfPrefix(names, t.prefix) \ (doomed \cup {s}))
  OBVIOUS
<1>5. few <= many /\ few \in Nat /\ many \in Nat
  BY <1>2, <1>3, <1>4, FS_Subset, FS_CardinalityType
<1> QED
  BY <1>1, <1>4, <1>5 DEF Remain, TakeRow

\* Later, more is of age; by number nothing changes
LEMMA LaterGoes ==
  ASSUME NEW t \in TakeRow, NEW names, NEW doomed, doomed \subseteq SnapName,
         NEW now \in Nat, NEW later \in Nat, now <= later, MayGo(t, doomed, names, now)
  PROVE  MayGo(t, doomed, names, later)
BY RotationAssumption DEF MayGo, TakeRow, SnapName

----------------------------------------------------------------------------
(* What a step leaves alone                                                *)

\* A slot changes that is not the one that runs, or nothing runs
LEMMA SnapExecKept ==
  ASSUME RotationInv, RotationShape', UNCHANGED <<snapExec, snaps, frozen>>,
         clock' \in Nat, clock <= clock',
         snapExec.pc # "idle" => snapRows'[snapExec.row] = snapRows[snapExec.row]
  PROVE  SnapExecInv'
<1>1. CASE snapExec.pc = "idle"
  BY <1>1 DEF RotationInv, SnapExecInv
<1>2. CASE snapExec.pc # "idle"
  <2>1. PICK task : task = snapRows[snapExec.row]
    OBVIOUS
  <2>2. task = snapRows'[snapExec.row]
    BY <1>2, <2>1
  <2>3. /\ snapExec.row \in Rotation!Slots /\ task.status = "running"
        /\ task \in (IF snapExec.pc = "delete" THEN DeleteRow ELSE TakeRow)
        /\ snapExec.pc \in {"prune", "pruneSome"} => MayGo(task, snapExec.doomed, snaps, clock)
        /\ snapExec.pc = "prune" => Remain(task, snapExec.doomed, snaps)
    BY <1>2, <2>1 DEF RotationInv, SnapExecInv
  <2>4. snapExec.doomed \subseteq SnapName /\ clock \in Nat
    <3>1. snapExec.doomed \subseteq SnapName
      BY DEF RotationInv, RotationShape
    <3>2. MaxClock \in Nat /\ clock \in 0..MaxClock
      BY RotationAssumption DEF RotationInv, RotationSets
    <3> QED
      BY <3>1, <3>2
  <2>5. PICK now, later, doomed, names :
           now = clock /\ later = clock' /\ doomed = snapExec.doomed /\ names = snaps
    OBVIOUS
  <2>6. snapExec.pc \in {"prune", "pruneSome"} => MayGo(task, doomed, names, later)
    BY <2>3, <2>4, <2>5, LaterGoes
  <2>7. /\ frozen = "held" => snapExec.pc = "take"
        /\ snapExec.pc = "take" => snapExec.name \in SnapName
    BY DEF RotationInv, SnapExecInv
  <2> QED
    BY <1>2, <2>2, <2>3, <2>5, <2>6, <2>7 DEF SnapExecInv
<1> QED
  BY <1>1, <1>2

\* A slot changes, and takes no scheduled take in
LEMMA ScheduledKept ==
  ASSUME RotationInv, UNCHANGED rotor, NEW i \in Rotation!Slots, NEW t,
         snapRows' = [snapRows EXCEPT ![i] = t],
         Scheduled(t) => /\ Scheduled(snapRows[i])
                         /\ snapRows[i].status = "running" => t.status = "running"
  PROVE  ScheduledInv'
<1>1. \A j \in Rotation!Slots : snapRows'[j] = IF j = i THEN t ELSE snapRows[j]
  BY DEF RotationInv, RotationShape
<1>2. \A j \in Rotation!Slots : Scheduled(snapRows'[j])
        => /\ Scheduled(snapRows[j])
           /\ snapRows[j].status = "running" => snapRows'[j].status = "running"
  BY <1>1
<1>3. ScheduledInv
  BY DEF RotationInv
<1> QED
  BY <1>2, <1>3 DEF ScheduledInv

LEMMA RotorKept ==
  ASSUME RotationInv, UNCHANGED rotor
  PROVE  RotorInv'
BY DEF RotationInv, RotorInv

----------------------------------------------------------------------------
(* The tick                                                                *)

LEMMA WantedRow ==
  ASSUME RotationInv, NEW w \in Rotation!Wanted
  PROVE  w \in TakeRow /\ Scheduled(w) /\ w.status = "pending"
<1>1. \E p \in Rotation!Prefixes, keep \in Nat, age \in Nat :
         w = Rotation!Take(p, keep, age, "rotation", policy.quiesce) /\ (keep = 0 \/ age = 0)
  BY RotationAssumption DEF Rotation!Wanted, Rotation!DueTier, Rotation!Prefixes, Rotation!Tiers
<1>2. policy.quiesce \in BOOLEAN
  BY DEF RotationInv, RotationSets
<1> QED
  BY <1>1, <1>2 DEF Rotation!Take, TakeRow, SlotStatus, Scheduled

LEMMA TickSteps ==
  ASSUME RotationInv, Rotation!Minute \/ Rotation!Tick \/ Rotation!Dedup
  PROVE  RotationInv'
<1>1. /\ UNCHANGED <<policy, snapRows, snapExec, snaps, frozen, posts>>
      /\ clock' = clock \/ (clock < MaxClock /\ clock' = clock + 1)
      /\ UNCHANGED <<clock, ticked, lastFire>> \/ (ticked' \in BOOLEAN /\ lastFire' \in {lastFire, clock + 1})
  BY DEF Rotation!Minute, Rotation!Tick, Rotation!Dedup
<1>2. RotationSets'
  BY <1>1, RotationAssumption DEF RotationInv, RotationSets
<1>3. RotationShape'
  BY <1>1 DEF RotationInv, RotationShape
<1>4. clock' \in Nat /\ clock <= clock'
  BY <1>1, RotationAssumption DEF RotationInv, RotationSets
<1>5. SnapExecInv'
  BY <1>1, <1>3, <1>4, SnapExecKept
<1>6. CASE UNCHANGED rotor
  BY <1>1, <1>2, <1>3, <1>5, <1>6 DEF RotationInv, RotorInv, ScheduledInv
<1>7. CASE Rotation!Tick /\ ~UNCHANGED rotor
  <2>1. PICK w \in Rotation!Wanted : rotor' = [pc |-> "first", want |-> w]
    BY <1>7 DEF Rotation!Tick
  <2>2. RotorInv' /\ rotor'.pc = "first"
    BY <2>1, WantedRow DEF RotorInv
  <2>3. ScheduledInv'
    BY <1>1, <2>2 DEF RotationInv, ScheduledInv
  <2> QED
    BY <1>2, <1>3, <1>5, <2>2, <2>3 DEF RotationInv
<1>8. CASE Rotation!Dedup /\ Rotation!Queued(Rotation!ListedStatus(rotor.pc))
  <2>1. rotor' = [pc |-> "idle", want |-> Rotation!NoTake]
    BY <1>8 DEF Rotation!Dedup
  <2>2. RotorInv' /\ rotor'.pc = "idle"
    BY <2>1 DEF RotorInv
  <2>3. ScheduledInv'
    BY <1>1, <2>2 DEF RotationInv, ScheduledInv
  <2> QED
    BY <1>2, <1>3, <1>5, <2>2, <2>3 DEF RotationInv
<1>9. CASE Rotation!Dedup /\ ~Rotation!Queued(Rotation!ListedStatus(rotor.pc))
  <2>1. /\ rotor.pc \in {"first", "second"} /\ rotor'.want = rotor.want
        /\ rotor'.pc = IF rotor.pc = "first" THEN "second" ELSE "create"
        /\ DOMAIN rotor' = {"pc", "want"}
    BY <1>9 DEF Rotation!Dedup, RotationInv, RotorInv
  <2>2. RotorInv'
    BY <2>1 DEF RotationInv, RotorInv
  <2>3. PICK listed : listed = Rotation!ListedStatus(rotor.pc)
    OBVIOUS
  <2>4. \A i \in Rotation!Slots : Scheduled(snapRows[i]) => snapRows[i].status # listed
    BY <1>9, <2>3 DEF Rotation!Queued, Scheduled
  <2>5. ASSUME NEW i \in Rotation!Slots, Scheduled(snapRows[i]) PROVE snapRows[i].status \in SlotStatus
    <3>1. snapRows[i] \in {Rotation!NoTake} \cup TakeRow \cup DeleteRow
      BY DEF RotationInv, RotationShape
    <3> QED
      BY <2>5, <3>1 DEF Scheduled, Rotation!NoTake, TakeRow, DeleteRow
  <2>6. CASE rotor.pc = "first"
    <3>1. \A i \in Rotation!Slots : Scheduled(snapRows[i]) => snapRows[i].status = "running"
      BY <2>3, <2>4, <2>5, <2>6 DEF Rotation!ListedStatus, SlotStatus
    <3>2. rotor'.pc = "second"
      BY <2>1, <2>6
    <3>3. ScheduledInv'
      BY <1>1, <3>1, <3>2 DEF RotationInv, ScheduledInv
    <3> QED
      BY <1>2, <1>3, <1>5, <2>2, <3>3 DEF RotationInv
  <2>7. CASE rotor.pc = "second"
    <3>1. \A i \in Rotation!Slots : ~Scheduled(snapRows[i])
      BY <2>3, <2>4, <2>7 DEF Rotation!ListedStatus, RotationInv, ScheduledInv
    <3>2. rotor'.pc = "create"
      BY <2>1, <2>7
    <3>3. ScheduledInv'
      BY <1>1, <3>1, <3>2 DEF RotationInv, ScheduledInv
    <3> QED
      BY <1>2, <1>3, <1>5, <2>2, <3>3 DEF RotationInv
  <2> QED
    BY <2>1, <2>6, <2>7
<1> QED
  BY <1>6, <1>7, <1>8, <1>9 DEF Rotation!Minute

----------------------------------------------------------------------------
(* What adds a row, or takes a waiting one away                            *)

LEMMA SlotSet ==
  ASSUME RotationInv, NEW i \in Rotation!Slots, NEW t, t \in {Rotation!NoTake} \cup TakeRow \cup DeleteRow,
         snapRows' = [snapRows EXCEPT ![i] = t], UNCHANGED <<snapExec, snaps, frozen, clock>>,
         snapExec.pc # "idle" => snapExec.row # i
  PROVE  RotationShape' /\ SnapExecInv'
<1>1. RotationShape'
  BY DEF RotationInv, RotationShape
<1>2. snapExec.pc # "idle" => snapRows'[snapExec.row] = snapRows[snapExec.row]
  BY DEF RotationInv, RotationShape, SnapExecInv
<1>3. clock' \in Nat /\ clock <= clock'
  BY RotationAssumption DEF RotationInv, RotationSets
<1> QED
  BY <1>1, <1>2, <1>3, SnapExecKept

LEMMA RowAdded ==
  ASSUME RotationInv, NEW t \in TakeRow \cup DeleteRow, Rotation!Enqueue(t),
         UNCHANGED <<snapExec, snaps, frozen, clock>>
  PROVE  /\ RotationShape' /\ SnapExecInv'
         /\ \E i \in Rotation!Slots : snapRows[i] = Rotation!NoTake /\ snapRows' = [snapRows EXCEPT ![i] = t]
<1>1. PICK i \in Rotation!Free : snapRows' = [snapRows EXCEPT ![i] = t]
  BY Enqueued
<1>2. i \in Rotation!Slots /\ snapRows[i] = Rotation!NoTake
  BY DEF Rotation!Free
<1>3. snapExec.pc # "idle" => snapExec.row # i
  BY <1>2 DEF RotationInv, SnapExecInv, Rotation!NoTake, TakeRow, DeleteRow
<1> QED
  BY <1>1, <1>2, <1>3, SlotSet

LEMMA CreateSteps ==
  ASSUME RotationInv, Rotation!Create
  PROVE  RotationInv'
<1>1. PICK t : t = rotor.want
  OBVIOUS
<1>2. /\ rotor.pc = "create" /\ Rotation!Enqueue(t) /\ rotor' = [pc |-> "idle", want |-> Rotation!NoTake]
      /\ UNCHANGED <<policy, clock, ticked, lastFire, snapExec, snaps, frozen, posts>>
  BY <1>1 DEF Rotation!Create
<1>3. t \in TakeRow \cup DeleteRow
  BY <1>1, <1>2 DEF RotationInv, RotorInv
<1>4. PICK i \in Rotation!Slots : snapRows' = [snapRows EXCEPT ![i] = t]
  BY <1>2, <1>3, RowAdded
<1>5. RotationShape' /\ SnapExecInv' /\ RotationSets' /\ RotorInv'
  BY <1>2, <1>3, RowAdded DEF RotationInv, RotationSets, RotorInv
<1>6. \A j \in Rotation!Slots \ {i} : ~Scheduled(snapRows'[j])
  BY <1>2, <1>4 DEF RotationInv, RotationShape, ScheduledInv
<1>7. ScheduledInv'
  BY <1>2, <1>6 DEF ScheduledInv
<1> QED
  BY <1>5, <1>7 DEF RotationInv

LEMMA PostSteps ==
  ASSUME RotationInv, NEW t \in TakeRow \cup DeleteRow, ~Scheduled(t), Rotation!Post(t),
         UNCHANGED <<policy, clock, ticked, lastFire, rotor, snapExec, snaps, frozen>>
  PROVE  RotationInv'
<1>1. Rotation!Enqueue(t) /\ posts < MaxPosts /\ posts' = posts + 1
  BY DEF Rotation!Post
<1>2. PICK i \in Rotation!Slots : snapRows' = [snapRows EXCEPT ![i] = t]
  BY <1>1, RowAdded
<1>3. RotationShape' /\ SnapExecInv'
  BY <1>1, RowAdded
<1>4. RotationSets'
  BY <1>1, RotationAssumption DEF RotationInv, RotationSets
<1>5. ScheduledInv' /\ RotorInv'
  BY <1>2, ScheduledKept, RotorKept
<1> QED
  BY <1>3, <1>4, <1>5 DEF RotationInv

LEMMA OperatorSteps ==
  ASSUME RotationInv, Rotation!Operator
  PROVE  RotationInv'
<1>1. CASE Rotation!PostTake
  <2>1. PICK p \in Named, q \in BOOLEAN : Rotation!Post(Rotation!Take(p, 0, 0, "operator", q))
    BY <1>1 DEF Rotation!PostTake
  <2>2. PICK t : t = Rotation!Take(p, 0, 0, "operator", q)
    OBVIOUS
  <2>3. t \in TakeRow \cup DeleteRow /\ ~Scheduled(t)
    BY <2>2 DEF Rotation!Take, TakeRow, Scheduled, SlotStatus, Rotation!Prefixes
  <2> QED
    BY <1>1, <2>1, <2>2, <2>3, PostSteps DEF Rotation!PostTake
<1>2. CASE Rotation!PostPrefixTake
  <2>1. PICK q \in BOOLEAN : Rotation!Post(Rotation!Take("hourly", Keep, 0, "tier", q))
    BY <1>2 DEF Rotation!PostPrefixTake
  <2>2. PICK t : t = Rotation!Take("hourly", Keep, 0, "tier", q)
    OBVIOUS
  <2>3. t \in TakeRow \cup DeleteRow /\ ~Scheduled(t)
    BY <2>2, RotationAssumption
      DEF Rotation!Take, TakeRow, Scheduled, SlotStatus, Rotation!Prefixes, Rotation!Tiers
  <2> QED
    BY <1>2, <2>1, <2>2, <2>3, PostSteps DEF Rotation!PostPrefixTake
<1>3. CASE Rotation!PostDelete
  <2>1. PICK s \in snaps : Rotation!Post([op |-> "delete", name |-> s, status |-> "pending"])
    BY <1>3 DEF Rotation!PostDelete
  <2>2. PICK t : t = [op |-> "delete", name |-> s, status |-> "pending"]
    OBVIOUS
  <2>3. s \in SnapName
    BY DEF RotationInv, RotationShape
  <2>4. t \in TakeRow \cup DeleteRow /\ ~Scheduled(t)
    BY <2>2, <2>3 DEF DeleteRow, Scheduled, SlotStatus
  <2> QED
    BY <1>3, <2>1, <2>2, <2>4, PostSteps DEF Rotation!PostDelete
<1>4. CASE Rotation!CancelPending
  <2>1. PICK i \in Rotation!PendingRows : snapRows' = [snapRows EXCEPT ![i] = Rotation!NoTake]
    BY <1>4 DEF Rotation!CancelPending
  <2>2. /\ UNCHANGED <<policy, clock, ticked, lastFire, rotor, snapExec, snaps, frozen>>
        /\ posts < MaxPosts /\ posts' = posts + 1
    BY <1>4 DEF Rotation!CancelPending
  <2>3. i \in Rotation!Slots /\ snapRows[i].status = "pending"
    BY DEF Rotation!PendingRows
  <2>4. snapExec.pc # "idle" => snapExec.row # i
    BY <2>3 DEF RotationInv, SnapExecInv
  <2>5. RotationShape' /\ SnapExecInv'
    BY <2>1, <2>2, <2>3, <2>4, SlotSet
  <2>6. RotationSets'
    BY <2>2, RotationAssumption DEF RotationInv, RotationSets
  <2>7. ~Scheduled(Rotation!NoTake)
    BY DEF Scheduled, Rotation!NoTake
  <2>8. ScheduledInv' /\ RotorInv'
    BY <2>1, <2>2, <2>3, <2>7, ScheduledKept, RotorKept
  <2> QED
    BY <2>5, <2>6, <2>8 DEF RotationInv
<1> QED
  BY <1>1, <1>2, <1>3, <1>4 DEF Rotation!Operator

----------------------------------------------------------------------------
(* The executor                                                            *)

\* What is known of the row that executes
LEMMA SnapTask ==
  ASSUME RotationInv, snapExec.pc # "idle", NEW task, task = Rotation!Row
  PROVE  /\ snapExec.row \in Rotation!Slots /\ task = snapRows[snapExec.row]
         /\ task \in (IF snapExec.pc = "delete" THEN DeleteRow ELSE TakeRow)
         /\ task.status = "running" /\ snapExec.pc \in SnapPlace /\ snapExec.doomed \subseteq SnapName
         /\ snapExec.pc \in {"prune", "pruneSome"} => MayGo(task, snapExec.doomed, snaps, clock)
         /\ snapExec.pc = "prune" => Remain(task, snapExec.doomed, snaps)
BY DEF RotationInv, RotationShape, SnapExecInv, Rotation!Row

LEMMA RunStep ==
  ASSUME RotationInv, Rotation!Run
  PROVE  RotationInv'
<1>1. PICK i \in Rotation!Slots \ Rotation!Free :
        /\ snapRows' = [snapRows EXCEPT ![i].status = "running"]
        /\ snapExec' = [Rotation!Idle EXCEPT !.row = i,
                                             !.pc = IF snapRows[i].op = "take" THEN "name" ELSE "delete"]
  BY DEF Rotation!Run
<1>2. snapExec.pc = "idle" /\ UNCHANGED <<policy, clock, ticked, lastFire, rotor, snaps, frozen, posts>>
  BY DEF Rotation!Run
<1>3. PICK old : old = snapRows[i]
  OBVIOUS
<1>4. PICK t : t = [old EXCEPT !.status = "running"]
  OBVIOUS
<1>5. old \in TakeRow \/ old \in DeleteRow
  BY <1>3 DEF RotationInv, RotationShape, Rotation!Free
<1>6. /\ t \in (IF old.op = "take" THEN TakeRow ELSE DeleteRow) /\ t.status = "running"
      /\ Scheduled(t) => Scheduled(old)
  <2>1. CASE old \in TakeRow
    BY <1>4, <2>1 DEF TakeRow, SlotStatus, Scheduled
  <2>2. CASE old \in DeleteRow
    BY <1>4, <2>2 DEF DeleteRow, SlotStatus, Scheduled
  <2> QED
    BY <1>5, <2>1, <2>2
<1>7. snapRows' = [snapRows EXCEPT ![i] = t]
  BY <1>1, <1>3, <1>4 DEF RotationInv, RotationShape
<1>8. /\ snapExec'.row = i /\ snapExec'.pc = (IF old.op = "take" THEN "name" ELSE "delete")
      /\ snapExec' \in [row : 0..MaxRows, pc : SnapPlace,
                        name : [prefix : Rotation!Prefixes \cup {""}, key : 0..(MaxClock + 2)],
                        doomed : SUBSET SnapName]
  <2>1. i \in 0..MaxRows
    BY RotationAssumption DEF Rotation!Slots
  <2>2. Rotation!Idle.name \in [prefix : Rotation!Prefixes \cup {""}, key : 0..(MaxClock + 2)]
    BY RotationAssumption DEF Rotation!Idle
  <2> QED
    BY <1>1, <1>3, <2>1, <2>2 DEF Rotation!Idle, SnapPlace
<1>9. snapRows'[i] = t /\ RotationShape'
  BY <1>2, <1>6, <1>7, <1>8 DEF RotationInv, RotationShape
<1>10. SnapExecInv'
  <2>1. frozen # "held"
    BY <1>2 DEF RotationInv, SnapExecInv
  <2> QED
    BY <1>2, <1>6, <1>8, <1>9, <2>1 DEF SnapExecInv
<1>11. ScheduledInv' /\ RotorInv'
  BY <1>2, <1>3, <1>6, <1>7, ScheduledKept, RotorKept
<1> QED
  BY <1>2, <1>9, <1>10, <1>11 DEF RotationInv, RotationSets

\* The task ends
LEMMA SnapEnds ==
  ASSUME RotationInv, snapExec.pc # "idle", Rotation!Over, frozen' \in {"no", "left"},
         UNCHANGED <<policy, clock, ticked, lastFire, rotor, posts>>,
         snaps' \subseteq SnapName, IsFiniteSet(snaps')
  PROVE  RotationInv'
<1>1. PICK i \in Rotation!Slots : i = snapExec.row
  BY SnapTask
<1>2. snapRows' = [snapRows EXCEPT ![i] = Rotation!NoTake] /\ snapExec' = Rotation!Idle
  BY <1>1 DEF Rotation!Over
<1>3. Rotation!Idle \in [row : 0..MaxRows, pc : SnapPlace,
                         name : [prefix : Rotation!Prefixes \cup {""}, key : 0..(MaxClock + 2)],
                         doomed : SUBSET SnapName]
  BY RotationAssumption DEF Rotation!Idle, SnapPlace
<1>4. RotationShape'
  BY <1>2, <1>3 DEF RotationInv, RotationShape
<1>5. SnapExecInv'
  BY <1>2 DEF SnapExecInv, Rotation!Idle
<1>6. ~Scheduled(Rotation!NoTake)
  BY DEF Scheduled, Rotation!NoTake
<1>7. ScheduledInv' /\ RotorInv'
  BY <1>2, <1>6, ScheduledKept, RotorKept
<1> QED
  BY <1>4, <1>5, <1>7 DEF RotationInv, RotationSets

\* The take goes on to a place
LEMMA SnapGoes ==
  ASSUME RotationInv, snapExec.pc \notin {"idle", "delete"}, NEW place \in SnapPlace \ {"idle", "delete"},
         NEW name \in [prefix : Rotation!Prefixes \cup {""}, key : 0..(MaxClock + 2)],
         NEW doomed \in SUBSET SnapName, NEW task, task = Rotation!Row,
         snapExec' = [snapExec EXCEPT !.pc = place, !.name = name, !.doomed = doomed],
         UNCHANGED <<policy, clock, ticked, lastFire, rotor, snapRows, posts>>,
         snaps' \subseteq SnapName, IsFiniteSet(snaps'), frozen' \in {"no", "held", "left"},
         frozen' = "held" => place = "take",
         place = "take" => name \in SnapName,
         place \in {"prune", "pruneSome"} => MayGo(task, doomed, snaps', clock),
         place = "prune" => Remain(task, doomed, snaps')
  PROVE  RotationInv'
<1>1. /\ snapExec'.row = snapExec.row /\ snapExec'.pc = place /\ snapExec'.name = name
      /\ snapExec'.doomed = doomed
      /\ snapExec' \in [row : 0..MaxRows, pc : SnapPlace,
                        name : [prefix : Rotation!Prefixes \cup {""}, key : 0..(MaxClock + 2)],
                        doomed : SUBSET SnapName]
  BY DEF RotationInv, RotationShape
<1>2. RotationShape'
  BY <1>1 DEF RotationInv, RotationShape
<1>3. /\ snapExec.row \in Rotation!Slots /\ task = snapRows[snapExec.row]
      /\ task \in TakeRow /\ task.status = "running"
  BY SnapTask
<1>4. SnapExecInv'
  BY <1>1, <1>3 DEF SnapExecInv
<1>5. ScheduledInv' /\ RotorInv'
  BY RotorKept DEF RotationInv, ScheduledInv
<1> QED
  BY <1>2, <1>4, <1>5 DEF RotationInv, RotationSets

\* Where nothing is deleted
LEMMA SnapRests ==
  ASSUME RotationInv, snapExec.pc \notin {"idle", "delete"}, NEW place \in {"list", "skipped"},
         snapExec' = [snapExec EXCEPT !.pc = place],
         UNCHANGED <<policy, clock, ticked, lastFire, rotor, snapRows, posts>>,
         snaps' \subseteq SnapName, IsFiniteSet(snaps'), frozen' \in {"no", "left"}
  PROVE  RotationInv'
<1>1. PICK task, name, doomed :
         task = Rotation!Row /\ name = snapExec.name /\ doomed = snapExec.doomed
  OBVIOUS
<1>2. /\ name \in [prefix : Rotation!Prefixes \cup {""}, key : 0..(MaxClock + 2)]
      /\ doomed \in SUBSET SnapName
      /\ snapExec' = [snapExec EXCEPT !.pc = place, !.name = name, !.doomed = doomed]
  BY <1>1 DEF RotationInv, RotationShape
<1>3. place \in SnapPlace \ {"idle", "delete"} /\ place \notin {"take", "prune", "pruneSome"}
  BY DEF SnapPlace
<1> QED
  BY <1>1, <1>2, <1>3, SnapGoes

LEMMA NameSteps ==
  ASSUME RotationInv, Rotation!NameAndFreeze
  PROVE  RotationInv'
<1>1. PICK task, doomed : task = Rotation!Row /\ doomed = snapExec.doomed
  OBVIOUS
<1>2. PICK key \in IF task.by = "operator" THEN Rotation!OwnKeys ELSE {clock} :
        snapExec' = [snapExec EXCEPT !.pc = "take", !.name = [prefix |-> task.prefix, key |-> key]]
  BY <1>1 DEF Rotation!NameAndFreeze
<1>3. /\ snapExec.pc = "name" /\ frozen' \in Rotation!Freezes(task.quiesce)
      /\ UNCHANGED <<policy, clock, ticked, lastFire, rotor, snapRows, snaps, posts>>
  BY <1>1 DEF Rotation!NameAndFreeze
<1>4. task \in TakeRow /\ doomed \subseteq SnapName
  BY <1>1, <1>3, SnapTask
<1>5. key \in 0..(MaxClock + 2)
  BY <1>2, RotationAssumption DEF Rotation!OwnKeys, RotationInv, RotationSets
<1>6. PICK name : name = [prefix |-> task.prefix, key |-> key]
  OBVIOUS
<1>7. name \in SnapName /\ name \in [prefix : Rotation!Prefixes \cup {""}, key : 0..(MaxClock + 2)]
  BY <1>4, <1>5, <1>6 DEF TakeRow, SnapName
<1>8. snapExec' = [snapExec EXCEPT !.pc = "take", !.name = name, !.doomed = doomed]
  BY <1>1, <1>2, <1>6 DEF RotationInv, RotationShape
<1>9. frozen' \in {"no", "held", "left"}
  BY <1>3 DEF RotationInv, RotationSets, Rotation!Freezes
<1>10. snaps' \subseteq SnapName /\ IsFiniteSet(snaps')
  BY <1>3 DEF RotationInv, RotationShape
<1>11. "take" \in SnapPlace \ {"idle", "delete"}
  BY DEF SnapPlace
<1> QED
  BY <1>1, <1>3, <1>4, <1>7, <1>8, <1>9, <1>10, <1>11, SnapGoes

LEMMA TakeSteps ==
  ASSUME RotationInv, Rotation!TakeSnapshot
  PROVE  RotationInv'
<1>1. PICK task, doomed, name : task = Rotation!Row /\ doomed = snapExec.doomed /\ name = snapExec.name
  OBVIOUS
<1>2. PICK taken \in BOOLEAN :
        /\ frozen' \in Rotation!Thawed(taken)
        /\ snaps' = IF taken THEN snaps \cup {name} ELSE snaps
        /\ \/ snapExec' = [snapExec EXCEPT !.pc = "list"] /\ UNCHANGED snapRows
           \/ Rotation!Over
  BY <1>1 DEF Rotation!TakeSnapshot
<1>3. frozen' \in {"no", "left"}
  BY <1>2 DEF Rotation!Thawed, RotationInv, RotationSets
<1>4. /\ snapExec.pc = "take"
      /\ snaps' \in {snaps, snaps \cup {name}}
      /\ UNCHANGED <<policy, clock, ticked, lastFire, rotor, posts>>
      /\ \/ snapExec' = [snapExec EXCEPT !.pc = "list"] /\ UNCHANGED snapRows
         \/ Rotation!Over
  BY <1>2 DEF Rotation!TakeSnapshot
<1>5. name \in SnapName /\ snaps \subseteq SnapName /\ IsFiniteSet(snaps)
  BY <1>1, <1>4 DEF RotationInv, RotationShape, SnapExecInv
<1>6. snaps' \subseteq SnapName /\ IsFiniteSet(snaps')
  <2>1. IsFiniteSet(snaps \cup {name})
    BY <1>5, FS_AddElement
  <2> QED
    BY <1>4, <1>5, <2>1
<1>7. CASE Rotation!Over
  BY <1>4, <1>6, <1>7, <1>3, SnapEnds
<1>8. CASE snapExec' = [snapExec EXCEPT !.pc = "list"] /\ UNCHANGED snapRows
  <2>1. snapExec.pc \notin {"idle", "delete"}
    BY <1>4
  <2> QED
    BY <1>4, <1>6, <1>8, <1>3, <2>1, SnapRests
<1> QED
  BY <1>4, <1>7, <1>8

LEMMA ListSteps ==
  ASSUME RotationInv, Rotation!ListNames
  PROVE  RotationInv'
<1>1. PICK task, names, now, name : /\ task = Rotation!Row /\ names = snaps /\ now = clock
                                    /\ name = snapExec.name
  OBVIOUS
<1>2. /\ snapExec.pc = "list"
      /\ UNCHANGED <<policy, clock, ticked, lastFire, rotor, snapRows, snaps, frozen, posts>>
  BY DEF Rotation!ListNames
<1>3. task \in TakeRow
  BY <1>1, <1>2, SnapTask
<1>4. names \subseteq SnapName /\ IsFiniteSet(names) /\ snaps' = names /\ clock' = now
  BY <1>1, <1>2 DEF RotationInv, RotationShape
<1>5. /\ name \in [prefix : Rotation!Prefixes \cup {""}, key : 0..(MaxClock + 2)]
      /\ "prune" \in SnapPlace \ {"idle", "delete"} /\ frozen' \in {"no", "left"}
  BY <1>1, <1>2 DEF SnapPlace, RotationInv, RotationShape, SnapExecInv, RotationSets
<1>6. CASE snapExec' = [snapExec EXCEPT !.pc = "skipped"]
  BY <1>2, <1>4, <1>5, <1>6, SnapRests
<1>7. ASSUME NEW doomed, snapExec' = [snapExec EXCEPT !.pc = "prune", !.doomed = doomed],
             doomed \subseteq SnapName, MayGo(task, doomed, names, now), Remain(task, doomed, names)
      PROVE  RotationInv'
  <2>1. snapExec' = [snapExec EXCEPT !.pc = "prune", !.name = name, !.doomed = doomed]
    BY <1>1, <1>7 DEF RotationInv, RotationShape
  <2>2. PICK place : place = "prune"
    OBVIOUS
  <2>3. /\ doomed \in SUBSET SnapName /\ place # "take" /\ place \in SnapPlace \ {"idle", "delete"}
        /\ snapExec' = [snapExec EXCEPT !.pc = place, !.name = name, !.doomed = doomed]
        /\ MayGo(task, doomed, snaps', clock) /\ Remain(task, doomed, snaps')
    BY <1>1, <1>4, <1>5, <1>7, <2>1, <2>2
  <2>4. /\ snaps' \subseteq SnapName /\ IsFiniteSet(snaps')
        /\ snapExec.pc \notin {"idle", "delete"}
    BY <1>2, <1>4
  <2> QED
    BY <1>1, <1>2, <1>5, <2>3, <2>4, SnapGoes
<1>8. PICK M, surplus, aged :
        /\ M = OfPrefix(names, task.prefix) /\ surplus = Rotation!Surplus(M, task.keep)
        /\ aged = {s \in M : s.key + task.age < now}
  OBVIOUS
<1>9. Rotation!Matching(task.prefix) = M
  BY <1>1, <1>8 DEF Rotation!Matching, OfPrefix
<1>10. CASE task.keep > 0
  <2>1. task.age = 0 /\ ~(task.age > 0)
    BY <1>3, <1>10 DEF TakeRow
  <2>2. MayGo(task, surplus, names, now) /\ Remain(task, surplus, names)
    BY <1>3, <1>4, <1>8, <1>10, ByRetention
  <2>3. surplus \subseteq SnapName
    BY <1>4, <1>8 DEF Rotation!Surplus, OfPrefix
  <2>4. \/ snapExec' = [snapExec EXCEPT !.pc = "prune", !.doomed = surplus]
        \/ snapExec' = [snapExec EXCEPT !.pc = "skipped"]
    BY <1>1, <1>8, <1>9, <1>10, <2>1 DEF Rotation!ListNames
  <2> QED
    BY <1>6, <1>7, <2>2, <2>3, <2>4
<1>11. CASE ~(task.keep > 0)
  <2>1. PICK doomed \in SUBSET aged :
           \/ snapExec' = [snapExec EXCEPT !.pc = "prune", !.doomed = doomed]
           \/ snapExec' = [snapExec EXCEPT !.pc = "skipped"]
    <3>1. Rotation!Aged(M) \subseteq aged
      BY <1>1, <1>8 DEF Rotation!Aged
    <3>2. M \ {} = M
      OBVIOUS
    <3> QED
      BY <1>1, <1>9, <1>11, <3>1, <3>2 DEF Rotation!ListNames
  <2>2. doomed \subseteq SnapName /\ \A s \in doomed : s.key + task.age < now
    BY <1>4, <1>8, <2>1 DEF OfPrefix
  <2>3. MayGo(task, doomed, names, now) /\ Remain(task, doomed, names)
    BY <1>11, <2>2 DEF MayGo, Remain
  <2> QED
    BY <1>6, <1>7, <2>1, <2>2, <2>3
<1> QED
  BY <1>10, <1>11

\* A name is deleted, or its deletion fails; the prune goes on at a place
LEMMA OneGoes ==
  ASSUME RotationInv, snapExec.pc \in {"prune", "pruneSome"}, NEW place \in {"prune", "pruneSome"},
         NEW s \in snapExec.doomed, \A x \in snapExec.doomed : x.key >= s.key,
         snaps' = snaps \ {s} \/ (snaps' = snaps /\ place = "pruneSome"),
         place = "prune" => snapExec.pc = "prune",
         snapExec' = [snapExec EXCEPT !.doomed = @ \ {s}, !.pc = place],
         UNCHANGED <<policy, clock, ticked, lastFire, rotor, snapRows, frozen, posts>>
  PROVE  RotationInv'
<1>1. PICK task, names, now, name, doomed :
        /\ task = Rotation!Row /\ names = snaps /\ now = clock
        /\ name = snapExec.name /\ doomed = snapExec.doomed
  OBVIOUS
<1>2. /\ task \in TakeRow /\ doomed \subseteq SnapName /\ MayGo(task, doomed, names, now)
      /\ snapExec.pc = "prune" => Remain(task, doomed, names)
  BY <1>1, SnapTask
<1>3. /\ names \subseteq SnapName /\ IsFiniteSet(names)
      /\ name \in [prefix : Rotation!Prefixes \cup {""}, key : 0..(MaxClock + 2)]
  BY <1>1 DEF RotationInv, RotationShape
<1>4. MayGo(task, doomed \ {s}, names \ {s}, now) /\ MayGo(task, doomed \ {s}, names, now)
  BY <1>1, <1>2, <1>3, OldestGoes
<1>5. place = "prune" => Remain(task, doomed \ {s}, names \ {s})
  BY <1>2, <1>3, RemainGoes
<1>6. IsFiniteSet(names \ {s})
  BY <1>3, FS_RemoveElement
<1>7. snaps' \subseteq SnapName /\ IsFiniteSet(snaps')
  BY <1>1, <1>3, <1>6
<1>8. MayGo(task, doomed \ {s}, snaps', clock)
  BY <1>1, <1>4
<1>9. place = "prune" => Remain(task, doomed \ {s}, snaps')
  BY <1>1, <1>5
<1>10. snapExec' = [snapExec EXCEPT !.pc = place, !.name = name, !.doomed = doomed \ {s}]
  BY <1>1 DEF RotationInv, RotationShape
<1>11. frozen' \in {"no", "left"}
  BY DEF RotationInv, RotationSets, SnapExecInv
<1>12. PICK rest \in SUBSET SnapName : rest = doomed \ {s}
  BY <1>2
<1>13. place \in SnapPlace \ {"idle", "delete"} /\ place # "take" /\ snapExec.pc \notin {"idle", "delete"}
  BY DEF SnapPlace
<1> QED
  BY <1>1, <1>3, <1>7, <1>8, <1>9, <1>10, <1>11, <1>12, <1>13, SnapGoes

LEMMA PruneSteps ==
  ASSUME RotationInv, Rotation!Prune \/ Rotation!PruneOn
  PROVE  RotationInv'
<1>1. CASE Rotation!Prune
  <2>1. PICK s \in snapExec.doomed :
          /\ \A x \in snapExec.doomed : x.key >= s.key
          /\ \/ snaps' = snaps \ {s} /\ snapExec' = [snapExec EXCEPT !.doomed = @ \ {s}]
             \/ snaps' = snaps /\ snapExec' = [snapExec EXCEPT !.doomed = @ \ {s}, !.pc = "pruneSome"]
    BY <1>1 DEF Rotation!Prune
  <2>2. /\ snapExec.pc = "prune"
        /\ UNCHANGED <<policy, clock, ticked, lastFire, rotor, snapRows, frozen, posts>>
    BY <1>1 DEF Rotation!Prune
  <2>3. PICK place \in {"prune", "pruneSome"} :
          /\ snapExec' = [snapExec EXCEPT !.doomed = @ \ {s}, !.pc = place]
          /\ snaps' = snaps \ {s} \/ (snaps' = snaps /\ place = "pruneSome")
    <3>1. CASE snaps' = snaps \ {s} /\ snapExec' = [snapExec EXCEPT !.doomed = @ \ {s}]
      <4>1. snapExec' = [snapExec EXCEPT !.doomed = @ \ {s}, !.pc = "prune"]
        BY <2>2, <3>1 DEF RotationInv, RotationShape
      <4> QED
        BY <3>1, <4>1
    <3> QED
      BY <2>1, <3>1
  <2> QED
    BY <2>1, <2>2, <2>3, OneGoes
<1>2. CASE Rotation!PruneOn
  <2>1. PICK s \in snapExec.doomed :
          /\ \A x \in snapExec.doomed : x.key >= s.key
          /\ snaps' = snaps \ {s} \/ snaps' = snaps
          /\ snapExec' = [snapExec EXCEPT !.doomed = @ \ {s}]
    BY <1>2 DEF Rotation!PruneOn
  <2>2. /\ snapExec.pc = "pruneSome"
        /\ UNCHANGED <<policy, clock, ticked, lastFire, rotor, snapRows, frozen, posts>>
    BY <1>2 DEF Rotation!PruneOn
  <2>3. PICK place \in {"prune", "pruneSome"} : place = "pruneSome"
    OBVIOUS
  <2>4. snapExec' = [snapExec EXCEPT !.doomed = @ \ {s}, !.pc = place]
    BY <2>1, <2>2, <2>3 DEF RotationInv, RotationShape
  <2> QED
    BY <2>1, <2>2, <2>3, <2>4, OneGoes
<1> QED
  BY <1>1, <1>2

LEMMA EndSteps ==
  ASSUME RotationInv, Rotation!Pruned \/ Rotation!DeleteSnapshot
  PROVE  RotationInv'
<1>1. /\ snapExec.pc \in {"skipped", "prune", "pruneSome", "delete"} /\ Rotation!Over
      /\ UNCHANGED <<policy, clock, ticked, lastFire, rotor, frozen, posts>>
      /\ snaps' = snaps \/ snaps' \in {snaps, snaps \ {Rotation!Row.name}}
  BY DEF Rotation!Pruned, Rotation!DeleteSnapshot
<1>2. frozen' \in {"no", "left"} /\ snapExec.pc # "idle"
  BY <1>1 DEF RotationInv, RotationSets, SnapExecInv
<1>3. PICK gone : snaps' = snaps \/ snaps' = snaps \ {gone}
  BY <1>1
<1>4. snaps \subseteq SnapName /\ IsFiniteSet(snaps) /\ IsFiniteSet(snaps \ {gone})
  BY FS_RemoveElement DEF RotationInv, RotationShape
<1>5. snaps' \subseteq SnapName /\ IsFiniteSet(snaps')
  BY <1>3, <1>4
<1> QED
  BY <1>1, <1>2, <1>5, SnapEnds

----------------------------------------------------------------------------
(* The rotation as a whole                                                 *)

LEMMA RotationStarts ==
  ASSUME Rotation!Init
  PROVE  RotationInv
<1>1. /\ policy \in [type : Rotation!Policies, quiesce : BOOLEAN]
      /\ clock = 0 /\ ticked = FALSE /\ lastFire = 0 /\ snaps = {} /\ frozen = "no" /\ posts = 0
      /\ rotor = [pc |-> "idle", want |-> Rotation!NoTake]
      /\ snapRows = [i \in Rotation!Slots |-> Rotation!NoTake] /\ snapExec = Rotation!Idle
  BY DEF Rotation!Init
<1>2. 0 \in 0..MaxClock /\ 0 \in 0..(MaxClock + 1) /\ 0 \in 0..(MaxClock + 2) /\ 0 \in 0..MaxRows /\ 0 \in 0..MaxPosts
  BY RotationAssumption
<1>3. RotationSets /\ RotationShape
  <2>1. RotationSets
    BY <1>1, <1>2 DEF RotationSets
  <2>2. RotationShape
    BY <1>1, <1>2, FS_EmptySet DEF RotationShape, Rotation!Idle, SnapPlace
  <2> QED
    BY <2>1, <2>2
<1>4. RotorInv /\ SnapExecInv
  BY <1>1 DEF RotorInv, SnapExecInv, Rotation!Idle
<1>5. ScheduledInv
  BY <1>1 DEF ScheduledInv, Scheduled, Rotation!NoTake
<1> QED
  BY <1>3, <1>4, <1>5 DEF RotationInv

LEMMA RotationStep ==
  ASSUME RotationInv, Rotation!Next
  PROVE  RotationInv'
BY TickSteps, CreateSteps, OperatorSteps, RunStep, NameSteps, TakeSteps, ListSteps, PruneSteps, EndSteps
  DEF Rotation!Next, Rotation!Rotor, Rotation!Executor

LEMMA RotationSame ==
  ASSUME RotationInv, UNCHANGED rotationVars
  PROVE  RotationInv'
<1>1. UNCHANGED <<policy, clock, ticked, lastFire, rotor, snapRows, snapExec, snaps, frozen, posts>>
  BY DEF rotationVars
<1>2. RotationShape' /\ RotationSets' /\ RotorInv'
  BY <1>1 DEF RotationInv, RotationShape, RotationSets, RotorInv
<1>3. ScheduledInv' /\ SnapExecInv'
  BY <1>1 DEF RotationInv, ScheduledInv, SnapExecInv
<1> QED
  BY <1>2, <1>3 DEF RotationInv

LEMMA RotationTurn ==
  ASSUME [UpkeepNext]_upkeepVars
  PROVE  Rotation!Next \/ UNCHANGED rotationVars
BY DEF UpkeepNext, upkeepVars

LEMMA RotationTypes ==
  ASSUME RotationInv
  PROVE  Rotation!TypeOK /\ Rotation!RotationSingle /\ Rotation!FrozenOnlyDuringTake
<1>1. Rotation!TypeOK
  <2>1. IF snapExec.pc = "idle" THEN snapExec.row = 0
        ELSE Rotation!Row # Rotation!NoTake /\ Rotation!Row.status = "running"
    BY DEF RotationInv, SnapExecInv, Rotation!Row, Rotation!NoTake, TakeRow, DeleteRow
  <2>2. DOMAIN snapRows = Rotation!Slots /\ snapExec.row \in 0..MaxRows /\ snaps \subseteq SnapName
    BY DEF RotationInv, RotationShape
  <2>3. rotor.pc \in {"idle", "first", "second", "create"}
    BY DEF RotationInv, RotorInv
  <2> QED
    BY <2>1, <2>2, <2>3 DEF RotationInv, RotationSets, Rotation!TypeOK, SnapName
<1>2. Rotation!RotationSingle
  <2> DEFINE T == {i \in Rotation!Slots : snapRows[i].op = "take" /\ snapRows[i].by = "rotation"}
  <2>1. \A i, j \in T : i = j
    BY DEF RotationInv, ScheduledInv, Scheduled
  <2>2. Cardinality(T) \in {0, 1}
    <3>1. T = {} \/ \E i : T = {i}
      BY <2>1
    <3> QED
      BY <3>1, FS_EmptySet, FS_Singleton
  <2>3. Cardinality(T) <= 1
    BY <2>2
  <2> QED
    BY <2>3, SameCardinality DEF Rotation!RotationSingle
<1>3. Rotation!FrozenOnlyDuringTake
  BY DEF RotationInv, SnapExecInv, Rotation!FrozenOnlyDuringTake
<1> QED
  BY <1>1, <1>2, <1>3

LEMMA SparesStep ==
  ASSUME RotationInv, Rotation!Next, NEW s \in snaps \ snaps', snapExec.pc \in {"prune", "pruneSome"}
  PROVE  IF Rotation!Row.keep > 0
         THEN /\ Rotation!Cardinality(Rotation!Newer(s, Rotation!Matching(Rotation!Row.prefix))) >= Rotation!Row.keep
              /\ s.prefix = Rotation!Row.prefix
         ELSE s.key + Rotation!Row.age < clock
<1>1. Rotation!Prune \/ Rotation!PruneOn
  BY DEF Rotation!Next, Rotation!Minute, Rotation!Rotor, Rotation!Tick, Rotation!Dedup, Rotation!Create,
    Rotation!Operator, Rotation!PostTake, Rotation!PostPrefixTake, Rotation!PostDelete,
    Rotation!CancelPending, Rotation!Executor, Rotation!Run, Rotation!NameAndFreeze,
    Rotation!TakeSnapshot, Rotation!ListNames, Rotation!Pruned, Rotation!DeleteSnapshot
<1>2. s \in snapExec.doomed
  BY <1>1 DEF Rotation!Prune, Rotation!PruneOn
<1>3. PICK task, M : task = Rotation!Row /\ M = Rotation!Matching(task.prefix)
  OBVIOUS
<1>4. M = OfPrefix(snaps, task.prefix)
  BY <1>3 DEF Rotation!Matching, OfPrefix
<1>5. MayGo(task, snapExec.doomed, snaps, clock)
  BY <1>3, SnapTask
<1> QED
  BY <1>2, <1>3, <1>4, <1>5, SameCardinality DEF MayGo

LEMMA CompleteStep ==
  ASSUME RotationInv, Rotation!Next, snapExec.pc = "prune", snapExec' = Rotation!Idle, Rotation!Row.keep > 0
  PROVE  Rotation!Cardinality(Rotation!Matching(Rotation!Row.prefix)) <= Rotation!Row.keep
<1>1. snapExec.doomed = {}
  <2>1. snapExec'.pc = "idle"
    BY DEF Rotation!Idle
  <2>2. Rotation!Pruned
    BY <2>1 DEF Rotation!Next, Rotation!Minute, Rotation!Rotor, Rotation!Tick, Rotation!Dedup,
      Rotation!Create, Rotation!Operator, Rotation!PostTake, Rotation!PostPrefixTake,
      Rotation!PostDelete, Rotation!CancelPending, Rotation!Executor, Rotation!Run,
      Rotation!NameAndFreeze, Rotation!TakeSnapshot, Rotation!ListNames, Rotation!Prune,
      Rotation!PruneOn, Rotation!DeleteSnapshot, RotationInv, RotationShape
  <2> QED
    BY <2>2 DEF Rotation!Pruned
<1>2. PICK task, M : task = Rotation!Row /\ M = Rotation!Matching(task.prefix)
  OBVIOUS
<1>3. M = OfPrefix(snaps, task.prefix) /\ M \ {} = M
  BY <1>2 DEF Rotation!Matching, OfPrefix
<1>4. Remain(task, {}, snaps)
  BY <1>1, <1>2, SnapTask
<1>5. Cardinality(M) <= task.keep
  BY <1>2, <1>3, <1>4 DEF Remain
<1> QED
  BY <1>2, <1>5, SameCardinality

\* Everything known of the scheduled snapshots holds throughout (snapshot_rotation.go,
\* snapshot_exec.go).
THEOREM RotationCorrect == UpkeepSpec => []RotationInv
<1>1. UpkeepInit => RotationInv
  BY RotationStarts DEF UpkeepInit
<1>2. RotationInv /\ [UpkeepNext]_upkeepVars => RotationInv'
  BY RotationTurn, RotationStep, RotationSame
<1> QED
  BY <1>1, <1>2, PTL DEF UpkeepSpec

\* At most one scheduled take is unfinished, however the two listings of the tick fall between the
\* steps of the queue; a guest whose freeze was answered has been told to thaw once its take is over,
\* however that ended; a prune removes what is beyond the retention and nothing else, and one without
\* a failure removes all of it (queueSnapshot, freezeGuest, pruneSnapshots).
THEOREM SnapshotsRotate == UpkeepSpec => SnapshotRotationSingle
<1>1. RotationInv /\ [UpkeepNext]_upkeepVars
      => [\A s \in snaps \ snaps' : snapExec.pc \in {"prune", "pruneSome"} =>
            IF Rotation!Row.keep > 0
            THEN Rotation!Cardinality(Rotation!Newer(s, Rotation!Matching(Rotation!Row.prefix))) >= Rotation!Row.keep
                 /\ s.prefix = Rotation!Row.prefix
            ELSE s.key + Rotation!Row.age < clock]_(Rotation!rotationVars)
  <2>1. UNCHANGED rotationVars => snaps \ snaps' = {}
    BY DEF rotationVars
  <2> QED
    BY <2>1, RotationTurn, SparesStep
<1>2. RotationInv /\ [UpkeepNext]_upkeepVars
      => [snapExec.pc = "prune" /\ snapExec' = Rotation!Idle /\ Rotation!Row.keep > 0
            => Rotation!Cardinality(Rotation!Matching(Rotation!Row.prefix)) <= Rotation!Row.keep]_(Rotation!rotationVars)
  <2>1. ASSUME snapExec.pc = "prune", snapExec' = Rotation!Idle PROVE ~UNCHANGED rotationVars
    <3>1. snapExec'.pc = "idle"
      BY <2>1 DEF Rotation!Idle
    <3>2. UNCHANGED rotationVars => snapExec'.pc = snapExec.pc
      BY DEF rotationVars
    <3> QED
      BY <2>1, <3>1, <3>2
  <2> QED
    BY <2>1, RotationTurn, CompleteStep
<1>3. RotationInv => Rotation!TypeOK /\ Rotation!RotationSingle /\ Rotation!FrozenOnlyDuringTake
  BY RotationTypes
<1> QED
  BY <1>1, <1>2, <1>3, RotationCorrect, PTL DEF UpkeepSpec, SnapshotRotationSingle, Rotation!PruneSpares,
    Rotation!PruneComplete
=============================================================================
