---------------------------- MODULE SnapshotRotation ----------------------------
(***************************************************************************)
(* Scheduled snapshots of one machine: the rotation service's minute tick  *)
(* (internal/machines/snapshot_rotation.go), the snapshot requests of the  *)
(* API, and the executors that take, delete and prune                      *)
(* (snapshot_exec.go).                                                     *)
(*                                                                         *)
(* A snapshot is named <prefix>-<minute>; its key is that minute.  Names   *)
(* an operator chose that begin with a prefix sort behind every minute.    *)
(* The queue runs one task of the machine at a time, in any order here.    *)
(***************************************************************************)
EXTENDS Naturals, FiniteSets

CONSTANTS
  Hour, Day, Week,   \* the calendar: minutes an hour, hours a day, days a week
  Interval,          \* minutes between two fires of the simple and age policies
  Keep,              \* retention of every tier and of the simple policy
  MaxAge,            \* minutes the age policy keeps
  Named,             \* what the names an operator chooses begin with
  MaxClock,          \* bound: minutes
  MaxRows,           \* bound: unfinished task rows
  MaxPosts           \* bound: requests of operators

Policies == {"none", "simple", "age", "rotation"}
Tiers == {"hourly", "daily", "weekly"}
Prefixes == Tiers \cup {"auto"} \cup Named
OwnKeys == {MaxClock + 1, MaxClock + 2}

VARIABLES
  policy,        \* the machine's effective policy: type, quiesce
  clock,
  ticked,        \* the rotation service has seen this minute
  lastFire,      \* 0: never; else the minute after lastSimpleFire
  rotor,         \* the tick: where it is and what it would queue
  rows,          \* the machine's unfinished snapshot tasks; a slot of a finished one is free
  exec,          \* the one that runs: its row, its place, what it still deletes
  snaps,         \* the snapshots of the machine: prefix, key
  frozen,        \* the guest's file systems: "no", "held" until the take thaws them, "left"
  posts          \* operator requests so far

rotationVars == <<policy, clock, ticked, lastFire, rotor, rows, exec, snaps, frozen, posts>>

NoTake == [op |-> "none"]
Slots == 1..MaxRows
Take(p, keep, age, by, quiesce) ==
  [op |-> "take", prefix |-> p, keep |-> keep, age |-> age, by |-> by, quiesce |-> quiesce,
   status |-> "pending"]
Idle == [row |-> 0, pc |-> "idle", name |-> [prefix |-> "", key |-> 0], doomed |-> {}]

Init ==
  /\ policy \in [type : Policies, quiesce : BOOLEAN]
  /\ clock = 0 /\ ticked = FALSE /\ lastFire = 0
  /\ rotor = [pc |-> "idle", want |-> NoTake]
  /\ rows = [i \in Slots |-> NoTake] /\ exec = Idle
  /\ snaps = {} /\ frozen = "no" /\ posts = 0

----------------------------------------------------------------------------
(* The rotation service *)

Minute ==
  /\ clock < MaxClock
  /\ clock' = clock + 1 /\ ticked' = FALSE
  /\ UNCHANGED <<policy, lastFire, rotor, rows, exec, snaps, frozen, posts>>

\* The tier due at a minute; midnight never fires two
DueTier(now) ==
  IF now % Hour # 0 THEN {}
  ELSE IF now % (Hour * Day) # 0 THEN {"hourly"}
  ELSE IF (now \div (Hour * Day)) % Week = Week - 1 THEN {"weekly"}
  ELSE {"daily"}

FiresSimple == lastFire = 0 \/ clock - (lastFire - 1) >= Interval

\* What a tick would queue
Wanted ==
  IF policy.type = "rotation" THEN {Take(p, Keep, 0, "rotation", policy.quiesce) : p \in DueTier(clock)}
  ELSE IF ~FiresSimple THEN {}
  ELSE IF policy.type = "simple" THEN {Take("auto", Keep, 0, "rotation", policy.quiesce)}
  ELSE IF policy.type = "age" THEN {Take("auto", 0, MaxAge, "rotation", policy.quiesce)}
  ELSE {}

Tick ==
  /\ rotor.pc = "idle" /\ ~ticked
  /\ ticked' = TRUE
  /\ lastFire' = IF FiresSimple THEN clock + 1 ELSE lastFire
  /\ IF Wanted = {} THEN UNCHANGED rotor
     ELSE \E w \in Wanted : rotor' = [pc |-> "first", want |-> w]
  /\ UNCHANGED <<policy, clock, rows, exec, snaps, frozen, posts>>

Queued(status) == \E i \in Slots : rows[i].op = "take" /\ rows[i].status = status

\* Slip: the running rows are listed first
Swapped(pc) == IF pc = "first" THEN "running" ELSE "pending"

\* queueSnapshot lists the pending rows and then the running ones
ListedStatus(pc) == IF pc = "first" THEN "pending" ELSE "running"

Dedup ==
  /\ rotor.pc \in {"first", "second"}
  /\ rotor' = IF Queued(ListedStatus(rotor.pc)) THEN [pc |-> "idle", want |-> NoTake]
              ELSE [rotor EXCEPT !.pc = IF @ = "first" THEN "second" ELSE "create"]
  /\ UNCHANGED <<policy, clock, ticked, lastFire, rows, exec, snaps, frozen, posts>>

Free == {i \in Slots : rows[i] = NoTake}

Enqueue(row) ==
  /\ Free # {}
  /\ rows' = [rows EXCEPT ![CHOOSE i \in Free : \A j \in Free : i <= j] = row]

Post(row) == posts < MaxPosts /\ posts' = posts + 1 /\ Enqueue(row)

Create ==
  /\ rotor.pc = "create"
  /\ Enqueue(rotor.want)
  /\ rotor' = [pc |-> "idle", want |-> NoTake]
  /\ UNCHANGED <<policy, clock, ticked, lastFire, exec, snaps, frozen, posts>>

----------------------------------------------------------------------------
(* Requests of an operator: they queue without looking at other snapshot rows *)

\* A name of his own carries no retention and never prunes
PostTake ==
  /\ \E p \in Named, q \in BOOLEAN : Post(Take(p, 0, 0, "operator", q))
  /\ UNCHANGED <<policy, clock, ticked, lastFire, rotor, exec, snaps, frozen>>

PostPrefixTake ==
  /\ \E q \in BOOLEAN : Post(Take("hourly", Keep, 0, "tier", q))
  /\ UNCHANGED <<policy, clock, ticked, lastFire, rotor, exec, snaps, frozen>>

PostDelete ==
  /\ \E s \in snaps : Post([op |-> "delete", name |-> s, status |-> "pending"])
  /\ UNCHANGED <<policy, clock, ticked, lastFire, rotor, exec, snaps, frozen>>

PendingRows == {i \in Slots \ Free : rows[i].status = "pending"}

CancelPending ==
  /\ posts < MaxPosts /\ posts' = posts + 1
  /\ \E i \in PendingRows : rows' = [rows EXCEPT ![i] = NoTake]
  /\ UNCHANGED <<policy, clock, ticked, lastFire, rotor, exec, snaps, frozen>>

----------------------------------------------------------------------------
(* The executors *)

Row == rows[exec.row]

Over == rows' = [rows EXCEPT ![exec.row] = NoTake] /\ exec' = Idle

Run ==
  /\ exec.pc = "idle"
  /\ \E i \in Slots \ Free :
       /\ rows' = [rows EXCEPT ![i].status = "running"]
       /\ exec' = [Idle EXCEPT !.row = i, !.pc = IF rows[i].op = "take" THEN "name" ELSE "delete"]
  /\ UNCHANGED <<policy, clock, ticked, lastFire, rotor, snaps, frozen, posts>>

\* freezeGuest: the guest does not freeze, or it does and is thawed after the take, or the
\* answer to the call is lost: the guest is frozen and the thaw does nothing
Freezes(wanted) == IF wanted THEN {frozen, "held", "left"} ELSE {frozen}

NameAndFreeze ==
  /\ exec.pc = "name"
  /\ \E key \in IF Row.by = "operator" THEN OwnKeys ELSE {clock} :
       exec' = [exec EXCEPT !.pc = "take", !.name = [prefix |-> Row.prefix, key |-> key]]
  /\ frozen' \in Freezes(Row.quiesce)
  /\ UNCHANGED <<policy, clock, ticked, lastFire, rotor, rows, snaps, posts>>

\* Slip: a failed take returns before the thaw
ThawedIfTaken(taken) == IF frozen = "held" /\ taken THEN {"no", "left"} ELSE {frozen}

\* The guest is told to thaw before the result is looked at; a failing call is narrated
Thawed(taken) == IF frozen = "held" THEN {"no", "left"} ELSE {frozen}

\* The take fails, and with it a task that is cancelled meanwhile
TakeSnapshot ==
  /\ exec.pc = "take"
  /\ \E taken \in BOOLEAN :
       /\ frozen' \in Thawed(taken)
       /\ snaps' = IF taken THEN snaps \cup {exec.name} ELSE snaps
       /\ IF taken /\ (Row.keep > 0 \/ Row.age > 0)
          THEN exec' = [exec EXCEPT !.pc = "list"] /\ UNCHANGED rows
          ELSE Over
  /\ UNCHANGED <<policy, clock, ticked, lastFire, rotor, posts>>

Newer(s, in) == {x \in in : x.key > s.key}

\* Slip: one too many goes
OneMore(matching, n) == {s \in matching : Cardinality(Newer(s, matching)) >= n - 1}

\* matching[:len-retention] of the sorted names
Surplus(matching, n) == {s \in matching : Cardinality(Newer(s, matching)) >= n}

\* A suffix that does not parse has no age
Aged(matching) == {s \in matching : s.key \notin OwnKeys /\ s.key + Row.age < clock}

Matching(p) == {s \in snaps : s.prefix = p}

\* The listing may fail: the prune is skipped
ListNames ==
  /\ exec.pc = "list"
  /\ LET matching == Matching(Row.prefix)
         retained == IF Row.keep > 0 THEN Surplus(matching, Row.keep) ELSE {}
         aged == IF Row.age > 0 THEN Aged(matching \ retained) ELSE {}
     IN \/ exec' = [exec EXCEPT !.pc = "prune", !.doomed = retained \cup aged]
        \/ exec' = [exec EXCEPT !.pc = "skipped"]
  /\ UNCHANGED <<policy, clock, ticked, lastFire, rotor, rows, snaps, frozen, posts>>

\* One deletion, the oldest name first; it may fail
Prune ==
  /\ exec.pc = "prune" /\ exec.doomed # {}
  /\ \E s \in exec.doomed :
       /\ \A x \in exec.doomed : x.key >= s.key
       /\ \/ snaps' = snaps \ {s} /\ exec' = [exec EXCEPT !.doomed = @ \ {s}]
          \/ snaps' = snaps /\ exec' = [exec EXCEPT !.doomed = @ \ {s}, !.pc = "pruneSome"]
  /\ UNCHANGED <<policy, clock, ticked, lastFire, rotor, rows, frozen, posts>>

\* A deletion that failed is narrated and the others go on
PruneOn ==
  /\ exec.pc = "pruneSome" /\ exec.doomed # {}
  /\ \E s \in exec.doomed, gone \in BOOLEAN :
       /\ \A x \in exec.doomed : x.key >= s.key
       /\ snaps' = IF gone THEN snaps \ {s} ELSE snaps
       /\ exec' = [exec EXCEPT !.doomed = @ \ {s}]
  /\ UNCHANGED <<policy, clock, ticked, lastFire, rotor, rows, frozen, posts>>

Pruned ==
  /\ exec.pc = "skipped" \/ (exec.pc \in {"prune", "pruneSome"} /\ exec.doomed = {})
  /\ Over
  /\ UNCHANGED <<policy, clock, ticked, lastFire, rotor, snaps, frozen, posts>>

DeleteSnapshot ==
  /\ exec.pc = "delete"
  /\ snaps' \in {snaps, snaps \ {Row.name}}
  /\ Over
  /\ UNCHANGED <<policy, clock, ticked, lastFire, rotor, frozen, posts>>

Rotor == Tick \/ Dedup \/ Create
Operator == PostTake \/ PostPrefixTake \/ PostDelete \/ CancelPending
Executor == Run \/ NameAndFreeze \/ TakeSnapshot \/ ListNames \/ Prune \/ PruneOn \/ Pruned
            \/ DeleteSnapshot

Next == Minute \/ Rotor \/ Operator \/ Executor

Spec == Init /\ [][Next]_rotationVars

----------------------------------------------------------------------------
(* Properties *)

\* The types of the variables; what executes is the row that is marked running.
TypeOK ==
  /\ policy \in [type : Policies, quiesce : BOOLEAN]
  /\ clock \in 0..MaxClock /\ ticked \in BOOLEAN /\ lastFire \in 0..(MaxClock + 1)
  /\ rotor.pc \in {"idle", "first", "second", "create"}
  /\ DOMAIN rows = Slots /\ exec.row \in 0..MaxRows /\ posts \in 0..MaxPosts
  /\ IF exec.pc = "idle" THEN exec.row = 0 ELSE Row # NoTake /\ Row.status = "running"
  /\ snaps \subseteq [prefix : Prefixes, key : 0..(MaxClock + 2)]
  /\ frozen \in {"no", "held", "left"}

\* A slow take never stacks a second scheduled one behind it: at most one row of
\* the rotation service is unfinished (queueSnapshot), however its two listings
\* fall between the queue's steps.
RotationSingle ==
  Cardinality({i \in Slots : rows[i].op = "take" /\ rows[i].by = "rotation"}) <= 1

\* A guest whose freeze was answered stays so only while its snapshot is taken: whether the
\* take succeeds, fails or is cancelled, it has been told to thaw (freezeGuest, snapshotTake).
\* A lost answer to the freeze, or a thaw that fails, leaves it frozen.
FrozenOnlyDuringTake == frozen = "held" => exec.pc = "take"

\* A prune by retention removes a snapshot only while Keep newer ones of its own
\* tier exist, and so never the one its own take has just made; a prune by age
\* removes none younger than the limit (pruneSnapshots).
PruneSpares ==
  [][\A s \in snaps \ snaps' : exec.pc \in {"prune", "pruneSome"} =>
       IF Row.keep > 0 THEN Cardinality(Newer(s, Matching(Row.prefix))) >= Row.keep
                            /\ s.prefix = Row.prefix
       ELSE s.key + Row.age < clock]_rotationVars

\* A take whose prune met no failure leaves at most Keep snapshots of its tier
\* (snapshotTake: the take comes first, the prune counts it).
PruneComplete ==
  [][exec.pc = "prune" /\ exec' = Idle /\ Row.keep > 0
       => Cardinality(Matching(Row.prefix)) <= Row.keep]_rotationVars

\* "snapshots whose suffix does not parse are left alone" (pruneSnapshots).
OthersKept ==
  [][\A s \in snaps \ snaps' : exec.pc \in {"prune", "pruneSome"} => s.key \notin OwnKeys]_rotationVars
=============================================================================
