------------------------------- MODULE MCUpkeep -------------------------------
(***************************************************************************)
(* What keeps one machine going: its scheduled snapshots, its power        *)
(* requests with the edits that wait for them, its provisioning runs.      *)
(* Each plays in a scene of its own; Scenes selects the ones a run checks. *)
(***************************************************************************)
EXTENDS Naturals, Sequences, FiniteSets, TLC

CONSTANTS
  Scenes,
  Hour, Day, Week, Interval, Keep, MaxAge, Named, MaxClock, MaxRows, MaxPosts,  \* SnapshotRotation
  Request, Calls, MaxVerbs, MaxOutside,                                         \* PowerCycle
  Runs                                                                          \* ProvisionChain

VARIABLES
  scene,
  policy, clock, ticked, lastFire, rotor, snapRows, snapExec, snaps, frozen, posts,
  apart, vm, knobs, pending, req, powerRows, powerExec, acked, dropped, outside,
  doc, kind, skipBoot, status, told, chain, up, built, refused, runStatus, cut, row, stamped

CallNames == {"start", "stop", "restart", "suspend", "pause", "resume", "reset", "put", "clear", "apply"}

ASSUME UpkeepAssumption == Calls \subseteq CallNames /\ MaxOutside \in Nat

\* The handlers that plan a run
ASSUME RunsAssumption == Runs \subseteq {"provision", "provisioners", "narrowed", "sync", "syncback"}

ASSUME RotationAssumption == {Keep, MaxAge, MaxClock, MaxRows, MaxPosts} \subseteq Nat

rotationVars == <<policy, clock, ticked, lastFire, rotor, snapRows, snapExec, snaps, frozen, posts>>
powerVars == <<apart, vm, knobs, pending, req, powerRows, powerExec, acked, dropped, outside>>
chainVars == <<doc, kind, skipBoot, status, told, chain, up, built, refused, runStatus, cut, row,
               stamped>>

\* Every shape the planner tells apart, each folder bracket with and without syncback
Documents ==
  {d \in [package : BOOLEAN, folders : {0, 2}, back : {0, 1}, pre : {0, 1}, post : {0, 1},
          methods : {<<>>, <<"ansible", "docker">>, <<"shell", "other">>},
          winrm : BOOLEAN, rotate : BOOLEAN, cycle : {"none", "boot", "remove"}] :
     /\ d.back <= d.folders /\ (d.rotate => d.folders = 0)
     /\ d.cycle # "none" => d.pre = 0 /\ d.post = 0 /\ (d.folders = 0 \/ d.methods = <<>>)
     /\ d.pre = 1 => d.post = 1 /\ d.package}

Rotation == INSTANCE SnapshotRotation WITH rows <- snapRows, exec <- snapExec
Power == INSTANCE PowerCycle WITH rows <- powerRows, exec <- powerExec
Provision == INSTANCE ProvisionChain WITH vm <- up

AnyDocument == CHOOSE d \in Documents : d.methods = <<>> /\ d.folders = 0 /\ d.cycle = "none"

UpkeepInit ==
  /\ scene \in Scenes
  /\ scene # "rotation" => policy = [type |-> "none", quiesce |-> FALSE]
  /\ scene # "power" => apart = TRUE /\ vm = "off"
  /\ scene # "provision" => doc = AnyDocument /\ kind = "sync"
  /\ Rotation!Init /\ Power!Init /\ Provision!Init

UpkeepNext ==
  /\ UNCHANGED scene
  /\ IF scene = "rotation" THEN Rotation!Next ELSE UNCHANGED rotationVars
  /\ IF scene = "power" THEN Power!Next ELSE UNCHANGED powerVars
  /\ IF scene = "provision" THEN Provision!Next ELSE UNCHANGED chainVars

upkeepVars == <<scene, rotationVars, powerVars, chainVars>>

UpkeepSpec == UpkeepInit /\ [][UpkeepNext]_upkeepVars

\* The requests to the machine are interchangeable
RequestSymmetry == Permutations(Request)

\* One scheduled take at a time, a guest whose freeze was answered told to thaw after its take, and
\* a prune that removes what is beyond the retention and nothing else (queueSnapshot, freezeGuest,
\* pruneSnapshots)
SnapshotRotationSingle ==
  /\ [](Rotation!TypeOK /\ Rotation!RotationSingle /\ Rotation!FrozenOnlyDuringTake)
  /\ Rotation!PruneSpares /\ Rotation!PruneComplete

\* No accrued edit is lost (syncLiveConfiguration, applyPending)
PowerEditKept == Power!TypeOK /\ Power!EditKept

\* A boot has the edits it was chained behind, a stop its machine off and the starts before it cancelled
\* (handleStartMachine, handleStopMachine)
PowerBootsApplied == Power!BootsApplied /\ Power!StopHalts /\ Power!StopOverrides

\* The plan is sound, and the run makes of it what it promises: the stamp is set exactly when
\* the whole document is through, the wait only after the boot (buildProvisionChain, stampIfFinal)
ProvisionStampLast ==
  Provision!TypeOK /\ Provision!PlanSound /\ Provision!StampLast /\ Provision!StampComplete /\ Provision!BootsFirst

\* No task of a run overtakes another or outlives its cancellation (cancelChildren)
ProvisionDocumentOrder == Provision!DocumentOrder /\ Provision!CancelStopsWalk

\* Statements of comments that the code does not keep
ClaimBootIncluded == Provision!BootIncluded
ClaimCancelStopsRun == Provision!CancelStopsRun
=============================================================================
