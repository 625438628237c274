------------------------------- MODULE MCAgent -------------------------------
(***************************************************************************)
(* What the agent keeps of its own: the machine registry, the              *)
(* configuration, the keys and sessions, and the ports and files one       *)
(* process hands to the next.  Each plays in a scene of its own.           *)
(***************************************************************************)
EXTENDS Naturals, Sequences, FiniteSets

CONSTANTS
  Name, Foreign, Creator, Discover, Import, MaxOutside, Prefixed,   \* MachineRegistry
  Writer, File, Overlap, WriterOps,                                \* ConfigStore
  Actor, Tokens, Kept, MaxKeys,                                    \* KeyStore
  Proc, MaxLaunch, Faults,                                         \* AgentHandoff
  MaxFaults

ASSUME HandoffAssumption == Proc \subseteq Nat \ {0}

ASSUME ConfigAssumption ==
  Writer \subseteq Nat \ {0} /\ File \subseteq Nat /\ IsFiniteSet(File) /\ File # {}

ASSUME KeysAssumption ==
  /\ Actor \subseteq Nat /\ IsFiniteSet(Actor)
  /\ {Kept, MaxKeys} \subseteq Nat \ {0} /\ {Tokens, MaxFaults} \subseteq Nat

ASSUME RegistryAssumption ==
  /\ "none" \notin Name \cup Foreign \cup Creator /\ "absent" \notin Creator
  /\ Foreign \cap Creator = {} /\ MaxOutside \in Nat
  /\ \A d, e \in Discover : d = e
  /\ \E first \in [Foreign \cup Creator -> Name] :
       \A f, g \in Foreign : first[f] = first[g] => f = g

VARIABLES
  scene,
  outside, left, vm, row, disk, making, deleting, sweep, missed,
  apart, doc, bak, backup, cache, started, pending, cleared, view, holder, token, sick, writes,
  configFaults,
  keys, nextId, keyFile, fileNext, verified, sessions, sessionFile, tokens, calls, gone, reaped,
  keyFaults,
  tls, pc, parent, asked, http, https, dbs, services, expected, released, secret, saved, mem,
  launched, handoffFaults

machineVars == <<outside, left, vm, row, disk, making, deleting, sweep, missed>>
configVars == <<apart, doc, bak, backup, cache, started, pending, cleared, view, holder, token,
                sick, writes, configFaults>>
keyVars == <<keys, nextId, keyFile, fileNext, verified, sessions, sessionFile, tokens, calls, gone,
             reaped, keyFaults>>
handoffVars == <<tls, pc, parent, asked, http, https, dbs, services, expected, released, secret,
                 saved, mem, launched, handoffFaults>>

Machines == INSTANCE MachineRegistry
Config == INSTANCE ConfigStore WITH req <- writes, faults <- configFaults
Keys == INSTANCE KeyStore WITH file <- keyFile, req <- calls, faults <- keyFaults
Handoff == INSTANCE AgentHandoff
             WITH disk <- saved, faults <- handoffFaults, MaxKeys <- 1

AgentInit ==
  /\ scene \in {"machines", "config", "keys", "handoff"}
  /\ scene # "machines" => outside = "calm"
  /\ scene # "config" => apart = TRUE
  /\ scene # "keys" => keys = {}
  /\ scene # "handoff" => tls = TRUE
  /\ Machines!Init /\ Config!Init /\ Keys!Init /\ Handoff!Init

\* A step of the scene that plays, and the other parts stand still
AgentNext ==
  /\ UNCHANGED scene
  /\ IF scene = "machines" THEN Machines!Next ELSE UNCHANGED machineVars
  /\ IF scene = "config" THEN Config!Next ELSE UNCHANGED configVars
  /\ IF scene = "keys" THEN Keys!Next ELSE UNCHANGED keyVars
  /\ IF scene = "handoff" THEN Handoff!Next ELSE UNCHANGED handoffVars

agentVars == <<scene, machineVars, configVars, keyVars, handoffVars>>

AgentSpec == AgentInit /\ [][AgentNext]_agentVars /\ Machines!Fairness

\* A VM has one row; a landed create all its parts, unless another of its name was under way beside
\* it; a removed row its two sweeps (UpsertDiscovered, DeleteOrphanedMissing)
RegistrySafe ==
  [](Machines!TypeOK /\ Machines!OneRowPerVm /\ Machines!LandedWhole) /\ Machines!GraceKept

\* The registry comes to hold what VirtualBox holds (RunOnce)
RegistryConverges == Machines!RegistryConverges

\* Cache, restart list, setup and backup agree with the files, and the view where requests did not
\* overlap (Engine.Save)
ConfigAgrees ==
  /\ [](Config!TypeOK /\ Config!CacheIsFile /\ Config!RestartListed /\ Config!ViewFollows
        /\ Config!SetupWhole)
  /\ Config!BakHoldsPrevious

\* Neither the cache nor a reply accepts a key that is gone (Store.Verify)
KeysAccepted == [](Keys!TypeOK /\ Keys!CacheLive) /\ Keys!AcceptedLive

\* Overlapping claims spare each other's keys and the last administrator, leave no more
\* tray keys than kept, and use a token once (Store.PruneTrayKeys, handleTrayClaim)
KeysReaped ==
  [](Keys!FreshKeySpared /\ Keys!TrayBound /\ Keys!TokenOnce) /\ Keys!AdminRemains

\* One agent works at a time, its successor waits for it and is let go (restartSelf)
HandoffOneServer ==
  [](Handoff!TypeOK /\ Handoff!OneServer /\ Handoff!AskerFreed) /\ Handoff!SuccessorWaits
=============================================================================
