----------------------------- MODULE AgentProofs -----------------------------
(***************************************************************************)
(* What the agent keeps of its own, for any processes, requests and        *)
(* bounds: one agent works at a time however it is launched, restarted or  *)
(* killed; a key that is gone opens nothing, and overlapping claims spare  *)
(* each other's keys; cache, view and restart list agree with the files of *)
(* the configuration; a VM has one row, a landed create all its parts.     *)
(***************************************************************************)
EXTENDS MCAgent, FiniteSetTheorems, WellFoundedInduction, TLAPS

----------------------------------------------------------------------------
(* Launches and restarts: the inductive invariant                          *)

Leaving == {"stopping", "draining", "exited"}
Opened == {"opened", "conflict", "serving", "stopping"}
Place == {"none", "loaded", "asking", "cleared"} \cup Opened \cup Leaving

HandoffShape ==
  /\ pc \in [Proc -> Place]
  /\ parent \in [Proc -> Proc \cup {0}] /\ asked \in [Proc -> Proc \cup {0}]
  /\ http \in Proc \cup {0} /\ https \in Proc \cup {0}
  /\ dbs \subseteq Proc /\ services \subseteq Proc /\ expected \subseteq Proc /\ released \subseteq Proc

\* What a process holds says where it is
HoldsInv ==
  \A p \in Proc :
    /\ p \in services => http = p /\ pc[p] \in {"serving", "stopping"}
    /\ http = p \/ https = p => pc[p] \in {"serving", "stopping", "draining"}
    /\ p \in dbs => pc[p] \in Opened
    /\ p \in released => pc[p] \in {"draining", "exited"}
    /\ pc[p] \in Opened => secret

\* Who has a copy leaves; who expects one leaves too, or could not start it
CopyInv ==
  \A p \in Proc :
    /\ pc[p] = "stopping" => p \in expected
    /\ p \in expected => pc[p] \in Leaving \/ \A q \in Proc : parent[q] # p
    /\ parent[p] \in Proc => pc[parent[p]] \in Leaving

\* The copy behind its parent's door asks the parent, and goes on once that has closed its databases
WaitInv ==
  \A p \in Proc :
    /\ pc[p] = "asking" => asked[p] \in expected
    /\ parent[p] \in Proc /\ Handoff!Door = parent[p] /\ pc[parent[p]] = "stopping" =>
         /\ pc[p] = "asking" => asked[p] = parent[p]
         /\ pc[p] # "cleared"

HandoffInv == HandoffShape /\ HoldsInv /\ CopyInv /\ WaitInv

LEMMA HandoffStarts == Handoff!Init => HandoffInv
BY HandoffAssumption DEF Handoff!Init, Handoff!NoProc, HandoffInv, HandoffShape, HoldsInv, CopyInv, WaitInv,
  Place, Opened, Leaving

LEMMA HandoffSame == ASSUME HandoffInv, UNCHANGED handoffVars PROVE HandoffInv'
BY DEF handoffVars, HandoffInv, HandoffShape, HoldsInv, CopyInv, WaitInv, Handoff!Door

\* A process that moves on with its copies as they are
Goes(p) ==
  /\ parent' = parent /\ expected' = expected
  /\ \A o \in Proc : o # p => pc'[o] = pc[o]
  /\ pc[p] \in Leaving => pc'[p] \in Leaving
  /\ pc'[p] = "stopping" => pc[p] = "stopping"

LEMMA CopyGoes ==
  ASSUME HandoffShape, CopyInv, NEW p \in Proc, Goes(p)
  PROVE  CopyInv'
<1> SUFFICES ASSUME NEW o \in Proc
             PROVE  /\ pc'[o] = "stopping" => o \in expected
                    /\ o \in expected => pc'[o] \in Leaving \/ \A r \in Proc : parent[r] # o
                    /\ parent[o] \in Proc => pc'[parent[o]] \in Leaving
  BY DEF CopyInv, Goes
<1>1. \A q \in Proc : pc[q] \in Leaving => pc'[q] \in Leaving
  BY DEF Goes
<1>2. \A q \in Proc : pc'[q] = "stopping" => pc[q] = "stopping"
  BY DEF Goes
<1> QED
  BY <1>1, <1>2 DEF CopyInv

LEMMA WaitGoes ==
  ASSUME HandoffShape, WaitInv, NEW p \in Proc, Goes(p), asked' = asked, pc'[p] \notin {"asking", "cleared"},
         \A q \in Proc : Handoff!Door' = q /\ pc'[q] = "stopping" => Handoff!Door = q
  PROVE  WaitInv'
<1> SUFFICES ASSUME NEW o \in Proc
             PROVE  /\ pc'[o] = "asking" => asked[o] \in expected
                    /\ parent[o] \in Proc /\ Handoff!Door' = parent[o] /\ pc'[parent[o]] = "stopping" =>
                         /\ pc'[o] = "asking" => asked[o] = parent[o]
                         /\ pc'[o] # "cleared"
  BY DEF WaitInv, Goes
<1>1. pc'[o] \in {"asking", "cleared"} => pc'[o] = pc[o]
  BY DEF Goes
<1>2. \A q \in Proc : pc'[q] = "stopping" => pc[q] = "stopping"
  BY DEF Goes
<1> QED
  BY <1>1, <1>2 DEF WaitInv

LEMMA LaunchKeeps ==
  ASSUME HandoffInv, NEW p \in Proc, Handoff!Launch(p)
  PROVE  HandoffInv'
BY HandoffAssumption DEF Handoff!Launch, Handoff!Begin, Handoff!NoProc, Handoff!ports, Handoff!handoff,
  HandoffInv, HandoffShape, HoldsInv, CopyInv, WaitInv, Place, Opened, Leaving, Handoff!Door

LEMMA AwaitKeeps ==
  ASSUME HandoffInv, NEW p \in Proc, Handoff!Await(p)
  PROVE  HandoffInv'
<1> USE HandoffAssumption DEF HandoffInv, HandoffShape, Handoff!NoProc, Handoff!ports, Handoff!handoff, Handoff!store,
         Handoff!Await, Handoff!Pending
<1>1. HandoffShape'
  BY DEF Place, Opened, Leaving
<1>2. HoldsInv'
  BY DEF HoldsInv, Opened, Leaving
<1>3. /\ parent' = parent /\ expected' = expected
      /\ \A o \in Proc : o # p => pc'[o] = pc[o] /\ asked'[o] = asked[o]
      /\ pc[p] = "loaded" /\ pc'[p] \in {"asking", "cleared"}
      /\ Handoff!Door' = Handoff!Door
  BY DEF Handoff!Door
<1>4. CopyInv'
  <2>1. Goes(p)
    BY <1>3 DEF Goes, Leaving
  <2> QED
    BY <2>1, CopyGoes
<1>5. \A q \in Proc : pc'[q] = "stopping" => pc[q] = "stopping" /\ q \in expected /\ secret
  BY <1>3 DEF HoldsInv, CopyInv, Opened
<1>6. CASE pc'[p] = "asking"
  <2>1. asked'[p] = Handoff!Door /\ asked'[p] \in expected
    BY <1>6
  <2> SUFFICES WaitInv'
    BY <1>1, <1>2, <1>4
  <2> HIDE DEF HandoffShape, Handoff!Await, Handoff!Pending
  <2>2. WaitInv /\ parent' = parent /\ expected' = expected
    BY <1>3
  <2>3. \A o \in Proc : pc'[o] # "asking" => pc'[o] = pc[o]
    BY <1>3, <1>6
  <2> QED
    BY <1>3, <1>5, <1>6, <2>1, <2>2, <2>3 DEF WaitInv
<1>7. CASE pc'[p] = "cleared"
  <2>1. ~(secret /\ Handoff!Pending(Handoff!Door))
    BY <1>7
  <2>2. \A q \in Proc : pc'[q] = "stopping" => Handoff!Door # q
    BY <1>5, <2>1, HandoffAssumption
  <2>3. WaitInv'
    BY <1>3, <1>5, <1>7, <2>2 DEF WaitInv
  <2> QED
    BY <1>1, <1>2, <1>4, <2>3
<1> QED
  BY <1>3, <1>6, <1>7

LEMMA AnsweredKeeps ==
  ASSUME HandoffInv, NEW p \in Proc, Handoff!Answered(p)
  PROVE  HandoffInv'
<1> USE HandoffAssumption DEF HandoffInv, HandoffShape, Handoff!NoProc, Handoff!ports, Handoff!handoff, Handoff!store,
         Handoff!Answered, Handoff!Freed
<1>1. HandoffShape'
  BY DEF Place, Opened, Leaving
<1>2. HoldsInv'
  BY DEF HoldsInv, Opened, Leaving
<1>3. Goes(p) /\ asked' = asked /\ pc'[p] = "cleared" /\ Handoff!Door' = Handoff!Door
  BY DEF Goes, Leaving, Handoff!Door
<1>4. CopyInv'
  BY <1>3, CopyGoes
<1>5. pc[asked[p]] # "stopping"
  BY DEF HoldsInv, WaitInv
<1>6. \A q \in Proc : pc'[q] = "stopping" => pc[q] = "stopping"
  BY <1>3 DEF Goes
<1>7. WaitInv'
  BY <1>3, <1>5, <1>6 DEF WaitInv, Goes
<1> QED
  BY <1>1, <1>2, <1>4, <1>7

LEMMA OpenKeeps ==
  ASSUME HandoffInv, NEW p \in Proc, Handoff!Open(p)
  PROVE  HandoffInv'
<1> USE HandoffAssumption DEF HandoffInv, HandoffShape, Handoff!NoProc, Handoff!ports, Handoff!handoff, Handoff!store,
         Handoff!Open, Handoff!ServicesWait
<1>1. HandoffShape'
  BY DEF Place, Opened, Leaving
<1>2. HoldsInv'
  BY DEF HoldsInv, Opened, Leaving
<1>3. Goes(p) /\ asked' = asked /\ pc'[p] \notin {"asking", "cleared"}
  BY DEF Goes, Leaving
<1>4. \A q \in Proc : Handoff!Door' = q /\ pc'[q] = "stopping" => Handoff!Door = q
  BY DEF Handoff!Door
<1> QED
  BY <1>1, <1>2, <1>3, <1>4, CopyGoes, WaitGoes

LEMMA ListenKeeps ==
  ASSUME HandoffInv, NEW p \in Proc, Handoff!Listen(p)
  PROVE  HandoffInv'
<1> USE HandoffAssumption DEF HandoffInv, HandoffShape, Handoff!NoProc, Handoff!ports, Handoff!handoff, Handoff!store,
         Handoff!Listen
<1>1. HandoffShape'
  BY DEF Place, Opened, Leaving
<1>2. HoldsInv'
  BY DEF HoldsInv, Opened, Leaving
<1>3. Goes(p) /\ asked' = asked /\ pc'[p] \notin {"asking", "cleared"}
  BY DEF Goes, Leaving
<1>4. \A q \in Proc : Handoff!Door' = q /\ pc'[q] = "stopping" => Handoff!Door = q
  BY DEF Handoff!Door
<1> QED
  BY <1>1, <1>2, <1>3, <1>4, CopyGoes, WaitGoes

LEMMA LeavesKeeps ==
  ASSUME HandoffInv, NEW p \in Proc, Handoff!Leaves(p), pc[p] # "none"
  PROVE  HandoffInv'
<1> USE HandoffAssumption DEF HandoffInv, HandoffShape, Handoff!NoProc, Handoff!ports, Handoff!handoff, Handoff!store,
         Handoff!Leaves
<1>1. HandoffShape'
  BY DEF Place, Opened, Leaving
<1>2. HoldsInv'
  BY DEF HoldsInv, Opened, Leaving
<1>3. Goes(p) /\ asked' = asked /\ pc'[p] \notin {"asking", "cleared"}
  BY DEF Goes, Leaving
<1>4. \A q \in Proc : Handoff!Door' = q /\ pc'[q] = "stopping" => Handoff!Door = q
  BY DEF Handoff!Door
<1> QED
  BY <1>1, <1>2, <1>3, <1>4, CopyGoes, WaitGoes

\* A copy begins
LEMMA CopyBegins ==
  ASSUME HandoffInv, NEW p \in Proc, NEW q \in Proc, Handoff!Begin(q, p),
         pc[p] \in {"serving", "stopping"}, pc' = [pc EXCEPT ![p] = "stopping", ![q] = "loaded"],
         expected' = expected \cup {p},
         UNCHANGED <<tls, asked, http, https, dbs, services, released, secret>>
  PROVE  HandoffInv'
<1> USE HandoffAssumption DEF HandoffInv, HandoffShape, Handoff!Begin
<1>1. HandoffShape'
  BY DEF Place, Opened, Leaving
<1>2. HoldsInv'
  BY DEF HoldsInv, Opened, Leaving
<1>3. /\ pc[q] = "none" /\ p # q /\ pc'[p] = "stopping" /\ pc'[q] = "loaded" /\ parent'[q] = p
      /\ \A o \in Proc : o \notin {p, q} => pc'[o] = pc[o]
      /\ \A o \in Proc : o # q => parent'[o] = parent[o]
      /\ Handoff!Door' = Handoff!Door /\ asked' = asked
  BY DEF Handoff!Door
<1>4. \A o \in Proc : pc[o] \in Leaving => pc'[o] \in Leaving
  BY <1>3 DEF Leaving
<1>5. CopyInv'
  <2> SUFFICES ASSUME NEW o \in Proc
               PROVE  /\ pc'[o] = "stopping" => o \in expected'
                      /\ o \in expected' => pc'[o] \in Leaving \/ \A r \in Proc : parent'[r] # o
                      /\ parent'[o] \in Proc => pc'[parent'[o]] \in Leaving
    BY DEF CopyInv
  <2>1. pc'[o] = "stopping" => o \in expected'
    BY <1>3 DEF CopyInv
  <2>2. o \in expected' => pc'[o] \in Leaving \/ \A r \in Proc : parent'[r] # o
    BY <1>3, <1>4 DEF CopyInv, Leaving
  <2>3. parent'[o] \in Proc => pc'[parent'[o]] \in Leaving
    <3>1. CASE o = q
      BY <1>3, <3>1 DEF Leaving
    <3>2. CASE o # q
      BY <1>3, <1>4, <3>2 DEF CopyInv
    <3> QED
      BY <3>1, <3>2
  <2> HIDE DEF HandoffInv, HandoffShape, Handoff!Begin
  <2> QED
    BY <2>1, <2>2, <2>3
<1>6. WaitInv'
  <2> SUFFICES ASSUME NEW o \in Proc
               PROVE  /\ pc'[o] = "asking" => asked'[o] \in expected'
                      /\ parent'[o] \in Proc /\ Handoff!Door' = parent'[o] /\ pc'[parent'[o]] = "stopping" =>
                           /\ pc'[o] = "asking" => asked'[o] = parent'[o]
                           /\ pc'[o] # "cleared"
    BY DEF WaitInv
  <2>1. CASE o \in {p, q}
    <3>1. pc'[o] = "stopping" \/ pc'[o] = "loaded"
      BY <1>3, <2>1
    <3> HIDE DEF HandoffInv, HandoffShape, Handoff!Begin
    <3> QED
      BY <3>1
  <2>2. CASE o \notin {p, q}
    <3>1. pc'[o] = pc[o] /\ parent'[o] = parent[o]
      BY <1>3, <2>2
    <3>2. parent[o] \in Proc /\ pc'[parent[o]] = "stopping" => pc[parent[o]] = "stopping"
      BY <1>3 DEF CopyInv, Leaving
    <3> QED
      BY <1>3, <3>1, <3>2 DEF WaitInv
  <2> QED
    BY <2>1, <2>2
<1> QED
  BY <1>1, <1>2, <1>5, <1>6

LEMMA RestartKeeps ==
  ASSUME HandoffInv, NEW p \in Proc, NEW q \in Proc,
         Handoff!Restart(p, q) \/ Handoff!RestartAgain(p, q)
  PROVE  HandoffInv'
<1>1. CASE Handoff!Restart(p, q)
  BY <1>1, CopyBegins DEF Handoff!Restart, Handoff!ports, Handoff!handoff
<1>2. CASE Handoff!RestartAgain(p, q)
  <2>1. expected' = expected \cup {p}
    BY <1>2 DEF Handoff!RestartAgain, Handoff!handoff, HandoffInv, CopyInv
  <2>2. p # q /\ pc' = [pc EXCEPT ![p] = "stopping", ![q] = "loaded"]
    BY <1>2 DEF Handoff!RestartAgain, Handoff!Begin, HandoffInv, HandoffShape
  <2> QED
    BY <1>2, <2>1, <2>2, CopyBegins DEF Handoff!RestartAgain, Handoff!ports, Handoff!handoff
<1> QED
  BY <1>1, <1>2

LEMMA SpawnFailsKeeps ==
  ASSUME HandoffInv, NEW p \in Proc, Handoff!SpawnFails(p)
  PROVE  HandoffInv'
BY DEF Handoff!SpawnFails, Handoff!ports, Handoff!handoff, Handoff!store, HandoffInv, HandoffShape, HoldsInv,
  CopyInv, WaitInv, Leaving, Handoff!Door

LEMMA DrainKeeps ==
  ASSUME HandoffInv, NEW p \in Proc, 
         \/ Handoff!Teardown(p) \/ Handoff!Release(p) \/ Handoff!CloseHttp(p) \/ Handoff!CloseHttps(p)
  PROVE  HandoffInv'
<1> USE HandoffAssumption DEF HandoffInv, HandoffShape, Handoff!NoProc, Handoff!ports, Handoff!handoff, Handoff!store,
         Handoff!Teardown, Handoff!Release, Handoff!Ready, Handoff!CloseHttp, Handoff!CloseHttps
<1>1. HandoffShape'
  BY DEF Place, Opened, Leaving
<1>2. HoldsInv'
  BY DEF HoldsInv, Opened, Leaving
<1>3. Goes(p) /\ asked' = asked /\ pc'[p] \notin {"asking", "cleared"}
  BY DEF Goes, Leaving
<1>4. \A q \in Proc : Handoff!Door' = q /\ pc'[q] = "stopping" => Handoff!Door = q
  BY DEF Handoff!Door
<1> QED
  BY <1>1, <1>2, <1>3, <1>4, CopyGoes, WaitGoes

LEMMA HandoffStep == ASSUME HandoffInv, Handoff!Next PROVE HandoffInv'
<1>1. ASSUME NEW p \in Proc, Handoff!CreateKey(p) PROVE HandoffInv'
  BY <1>1 DEF Handoff!CreateKey, Handoff!ports, Handoff!handoff, HandoffInv, HandoffShape, HoldsInv, CopyInv,
    WaitInv, Handoff!Door
<1>2. ASSUME NEW p \in Proc,
             \/ Handoff!Conflict(p) \/ Handoff!Exit(p) \/ Handoff!Panic(p) \/ Handoff!Quit(p)
             \/ Handoff!Kill(p)
      PROVE  HandoffInv'
  BY <1>2, LeavesKeeps DEF Handoff!Conflict, Handoff!Exit, Handoff!Panic, Handoff!Quit, Handoff!Kill,
    Handoff!Alive
<1> QED
  BY <1>1, <1>2, LaunchKeeps, AwaitKeeps, AnsweredKeeps, OpenKeeps, ListenKeeps, RestartKeeps,
     SpawnFailsKeeps, DrainKeeps      DEF Handoff!Next, Handoff!Step

LEMMA HandoffTurn ==
  ASSUME [AgentNext]_agentVars
  PROVE  Handoff!Next \/ UNCHANGED handoffVars
BY DEF AgentNext, agentVars

\* Everything known of the processes holds throughout (main.go, settings.go).
THEOREM HandoffCorrect == AgentSpec => []HandoffInv
<1>1. AgentInit => HandoffInv
  BY HandoffStarts DEF AgentInit
<1>2. HandoffInv /\ [AgentNext]_agentVars => HandoffInv'
  BY HandoffTurn, HandoffStep, HandoffSame
<1> QED
  BY <1>1, <1>2, PTL DEF AgentSpec

LEMMA HandoffSafe == ASSUME HandoffInv PROVE Handoff!TypeOK /\ Handoff!OneServer /\ Handoff!AskerFreed
<1>1. Handoff!TypeOK
  BY HandoffAssumption DEF HandoffInv, HandoffShape, HoldsInv, CopyInv, WaitInv, Handoff!TypeOK, Handoff!NoProc,
    Handoff!Alive, Opened
<1>2. Handoff!OneServer
  <2>1. services \subseteq {http}
    BY DEF HandoffInv, HandoffShape, HoldsInv
  <2>2. Cardinality(services) <= 1
    <3>1. services = {} \/ services = {http}
      BY <2>1
    <3>2. Cardinality({}) = 0
      BY FS_EmptySet
    <3>3. Cardinality({http}) = 1
      BY FS_Singleton
    <3> QED
      BY <3>1, <3>2, <3>3
  <2>3. Handoff!Cardinality(services) = Cardinality(services)
    BY DEF Handoff!Cardinality, Cardinality
  <2> QED
    BY <2>2, <2>3 DEF Handoff!OneServer
<1>3. Handoff!AskerFreed
  BY DEF HandoffInv, HandoffShape, CopyInv, WaitInv, Handoff!AskerFreed, Leaving
<1> QED
  BY <1>1, <1>2, <1>3

\* Two agents never work at once, a process held at the door is held by one that leaves, and a
\* restart's copy opens the databases once the process that spawned it has closed them, whatever is
\* launched, restarted or killed (restartSelf, awaitPredecessor).
THEOREM OneAgentServes == AgentSpec => HandoffOneServer
<1>1. HandoffInv /\ [AgentNext]_agentVars
      => [\A p \in Proc : p \in dbs' \ dbs /\ parent[p] # Handoff!NoProc /\ Handoff!Door = parent[p]
            => parent[p] \notin dbs]_(Handoff!vars)
  <2> SUFFICES ASSUME HandoffInv, [AgentNext]_agentVars, NEW p \in Proc, p \in dbs' \ dbs,
                      parent[p] # Handoff!NoProc, Handoff!Door = parent[p], parent[p] \in dbs
               PROVE  FALSE
    OBVIOUS
  <2>1. Handoff!Next
    BY HandoffTurn DEF handoffVars
  <2>2. pc[p] = "cleared"
    BY <2>1 DEF Handoff!Next, Handoff!Step, Handoff!Launch, Handoff!CreateKey, Handoff!SpawnFails,
      Handoff!Panic, Handoff!Quit, Handoff!Kill, Handoff!Leaves, Handoff!Restart, Handoff!RestartAgain,
      Handoff!Await, Handoff!Answered, Handoff!Open, Handoff!Listen, Handoff!Conflict, Handoff!Teardown,
      Handoff!Release, Handoff!CloseHttp, Handoff!CloseHttps, Handoff!Exit
  <2>3. parent[p] \in Proc
    BY DEF HandoffInv, HandoffShape, Handoff!NoProc
  <2>4. pc[parent[p]] = "stopping"
    BY <2>3 DEF HandoffInv, HoldsInv, CopyInv, Opened, Leaving
  <2> QED
    BY <2>2, <2>3, <2>4 DEF HandoffInv, WaitInv
<1>2. HandoffInv => Handoff!TypeOK /\ Handoff!OneServer /\ Handoff!AskerFreed
  BY HandoffSafe
<1> QED
  BY <1>1, <1>2, HandoffCorrect, PTL DEF AgentSpec, HandoffOneServer, Handoff!SuccessorWaits

----------------------------------------------------------------------------
(* Keys, sessions and tray tokens: the inductive invariant                 *)

CallOp == {"none", "call", "paste", "bootstrap", "tray", "cookie"}
CallPlace == {"idle", "generate", "mint", "prune", "open", "scan", "cookie",
              "done", "failed", "accepted", "refused", "signed in"}
Call == [op : CallOp, pc : CallPlace, key : Nat, scan : SUBSET Nat]

\* The file has every key of the memory, and what a lost write did not remove
StoreInv ==
  /\ keyFile \subseteq Keys!Key /\ keys \subseteq keyFile
  /\ \A k, l \in keyFile : k.id = l.id => k = l
  /\ \A k \in keyFile : k.id < nextId
  /\ nextId \in 1..(MaxKeys + 1) /\ fileNext = nextId
  /\ Keys!CacheLive

CallsInv ==
  /\ calls \in [Actor -> Call]
  /\ sessions \in [Actor -> Nat] /\ sessionFile \in [Actor -> Nat]
  /\ keyFaults \in Nat
  /\ \A a \in Actor :
       /\ calls[a].pc = "idle" => calls[a].op = "none"
       /\ calls[a].pc \in {"mint", "prune"} => calls[a].op = "tray"
       /\ calls[a].pc = "scan" => calls[a].op \in {"call", "paste"}

\* A claim's key from its creation on: the reaper has spared it
Spared(id) ==
  /\ id < nextId
  /\ \/ id \in Keys!ActiveIds(keys) \/ id \in gone
     \/ nextId - 1 - id >= Kept

Fresh(a) == calls[a].op = "tray" /\ calls[a].pc \in {"prune", "open"}

FreshInv == \A a \in Actor : Fresh(a) => Spared(calls[a].key)

\* While nobody removed a key and nothing failed, a pile above the bound has a reaper coming
Trays(list) == {k \in list : k.tray}
Reaper == \E a \in Actor : calls[a].pc = "prune"

TrayInv ==
  keyFaults = 0 /\ gone = {} =>
    /\ \A k \in keys : k.active /\ (k.tray => k.admin)
    /\ Reaper \/ Cardinality(Trays(keys)) <= Kept

Claims == {a \in Actor : calls[a].op = "tray"}
TokenInv == tokens \in Nat /\ Cardinality(Claims) + tokens <= Tokens

KeysInv == StoreInv /\ CallsInv /\ FreshInv /\ TrayInv /\ TokenInv

LEMMA SameCardinality ==
  ASSUME NEW S
  PROVE  Keys!Cardinality(S) = Cardinality(S)
BY DEF Keys!Cardinality, Cardinality

\* A set of keys that have ids of their own is as large as its ids, at most an interval of them
LEMMA KeysCount ==
  ASSUME NEW S, NEW lo \in Nat, NEW hi \in Nat,
         \A k \in S : k.id \in Nat /\ lo < k.id /\ k.id <= hi,
         \A k, l \in S : k.id = l.id => k = l
  PROVE  IsFiniteSet(S) /\ (lo <= hi => Cardinality(S) <= hi - lo)
<1> DEFINE f == [k \in S |-> k.id]
           T == (lo + 1)..hi
<1>1. \A k \in S : k.id \in T
  OBVIOUS
<1>2. f \in [S -> T]
  BY <1>1
<1>3. f \in Injection(S, T)
  BY <1>2 DEF Injection, IsInjective
<1>4. IsFiniteSet(T) /\ Cardinality(T) = IF lo + 1 > hi THEN 0 ELSE hi - (lo + 1) + 1
  BY FS_Interval
<1>5. IsFiniteSet(S) /\ Cardinality(S) <= Cardinality(T)
  BY <1>3, <1>4, FS_Injection
<1> QED
  BY <1>4, <1>5

LEMMA Least ==
  ASSUME NEW T, T \in SUBSET Nat, T # {}
  PROVE  \E m \in T : \A k \in T : m <= k
<1>1. PICK R : R = OpToRel(<, Nat)
  OBVIOUS
<1>2. R = {ss \in Nat \X Nat : ss[1] < ss[2]}
  BY <1>1 DEF OpToRel
<1>3. IsWellFoundedOn(R, Nat)
  BY <1>1, NatLessThanWellFounded
<1>4. PICK x \in T : \A y \in T : ~(<<y, x>> \in R)
  BY <1>3, WFMin
<1>5. \A y \in T : <<y, x>> \in R <=> y < x
  BY <1>2
<1> QED
  <2>1. x \in Nat /\ \A y \in T : y \in Nat /\ ~(y < x)
    BY <1>4, <1>5
  <2> QED
    BY <2>1

LEMMA Numbers ==
  /\ Kept \in Nat /\ Kept > 0 /\ MaxKeys \in Nat /\ MaxKeys > 0 /\ Tokens \in Nat /\ MaxFaults \in Nat
  /\ IsFiniteSet(Actor) /\ \A a \in Actor : a \in Nat
BY KeysAssumption

LEMMA StoreNumbers ==
  ASSUME StoreInv
  PROVE  /\ nextId \in Nat /\ nextId >= 1
         /\ \A k \in keyFile : k.id \in Nat /\ k.id >= 1 /\ k.id < nextId /\ k.active \in BOOLEAN
                               /\ k.admin \in BOOLEAN /\ k.tray \in BOOLEAN
         /\ IsFiniteSet(keyFile) /\ IsFiniteSet(keys)
<1>1. /\ nextId \in Nat /\ nextId >= 1
      /\ \A k \in keyFile : k.id \in Nat /\ k.id >= 1 /\ k.id < nextId /\ k.active \in BOOLEAN
                               /\ k.admin \in BOOLEAN /\ k.tray \in BOOLEAN
  BY Numbers DEF StoreInv, Keys!Key
<1>2. IsFiniteSet(keyFile)
  <2>1. \A k \in keyFile : k.id \in Nat /\ 0 < k.id /\ k.id <= nextId
    BY <1>1
  <2> QED
    BY <1>1, <2>1, KeysCount DEF StoreInv
<1>3. IsFiniteSet(keys)
  BY <1>2, FS_Subset DEF StoreInv
<1> QED
  BY <1>1, <1>2, <1>3

LEMMA ClaimsFinite == IsFiniteSet(Claims) /\ Cardinality(Claims) \in Nat
BY Numbers, FS_Subset, FS_CardinalityType DEF Claims

\* No new claim
LEMMA TokensKept ==
  ASSUME TokenInv, Claims' \subseteq Claims, tokens' \in Nat, tokens' <= tokens
  PROVE  TokenInv'
<1>1. IsFiniteSet(Claims) /\ Cardinality(Claims) \in Nat
  BY ClaimsFinite
<1>2. IsFiniteSet(Claims') /\ Cardinality(Claims') <= Cardinality(Claims)
  BY <1>1, FS_Subset
<1>3. Cardinality(Claims') \in Nat
  BY <1>2, FS_CardinalityType
<1> QED
  BY <1>1, <1>2, <1>3, Numbers DEF TokenInv

LEMMA KeysStart == Keys!Init => KeysInv
<1> SUFFICES ASSUME Keys!Init PROVE KeysInv
  OBVIOUS
<1> USE Numbers DEF Keys!Init
<1>1. StoreInv
  <2>1. CASE keys = {} /\ nextId = 1
    BY <2>1 DEF StoreInv, Keys!CacheLive, Keys!ActiveIds, Keys!Ids, Keys!Active
  <2>2. CASE keys = {[id |-> 1, admin |-> TRUE, tray |-> FALSE, active |-> TRUE]} /\ nextId = 2
    BY <2>2 DEF StoreInv, Keys!CacheLive, Keys!Key
  <2> QED
    BY <2>1, <2>2
<1>2. \A a \in Actor : calls[a] = [op |-> "none", pc |-> "idle", key |-> 0, scan |-> {}]
  BY DEF Keys!NoKey
<1>3. CallsInv
  <2>1. [op |-> "none", pc |-> "idle", key |-> 0, scan |-> {}] \in Call
    BY DEF Call, CallOp, CallPlace
  <2> QED
    BY <1>2, <2>1 DEF CallsInv, Keys!NoKey
<1>4. FreshInv
  BY <1>2 DEF FreshInv, Fresh
<1>5. TrayInv
  <2>1. Trays(keys) = {}
    BY DEF Trays
  <2>2. Cardinality({}) = 0
    BY FS_EmptySet
  <2>3. \A k \in keys : k.active /\ ~k.tray
    OBVIOUS
  <2> QED
    BY <2>1, <2>2, <2>3 DEF TrayInv
<1>6. TokenInv
  <2>1. Claims = {}
    BY <1>2 DEF Claims
  <2>2. Cardinality({}) = 0
    BY FS_EmptySet
  <2> QED
    BY <2>1, <2>2 DEF TokenInv
<1> QED
  BY <1>1, <1>3, <1>4, <1>5, <1>6 DEF KeysInv

LEMMA KeysSame == ASSUME KeysInv, UNCHANGED keyVars PROVE KeysInv'
BY DEF keyVars, KeysInv, StoreInv, CallsInv, FreshInv, TrayInv, TokenInv, Claims, Reaper, Trays, Fresh, Spared,
  Keys!CacheLive, Keys!ActiveIds, Keys!Ids, Keys!Active

----------------------------------------------------------------------------
(* The steps                                                               *)

Others(a) == \A b \in Actor : b # a => calls'[b] = calls[b]

\* A request moves on and the store is as it was, or a write is lost
Quiet(a) ==
  /\ UNCHANGED <<keys, nextId, keyFile, fileNext, gone>>
  /\ keyFaults' \in {keyFaults, keyFaults + 1}
  /\ Others(a)
  /\ calls[a].pc # "prune" /\ ~(calls'[a].op = "tray" /\ calls'[a].pc \in {"prune", "open"})

LEMMA QuietKeeps ==
  ASSUME KeysInv, NEW a \in Actor, Quiet(a), Keys!CacheLive', CallsInv', TokenInv'
  PROVE  KeysInv'
<1>1. StoreInv'
  BY DEF KeysInv, StoreInv, Quiet
<1>2. FreshInv'
  <2> SUFFICES ASSUME NEW b \in Actor, Fresh(b)' PROVE Spared(calls[b].key)'
    BY DEF FreshInv
  <2>1. b # a
    BY DEF Fresh, Quiet
  <2>2. calls'[b] = calls[b] /\ Fresh(b)
    BY <2>1 DEF Fresh, Quiet, Others
  <2>3. Spared(calls[b].key)
    BY <2>2 DEF KeysInv, FreshInv
  <2> QED
    BY <2>2, <2>3 DEF Spared, Quiet, Keys!ActiveIds, Keys!Ids, Keys!Active
<1>3. TrayInv'
  <2>1. keyFaults' = 0 => keyFaults = 0
    BY DEF Quiet, KeysInv, CallsInv
  <2>2. Reaper => Reaper'
    BY DEF Reaper, Quiet, Others
  <2>3. keys' = keys /\ gone' = gone /\ Trays(keys)' = Trays(keys)
    BY DEF Quiet, Trays
  <2> QED
    BY <2>1, <2>2, <2>3 DEF KeysInv, TrayInv
<1> QED
  BY <1>1, <1>2, <1>3 DEF KeysInv

\* The records of a request that goes somewhere or ends
LEMMA GoesRecord ==
  ASSUME CallsInv, NEW a \in Actor, NEW op \in CallOp, NEW place \in CallPlace, NEW id \in Nat,
         NEW scan \in SUBSET Nat, Keys!Goes(a, op, place, id, scan)
  PROVE  /\ calls' \in [Actor -> Call] /\ Others(a)
         /\ calls'[a] = [op |-> op, pc |-> place, key |-> id, scan |-> scan]
<1>1. [op |-> op, pc |-> place, key |-> id, scan |-> scan] \in Call
  BY DEF Call
<1> QED
  BY <1>1 DEF Keys!Goes, CallsInv, Others

LEMMA EndsRecord ==
  ASSUME CallsInv, NEW a \in Actor, NEW how \in CallPlace, Keys!Ends(a, how)
  PROVE  /\ calls' \in [Actor -> Call] /\ Others(a)
         /\ calls'[a].op = calls[a].op /\ calls'[a].pc = how /\ calls'[a].key = calls[a].key
         /\ calls'[a].scan = {}
<1>1. calls[a] \in Call
  BY DEF CallsInv
<1>2. [calls[a] EXCEPT !.pc = how, !.scan = {}] \in Call
  BY <1>1 DEF Call
<1>3. calls' = [calls EXCEPT ![a] = [calls[a] EXCEPT !.pc = how, !.scan = {}]]
  BY DEF Keys!Ends, CallsInv
<1>4. calls'[a] = [calls[a] EXCEPT !.pc = how, !.scan = {}]
  BY <1>3 DEF CallsInv
<1> QED
  BY <1>1, <1>2, <1>3, <1>4 DEF CallsInv, Others, Call

\* The calls after a step of one of them
LEMMA CallsStep ==
  ASSUME CallsInv, NEW a \in Actor, calls' \in [Actor -> Call], Others(a),
         calls'[a].pc = "idle" => calls'[a].op = "none",
         calls'[a].pc \in {"mint", "prune"} => calls'[a].op = "tray",
         calls'[a].pc = "scan" => calls'[a].op \in {"call", "paste"},
         sessions' \in [Actor -> Nat], sessionFile' \in [Actor -> Nat], keyFaults' \in Nat
  PROVE  CallsInv'
<1> SUFFICES ASSUME NEW b \in Actor
             PROVE  /\ calls'[b].pc = "idle" => calls'[b].op = "none"
                    /\ calls'[b].pc \in {"mint", "prune"} => calls'[b].op = "tray"
                    /\ calls'[b].pc = "scan" => calls'[b].op \in {"call", "paste"}
  BY DEF CallsInv
<1> QED
  BY DEF CallsInv, Others

\* A step that leaves the claims as they are
LEMMA ClaimsStep ==
  ASSUME TokenInv, NEW a \in Actor, Others(a), tokens' = tokens,
         calls'[a].op = "tray" => calls[a].op = "tray"
  PROVE  TokenInv'
<1>1. Claims' \subseteq Claims
  BY DEF Claims, Others
<1> QED
  BY <1>1, TokensKept, Numbers DEF TokenInv

LEMMA PresentKeeps ==
  ASSUME KeysInv, NEW a \in Actor, Keys!Present(a)
  PROVE  KeysInv'
<1> USE DEF KeysInv
<1>1. PICK op \in {"call", "paste"}, id \in 1..(nextId - 1) :
        IF id \in verified /\ id \in Keys!ActiveIds(keys)
        THEN Keys!Goes(a, op, IF op = "call" THEN "accepted" ELSE "open", id, {})
        ELSE Keys!Goes(a, op, "scan", id, Keys!ActiveIds(keys))
  BY DEF Keys!Present
<1>2. /\ calls[a].pc = "idle" /\ verified' = verified \cap Keys!ActiveIds(keys)
      /\ UNCHANGED <<keys, nextId, keyFile, fileNext, sessions, sessionFile, tokens, gone, keyFaults>>
  BY DEF Keys!Present, Keys!Starts, Keys!browser
<1>3. id \in Nat /\ Keys!ActiveIds(keys) \in SUBSET Nat
  BY StoreNumbers DEF StoreInv, Keys!ActiveIds, Keys!Ids, Keys!Active
<1>4. PICK place \in CallPlace, scan \in SUBSET Nat :
        Keys!Goes(a, op, place, id, scan) /\ place \in {"accepted", "open", "scan"}
  BY <1>1, <1>3 DEF CallPlace
<1>5. /\ calls' \in [Actor -> Call] /\ Others(a)
      /\ calls'[a] = [op |-> op, pc |-> place, key |-> id, scan |-> scan]
  BY <1>3, <1>4, GoesRecord DEF CallOp
<1>6. CallsInv'
  BY <1>2, <1>4, <1>5, CallsStep DEF CallsInv
<1>7. TokenInv'
  BY <1>2, <1>5, ClaimsStep
<1>8. Keys!CacheLive'
  BY <1>2 DEF Keys!CacheLive, Keys!ActiveIds, Keys!Ids, Keys!Active
<1>9. Quiet(a)
  BY <1>2, <1>5 DEF Quiet
<1> QED
  BY <1>6, <1>7, <1>8, <1>9, QuietKeeps

LEMMA MatchKeeps ==
  ASSUME KeysInv, NEW a \in Actor, Keys!Match(a)
  PROVE  KeysInv'
<1> USE DEF KeysInv
<1>1. PICK how \in CallPlace : Keys!Ends(a, how) /\ how \in {"accepted", "open", "refused"}
  BY DEF Keys!Match, CallPlace
<1>2. /\ calls[a].pc = "scan" /\ calls[a].op \in {"call", "paste"}
      /\ UNCHANGED <<keys, nextId, keyFile, fileNext, sessions, sessionFile, tokens, gone, keyFaults>>
  BY DEF Keys!Match, Keys!browser, CallsInv
<1>3. /\ calls' \in [Actor -> Call] /\ Others(a)
      /\ calls'[a].op = calls[a].op /\ calls'[a].pc = how
  BY <1>1, EndsRecord
<1>4. CallsInv'
  BY <1>1, <1>2, <1>3, CallsStep DEF CallsInv
<1>5. TokenInv'
  BY <1>2, <1>3, ClaimsStep
<1>6. Keys!CacheLive'
  BY <1>2 DEF Keys!Match, Keys!StillLive, StoreInv, Keys!CacheLive, Keys!ActiveIds, Keys!Ids, Keys!Active
<1>7. Quiet(a)
  BY <1>2, <1>3 DEF Quiet
<1> QED
  BY <1>4, <1>5, <1>6, <1>7, QuietKeeps

LEMMA CacheKept ==
  ASSUME StoreInv, verified' = verified, keys' = keys PROVE Keys!CacheLive'
BY DEF StoreInv, Keys!CacheLive, Keys!ActiveIds, Keys!Ids, Keys!Active

LEMMA BootstrapKeeps ==
  ASSUME KeysInv, NEW a \in Actor, Keys!Bootstrap(a) \/ Keys!Cookie(a)
  PROVE  KeysInv'
<1> USE DEF KeysInv
<1>1. PICK op \in CallOp, place \in CallPlace, id \in Nat, scan \in SUBSET Nat :
        /\ Keys!Goes(a, op, place, id, scan)
        /\ op \in {"bootstrap", "cookie"} /\ place \in {"generate", "cookie"}
  <2>1. CASE Keys!Bootstrap(a)
    BY <2>1 DEF Keys!Bootstrap, Keys!NoKey, CallOp, CallPlace
  <2>2. CASE Keys!Cookie(a)
    <3>1. PICK b \in Actor : Keys!Goes(a, "cookie", "cookie", sessions[b], {b})
      BY <2>2 DEF Keys!Cookie
    <3>2. sessions[b] \in Nat /\ {b} \in SUBSET Nat
      BY Numbers DEF CallsInv
    <3> QED
      BY <3>1, <3>2 DEF CallOp, CallPlace
  <2> QED
    BY <2>1, <2>2
<1>2. /\ calls[a].pc = "idle"
      /\ UNCHANGED <<keys, nextId, keyFile, fileNext, verified, sessions, sessionFile, tokens, gone,
                     keyFaults>>
  BY DEF Keys!Bootstrap, Keys!Cookie, Keys!Starts, Keys!browser, Keys!store
<1>3. /\ calls' \in [Actor -> Call] /\ Others(a)
      /\ calls'[a] = [op |-> op, pc |-> place, key |-> id, scan |-> scan]
  BY <1>1, GoesRecord
<1>4. CallsInv'
  BY <1>1, <1>2, <1>3, CallsStep DEF CallsInv
<1>5. TokenInv'
  BY <1>1, <1>2, <1>3, ClaimsStep
<1>6. Quiet(a)
  BY <1>1, <1>2, <1>3 DEF Quiet
<1> QED
  BY <1>2, <1>4, <1>5, <1>6, CacheKept, QuietKeeps

LEMMA ClaimKeeps ==
  ASSUME KeysInv, NEW a \in Actor, Keys!ClaimToken(a)
  PROVE  KeysInv'
<1> USE DEF KeysInv
<1>1. PICK place \in {"mint", "refused"} : Keys!Goes(a, "tray", place, 0, {})
  BY DEF Keys!ClaimToken, Keys!NoKey
<1>2. /\ calls[a].pc = "idle" /\ calls[a].op = "none" /\ tokens > 0 /\ tokens' = tokens - 1
      /\ UNCHANGED <<keys, nextId, keyFile, fileNext, verified, sessions, sessionFile, gone, keyFaults>>
  BY DEF Keys!ClaimToken, Keys!TokenTaken, Keys!Starts, Keys!browser, Keys!store, CallsInv
<1>3. /\ calls' \in [Actor -> Call] /\ Others(a)
      /\ calls'[a] = [op |-> "tray", pc |-> place, key |-> 0, scan |-> {}]
  <2>1. "tray" \in CallOp /\ place \in CallPlace /\ 0 \in Nat /\ {} \in SUBSET Nat
    BY DEF CallOp, CallPlace
  <2> QED
    BY <1>1, <2>1, GoesRecord
<1>4. CallsInv'
  BY <1>2, <1>3, CallsStep DEF CallsInv
<1>5. TokenInv'
  <2>1. Claims' = Claims \cup {a} /\ a \notin Claims
    BY <1>2, <1>3 DEF Claims, Others
  <2>2. Cardinality(Claims') = Cardinality(Claims) + 1
    BY <2>1, ClaimsFinite, FS_AddElement
  <2> QED
    BY <1>2, <2>2, ClaimsFinite, Numbers DEF TokenInv
<1>6. Quiet(a)
  BY <1>2, <1>3 DEF Quiet
<1> QED
  BY <1>2, <1>4, <1>5, <1>6, CacheKept, QuietKeeps

\* What becomes of the sessions is nothing the keys depend on
LEMMA BrowserKeeps ==
  ASSUME KeysInv, NEW a \in Actor, Keys!OpenSession(a) \/ Keys!CookieKey(a) \/ Keys!Logout(a)
  PROVE  KeysInv'
<1> USE DEF KeysInv
<1>1. PICK how \in CallPlace : Keys!Ends(a, how) /\ how \in {"signed in", "failed", "accepted", "refused", "done"}
  BY DEF Keys!OpenSession, Keys!CookieKey, Keys!Logout, CallPlace
<1>2. calls[a].pc \in {"open", "cookie", "idle"}
  BY DEF Keys!OpenSession, Keys!CookieKey, Keys!Logout, Keys!Starts
<1>3. UNCHANGED <<keys, nextId, keyFile, fileNext, verified, tokens, gone>>
  BY DEF Keys!OpenSession, Keys!CookieKey, Keys!Logout, Keys!store
<1>4. keyFaults' \in {keyFaults, keyFaults + 1} /\ keyFaults' \in Nat
  <2>1. keyFaults' = keyFaults \/ keyFaults' = keyFaults + 1
    BY DEF Keys!OpenSession, Keys!CookieKey, Keys!Logout
  <2>2. keyFaults \in Nat
    BY DEF CallsInv
  <2> QED
    BY <2>1, <2>2
<1>5. sessions' \in [Actor -> Nat] /\ sessionFile' \in [Actor -> Nat]
  <2>1. CASE Keys!OpenSession(a)
    <3>1. calls[a].key \in Nat
      BY DEF CallsInv, Call
    <3>2. sessions' \in [Actor -> Nat]
      BY <2>1, <3>1 DEF Keys!OpenSession, CallsInv, Keys!NoKey
    <3> QED
      BY <2>1, <3>2 DEF Keys!OpenSession, CallsInv
  <2>2. CASE Keys!CookieKey(a)
    <3>1. CASE UNCHANGED <<sessions, sessionFile>>
      BY <3>1 DEF CallsInv
    <3>2. CASE sessions' = [b \in Actor |-> IF b \in calls[a].scan THEN 0 ELSE sessions[b]]
      <4>1. sessions' \in [Actor -> Nat]
        BY <3>2 DEF CallsInv
      <4> QED
        BY <2>2, <4>1 DEF Keys!CookieKey, CallsInv, Keys!browser
    <3> QED
      BY <2>2, <3>1, <3>2 DEF Keys!CookieKey, Keys!NoKey, Keys!browser
  <2>3. CASE Keys!Logout(a)
    BY <2>3 DEF Keys!Logout, CallsInv, Keys!NoKey
  <2> QED
    BY <2>1, <2>2, <2>3
<1>6. /\ calls' \in [Actor -> Call] /\ Others(a)
      /\ calls'[a].op = calls[a].op /\ calls'[a].pc = how
  BY <1>1, EndsRecord
<1>7. CallsInv'
  BY <1>1, <1>4, <1>5, <1>6, CallsStep
<1>8. TokenInv'
  BY <1>3, <1>6, ClaimsStep
<1>9. Quiet(a)
  BY <1>1, <1>2, <1>3, <1>4, <1>6 DEF Quiet
<1> QED
  BY <1>3, <1>7, <1>8, <1>9, CacheKept, QuietKeeps

----------------------------------------------------------------------------
(* Creations, removals, restarts *)

LEMMA CreateRecord ==
  ASSUME CallsInv, StoreInv, NEW a \in Actor, NEW place \in CallPlace,
         calls' = [calls EXCEPT ![a].pc = place, ![a].key = nextId]
  PROVE  /\ calls' \in [Actor -> Call] /\ Others(a)
         /\ calls'[a].op = calls[a].op /\ calls'[a].pc = place /\ calls'[a].key = nextId
<1>1. calls[a] \in Call /\ nextId \in Nat
  BY StoreNumbers DEF CallsInv
<1>2. [calls[a] EXCEPT !.pc = place, !.key = nextId] \in Call
  BY <1>1 DEF Call
<1>3. calls' = [calls EXCEPT ![a] = [calls[a] EXCEPT !.pc = place, !.key = nextId]]
  BY DEF CallsInv
<1>4. calls'[a] = [calls[a] EXCEPT !.pc = place, !.key = nextId]
  BY <1>3 DEF CallsInv
<1> QED
  BY <1>1, <1>2, <1>3, <1>4 DEF CallsInv, Others, Call

\* A creation that is written
LEMMA CreatedKeeps ==
  ASSUME KeysInv, NEW a \in Actor, NEW admin \in BOOLEAN, NEW tray \in BOOLEAN,
         NEW place \in {"done", "prune"},
         tray => place = "prune" /\ admin, ~tray => place = "done",
         place = "prune" => calls[a].op = "tray", calls[a].pc # "prune", nextId <= MaxKeys,
         keys' = keys \cup {Keys!New(admin, tray)}, nextId' = nextId + 1,
         keyFile' = keys', fileNext' = nextId',
         calls' = [calls EXCEPT ![a].pc = place, ![a].key = nextId],
         UNCHANGED <<verified, sessions, sessionFile, tokens, gone, keyFaults>>
  PROVE  KeysInv'
<1> USE DEF KeysInv
<1>1. PICK new \in Keys!Key : new = Keys!New(admin, tray)
  <2>1. nextId \in 1..MaxKeys
    BY Numbers DEF StoreInv
  <2> QED
    BY <2>1 DEF Keys!New, Keys!Key
<1>2. /\ new.id = nextId /\ new.admin = admin /\ new.tray = tray /\ new.active = TRUE
      /\ keys' = keys \cup {new}
  BY <1>1 DEF Keys!New
<1>3. nextId \in Nat /\ \A k \in keys : k.id \in Nat /\ k.id < nextId
  BY StoreNumbers DEF StoreInv
<1>4. /\ calls' \in [Actor -> Call] /\ Others(a)
      /\ calls'[a].op = calls[a].op /\ calls'[a].pc = place /\ calls'[a].key = nextId
  BY CreateRecord DEF CallPlace
<1>5. Keys!ActiveIds(keys)' = Keys!ActiveIds(keys) \cup {nextId}
  BY <1>2 DEF Keys!ActiveIds, Keys!Ids, Keys!Active
<1>6. StoreInv'
  <2>1. keyFile' \subseteq Keys!Key /\ keys' \subseteq keyFile'
    BY <1>1, <1>2 DEF StoreInv
  <2>2. \A k, l \in keyFile' : k.id = l.id => k = l
    BY <1>2, <1>3 DEF StoreInv
  <2>3. \A k \in keyFile' : k.id < nextId'
    BY <1>2, <1>3
  <2>4. nextId' \in 1..(MaxKeys + 1)
    BY <1>3, Numbers
  <2>5. Keys!CacheLive'
    BY <1>5 DEF StoreInv, Keys!CacheLive
  <2> QED
    BY <2>1, <2>2, <2>3, <2>4, <2>5 DEF StoreInv
<1>7. CallsInv'
  BY <1>4, CallsStep DEF CallsInv
<1>8. FreshInv'
  <2> SUFFICES ASSUME NEW b \in Actor, Fresh(b)' PROVE Spared(calls[b].key)'
    BY DEF FreshInv
  <2>1. CASE b = a
    <3>1. nextId < nextId'
      BY <1>3
    <3>2. nextId \in Keys!ActiveIds(keys)'
      BY <1>5
    <3>3. calls'[b].key = nextId
      BY <1>4, <2>1
    <3> QED
      BY <3>1, <3>2, <3>3 DEF Spared
  <2>2. CASE b # a
    <3>1. calls'[b] = calls[b] /\ Fresh(b)
      BY <1>4, <2>2 DEF Fresh, Others
    <3>2. Spared(calls[b].key) /\ calls[b].key \in Nat
      BY <3>1 DEF FreshInv, CallsInv, Call
    <3>3. PICK id \in Nat : id = calls[b].key
      BY <3>2
    <3>4. id < nextId => id < nextId'
      BY <1>3
    <3>5. nextId - 1 - id >= Kept => nextId' - 1 - id >= Kept
      BY <1>3, Numbers
    <3>6. gone' = gone /\ calls'[b].key = id
      BY <3>1, <3>3
    <3> QED
      BY <1>5, <3>2, <3>3, <3>4, <3>5, <3>6 DEF Spared
  <2> QED
    BY <2>1, <2>2
<1>9. TrayInv'
  <2> SUFFICES ASSUME keyFaults = 0, gone = {}
               PROVE  /\ \A k \in keys' : k.active /\ (k.tray => k.admin)
                      /\ Reaper' \/ Cardinality(Trays(keys)') <= Kept
    BY DEF TrayInv
  <2>1. \A k \in keys' : k.active /\ (k.tray => k.admin)
    BY <1>2 DEF TrayInv
  <2>2. CASE place = "prune"
    <3>1. Reaper'
      BY <1>4, <2>2 DEF Reaper
    <3> QED
      BY <2>1, <3>1
  <2>3. CASE place = "done"
    <3>1. Trays(keys)' = Trays(keys)
      BY <1>2, <2>3 DEF Trays
    <3>2. Reaper => Reaper'
      BY <1>4 DEF Reaper, Others
    <3> QED
      BY <2>1, <3>1, <3>2 DEF TrayInv
  <2> QED
    BY <2>2, <2>3
<1>10. TokenInv'
  BY <1>4, ClaimsStep
<1> QED
  BY <1>6, <1>7, <1>8, <1>9, <1>10

\* A write that is lost, and the creation or revocation with it
LEMMA LostKeeps ==
  ASSUME KeysInv, NEW a \in Actor, calls[a].pc # "prune", Keys!Ends(a, "failed"),
         keyFaults' = keyFaults + 1, verified' \subseteq verified,
         UNCHANGED <<keys, nextId, keyFile, fileNext, sessions, sessionFile, tokens, gone>>
  PROVE  KeysInv'
<1> USE DEF KeysInv
<1>1. /\ calls' \in [Actor -> Call] /\ Others(a)
      /\ calls'[a].op = calls[a].op /\ calls'[a].pc = "failed"
  BY EndsRecord DEF CallPlace
<1>2. CallsInv'
  BY <1>1, CallsStep DEF CallsInv
<1>3. TokenInv'
  BY <1>1, ClaimsStep
<1>4. Keys!CacheLive'
  BY DEF StoreInv, Keys!CacheLive, Keys!ActiveIds, Keys!Ids, Keys!Active
<1>5. Quiet(a)
  BY <1>1 DEF Quiet
<1> QED
  BY <1>2, <1>3, <1>4, <1>5, QuietKeeps

LEMMA CreateKeeps ==
  ASSUME KeysInv, NEW a \in Actor, Keys!Generate(a) \/ Keys!MintTray(a)
  PROVE  KeysInv'
<1>1. PICK admin \in BOOLEAN, tray \in BOOLEAN, place \in {"done", "prune"} :
        /\ Keys!Create(a, admin, tray, place)
        /\ tray => place = "prune" /\ admin
        /\ ~tray => place = "done"
        /\ place = "prune" => calls[a].pc = "mint"
  BY DEF Keys!Generate, Keys!MintTray
<1>2. calls[a].pc # "prune" /\ (place = "prune" => calls[a].op = "tray")
  BY <1>1 DEF Keys!Generate, Keys!MintTray, Keys!Starts, KeysInv, CallsInv
<1>3. UNCHANGED <<verified, sessions, sessionFile, tokens, gone>> /\ nextId <= MaxKeys
  BY <1>1 DEF Keys!Create, Keys!browser
<1>4. CASE keys' = keys \cup {Keys!New(admin, tray)}
           /\ nextId' = nextId + 1 /\ Keys!Written(keys', nextId')
           /\ calls' = [calls EXCEPT ![a].pc = place, ![a].key = nextId]
  BY <1>1, <1>2, <1>3, <1>4, CreatedKeeps DEF Keys!Written
<1>5. CASE Keys!WriteLost /\ UNCHANGED <<keys, nextId>> /\ Keys!Ends(a, "failed")
  BY <1>2, <1>3, <1>5, LostKeeps DEF Keys!WriteLost
<1> QED
  BY <1>1, <1>4, <1>5 DEF Keys!Create

\* Deleted or revoked: the key's id is gone, the others are as they were
LEMMA RemovedKeeps ==
  ASSUME KeysInv, NEW a \in Actor, NEW id, NEW how \in {"done", "failed"},
         calls[a].pc = "idle", Keys!Ends(a, how),
         gone' = gone \cup {id}, verified' = verified \ {id},
         Keys!ActiveIds(keys) \ {id} \subseteq Keys!ActiveIds(keys)',
         StoreInv', keyFaults' \in Nat,
         UNCHANGED <<nextId, sessions, sessionFile, tokens>>
  PROVE  KeysInv'
<1> USE DEF KeysInv
<1>1. /\ calls' \in [Actor -> Call] /\ Others(a)
      /\ calls'[a].op = calls[a].op /\ calls'[a].pc = how
  BY EndsRecord DEF CallPlace
<1>2. CallsInv'
  BY <1>1, CallsStep DEF CallsInv
<1>3. TokenInv'
  BY <1>1, ClaimsStep
<1>4. FreshInv'
  <2> SUFFICES ASSUME NEW b \in Actor, Fresh(b)' PROVE Spared(calls[b].key)'
    BY DEF FreshInv
  <2>1. b # a
    BY <1>1 DEF Fresh
  <2>2. calls'[b] = calls[b] /\ Fresh(b)
    BY <1>1, <2>1 DEF Fresh, Others
  <2>3. Spared(calls[b].key)
    BY <2>2 DEF FreshInv
  <2> QED
    BY <2>2, <2>3 DEF Spared
<1>5. TrayInv'
  BY DEF TrayInv
<1> QED
  BY <1>2, <1>3, <1>4, <1>5

LEMMA DeleteKeeps ==
  ASSUME KeysInv, NEW a \in Actor, Keys!Delete(a)
  PROVE  KeysInv'
<1>1. PICK id \in Keys!Ids(keys), how \in {"done", "failed"} :
        /\ keys' = {k \in keys : k.id # id}
        /\ verified' = verified \ {id} /\ gone' = gone \cup {id} /\ nextId' = nextId
        /\ Keys!Ends(a, how) /\ (Keys!Written(keys', nextId) \/ Keys!WriteLost)
  BY DEF Keys!Delete
<1>2. calls[a].pc = "idle" /\ UNCHANGED <<sessions, sessionFile, tokens>>
  BY DEF Keys!Delete, Keys!Starts, Keys!browser
<1>3. keyFaults' \in Nat
  BY <1>1 DEF KeysInv, CallsInv, Keys!Written, Keys!WriteLost
<1>4. Keys!ActiveIds(keys)' = Keys!ActiveIds(keys) \ {id}
  BY <1>1 DEF Keys!ActiveIds, Keys!Ids, Keys!Active
<1>5. /\ keys' \subseteq keyFile' /\ keyFile' \subseteq keyFile /\ fileNext' = nextId'
  BY <1>1 DEF KeysInv, StoreInv, Keys!Written, Keys!WriteLost
<1>6. StoreInv'
  BY <1>1, <1>4, <1>5 DEF KeysInv, StoreInv, Keys!CacheLive
<1> QED
  BY <1>1, <1>2, <1>3, <1>4, <1>6, RemovedKeeps

LEMMA RevokeKeeps ==
  ASSUME KeysInv, NEW a \in Actor, Keys!Revoke(a)
  PROVE  KeysInv'
<1>1. PICK id \in Keys!Ids(keys) :
        /\ verified' = verified \ {id} /\ nextId' = nextId
        /\ \/ /\ keys' = {IF k.id = id THEN [k EXCEPT !.active = FALSE] ELSE k : k \in keys}
              /\ Keys!Written(keys', nextId) /\ gone' = gone \cup {id} /\ Keys!Ends(a, "done")
           \/ Keys!WriteLost /\ keys' = keys /\ gone' = gone /\ Keys!Ends(a, "failed")
  BY DEF Keys!Revoke
<1>2. calls[a].pc = "idle" /\ UNCHANGED <<sessions, sessionFile, tokens>>
  BY DEF Keys!Revoke, Keys!Starts, Keys!browser
<1>3. CASE Keys!WriteLost /\ keys' = keys /\ gone' = gone /\ Keys!Ends(a, "failed")
  BY <1>1, <1>2, <1>3, LostKeeps DEF Keys!WriteLost
<1>4. CASE keys' = {IF k.id = id THEN [k EXCEPT !.active = FALSE] ELSE k : k \in keys}
           /\ Keys!Written(keys', nextId) /\ gone' = gone \cup {id} /\ Keys!Ends(a, "done")
  <2> DEFINE after(k) == IF k.id = id THEN [k EXCEPT !.active = FALSE] ELSE k
  <2>1. keys' = {after(k) : k \in keys}
    BY <1>4
  <2>2. ASSUME NEW k \in keys
        PROVE  /\ after(k) \in Keys!Key /\ after(k).id = k.id
               /\ after(k).active <=> k.active /\ k.id # id
    <3>1. k \in Keys!Key
      BY DEF KeysInv, StoreInv
    <3> QED
      BY <3>1 DEF Keys!Key
  <2>3. keyFile' = keys' /\ fileNext' = nextId' /\ keyFaults' = keyFaults
    BY <1>1, <1>4 DEF Keys!Written
  <2> HIDE DEF after
  <2>4. Keys!ActiveIds(keys)' = Keys!ActiveIds(keys) \ {id}
    BY <2>1, <2>2 DEF Keys!ActiveIds, Keys!Ids, Keys!Active
  <2>5. /\ keyFile' \subseteq Keys!Key
        /\ \A k \in keyFile' : k.id < nextId'
        /\ \A k, l \in keyFile' : k.id = l.id => k = l
    BY <1>1, <2>1, <2>2, <2>3 DEF KeysInv, StoreInv
  <2>6. StoreInv'
    BY <1>1, <2>3, <2>4, <2>5 DEF KeysInv, StoreInv, Keys!CacheLive
  <2>7. keyFaults' \in Nat
    BY <2>3 DEF KeysInv, CallsInv
  <2> QED
    BY <1>1, <1>2, <1>4, <2>4, <2>6, <2>7, RemovedKeeps
<1> QED
  BY <1>1, <1>3, <1>4

LEMMA ReloadKeeps == ASSUME KeysInv, Keys!Restart PROVE KeysInv'
<1> USE DEF KeysInv
<1>1. /\ keyFaults' = keyFaults + 1 /\ keyFaults' \in Nat
      /\ keys' = keyFile /\ keyFile' = keyFile /\ fileNext' = fileNext /\ nextId' = fileNext
      /\ verified' = {} /\ tokens' = 0 /\ sessions' = sessionFile /\ sessionFile' = sessionFile
      /\ gone' = gone
  <2>1. keyFaults' = keyFaults + 1
    BY DEF Keys!Restart
  <2>2. keyFaults \in Nat
    BY DEF CallsInv
  <2>3. keyFaults' \in Nat
    BY <2>1, <2>2
  <2> QED
    BY <2>1, <2>3 DEF Keys!Restart
<1>2. StoreInv'
  BY <1>1 DEF StoreInv, Keys!CacheLive
<1>3. ASSUME NEW a \in Actor
      PROVE  /\ calls'[a] \in Call /\ calls'[a].pc \in {"idle", "failed"} /\ calls'[a].op = calls[a].op
             /\ calls'[a].pc = "idle" => calls[a].pc = "idle"
  <2>1. calls[a] \in Call /\ [calls[a] EXCEPT !.pc = "failed", !.scan = {}] \in Call
    BY DEF CallsInv, Call, CallPlace
  <2>2. calls'[a] = IF calls[a].pc = "idle" THEN calls[a]
                    ELSE [calls[a] EXCEPT !.pc = "failed", !.scan = {}]
    BY DEF Keys!Restart
  <2> QED
    BY <2>1, <2>2 DEF Call
<1>4. calls' = [a \in Actor |-> calls'[a]]
  BY DEF Keys!Restart
<1>5. CallsInv'
  <2>1. calls' \in [Actor -> Call]
    BY <1>3, <1>4
  <2>2. \A a \in Actor :
          /\ calls'[a].pc = "idle" => calls'[a].op = "none"
          /\ calls'[a].pc \notin {"mint", "prune", "scan"}
    BY <1>3 DEF CallsInv
  <2>3. sessions' \in [Actor -> Nat] /\ sessionFile' \in [Actor -> Nat]
    BY <1>1 DEF CallsInv
  <2> QED
    BY <1>1, <2>1, <2>2, <2>3 DEF CallsInv
<1>6. FreshInv'
  BY <1>3 DEF FreshInv, Fresh
<1>7. TrayInv'
  BY <1>1 DEF TrayInv, CallsInv
<1>8. TokenInv'
  <2>1. Claims' = Claims
    BY <1>3 DEF Claims
  <2>2. tokens' \in Nat /\ tokens' <= tokens
    BY <1>1 DEF TokenInv
  <2> QED
    BY <2>1, <2>2, TokensKept
<1> QED
  BY <1>2, <1>5, <1>6, <1>7, <1>8

\* Those with fewer than Kept newer ones are Kept at most
LEMMA NewestKeys ==
  ASSUME NEW M, IsFiniteSet(M), \A k \in M : k.id \in Nat, \A k, l \in M : k.id = l.id => k = l
  PROVE  Cardinality({k \in M : ~(Cardinality(Keys!Newer(k, M)) >= Kept)}) <= Kept
<1> DEFINE K == {k \in M : ~(Cardinality(Keys!Newer(k, M)) >= Kept)}
<1>1. K \subseteq M /\ IsFiniteSet(K)
  BY FS_Subset
<1>2. CASE K = {}
  <2>1. Cardinality(K) = 0
    BY <1>2, FS_EmptySet
  <2> QED
    BY <2>1, Numbers
<1>3. CASE K # {}
  <2> DEFINE ids == {k.id : k \in K}
  <2>1. ids \in SUBSET Nat /\ ids # {}
    BY <1>1, <1>3
  <2>2. PICK m \in ids : \A n \in ids : m <= n
    BY <2>1, Least
  <2>3. PICK s \in K : s.id = m
    BY <2>2
  <2>4. \A k \in K : s.id <= k.id
    BY <2>2, <2>3
  <2>5. ASSUME NEW x \in K \ {s} PROVE x \in Keys!Newer(s, M)
    <3>1. x \in M /\ s \in M /\ s.id <= x.id /\ x # s
      BY <2>4
    <3>2. x.id # s.id /\ x.id \in Nat /\ s.id \in Nat
      BY <3>1
    <3> QED
      BY <3>1, <3>2 DEF Keys!Newer
  <2>6. IsFiniteSet(Keys!Newer(s, M))
    BY FS_Subset DEF Keys!Newer
  <2>7. K \ {s} \subseteq Keys!Newer(s, M)
    BY <2>5
  <2>8. Cardinality(K \ {s}) <= Cardinality(Keys!Newer(s, M)) /\ IsFiniteSet(K \ {s})
    BY <2>6, <2>7, FS_Subset
  <2>9. /\ Cardinality(K \ {s}) \in Nat /\ Cardinality(Keys!Newer(s, M)) \in Nat
        /\ Cardinality(K) \in Nat
    BY <1>1, <2>6, <2>8, FS_CardinalityType
  <2>10. Cardinality(K \ {s}) = Cardinality(K) - 1
    BY <1>1, <2>3, FS_RemoveElement
  <2>11. ~(Cardinality(Keys!Newer(s, M)) >= Kept)
    BY <2>3
  <2>12. Cardinality(K) <= Kept
    BY <2>8, <2>9, <2>10, <2>11, Numbers
  <2> QED
    BY <2>12
<1> QED
  BY <1>2, <1>3

\* What a prune removes
PruneVictims == {id \in Keys!Surplus(Trays(keys)) : ~Keys!LastActiveAdmin(id)}

LEMMA FindKey ==
  ASSUME StoreInv, NEW k \in keys
  PROVE  Keys!Find(k.id) = k
<1>1. \A l \in keys : l.id = k.id => l = k
  BY DEF StoreInv
<1> QED
  BY <1>1 DEF Keys!Find

\* A key of the surplus has Kept newer ones
LEMMA SurplusKey ==
  ASSUME StoreInv, NEW id \in Keys!Surplus(Trays(keys))
  PROVE  \E k \in Trays(keys) : k.id = id /\ Cardinality(Keys!Newer(k, Trays(keys))) >= Kept
BY SameCardinality DEF Keys!Surplus, Keys!Ids

LEMMA PruneFrame ==
  ASSUME KeysInv, NEW a \in Actor, Keys!Prune(a)
  PROVE  /\ calls[a].pc = "prune"
         /\ keys' = {k \in keys : k.id \notin PruneVictims}
         /\ verified' = verified \ PruneVictims
         /\ nextId' = nextId /\ fileNext' = fileNext
         /\ keyFile' = keyFile \/ keyFile' = keys'
         /\ keyFaults' \in {keyFaults, keyFaults + 1} /\ keyFaults' \in Nat
         /\ UNCHANGED <<sessions, sessionFile, tokens, gone>>
         /\ calls' \in [Actor -> Call] /\ Others(a)
         /\ calls'[a].op = calls[a].op /\ calls'[a].pc = "open" /\ calls'[a].key = calls[a].key
<1>1. PICK victims : victims = PruneVictims
  OBVIOUS
<1>2. victims = {id \in Keys!Surplus({k \in keys : k.tray}) : ~Keys!LastActiveAdmin(id)}
  BY <1>1 DEF PruneVictims, Trays
<1>3. /\ calls[a].pc = "prune"
      /\ keys' = {k \in keys : k.id \notin victims}
      /\ verified' = verified \ victims
      /\ UNCHANGED <<nextId, sessions, sessionFile, tokens, gone>>
      /\ calls' = [calls EXCEPT ![a].pc = "open"]
      /\ IF victims = {} THEN UNCHANGED <<keyFile, fileNext, keyFaults>>
         ELSE Keys!Written(keys', nextId) \/ Keys!WriteLost
  BY <1>2 DEF Keys!Prune, Keys!browser
<1>4. fileNext = nextId /\ keyFaults \in Nat
  BY DEF KeysInv, StoreInv, CallsInv
<1>5. /\ keyFile' = keyFile \/ keyFile' = keys'
      /\ fileNext' = fileNext /\ (keyFaults' = keyFaults \/ keyFaults' = keyFaults + 1)
  BY <1>3, <1>4 DEF Keys!Written, Keys!WriteLost
<1>6. calls[a] \in Call /\ [calls[a] EXCEPT !.pc = "open"] \in Call
  BY DEF KeysInv, CallsInv, Call, CallPlace
<1>7. calls' = [calls EXCEPT ![a] = [calls[a] EXCEPT !.pc = "open"]]
  BY <1>3 DEF KeysInv, CallsInv
<1>8. calls' \in [Actor -> Call] /\ Others(a) /\ calls'[a] = [calls[a] EXCEPT !.pc = "open"]
  BY <1>6, <1>7 DEF KeysInv, CallsInv, Others
<1> QED
  BY <1>1, <1>3, <1>4, <1>5, <1>6, <1>8 DEF Call

LEMMA PruneKeeps ==
  ASSUME KeysInv, NEW a \in Actor, Keys!Prune(a)
  PROVE  KeysInv'
<1>1. PICK victims : victims = PruneVictims
  OBVIOUS
<1>2. /\ calls[a].pc = "prune"
      /\ keys' = {k \in keys : k.id \notin victims}
      /\ verified' = verified \ victims
      /\ nextId' = nextId /\ fileNext' = fileNext
      /\ keyFile' = keyFile \/ keyFile' = keys'
      /\ keyFaults' \in {keyFaults, keyFaults + 1} /\ keyFaults' \in Nat
      /\ UNCHANGED <<sessions, sessionFile, tokens, gone>>
      /\ calls' \in [Actor -> Call] /\ Others(a)
      /\ calls'[a].op = calls[a].op /\ calls'[a].pc = "open" /\ calls'[a].key = calls[a].key
  BY <1>1, PruneFrame
<1>3. Keys!ActiveIds(keys)' = Keys!ActiveIds(keys) \ victims
  BY <1>2 DEF Keys!ActiveIds, Keys!Ids, Keys!Active
<1>4. StoreInv'
  BY <1>2, <1>3 DEF KeysInv, StoreInv, Keys!CacheLive
<1>5. CallsInv'
  BY <1>2, CallsStep DEF KeysInv, CallsInv
<1>6. TokenInv'
  BY <1>2, ClaimsStep DEF KeysInv
<1>7. /\ nextId \in Nat /\ nextId >= 1
      /\ \A k \in keys : k.id \in Nat /\ k.id < nextId
      /\ IsFiniteSet(Trays(keys)) /\ \A k, l \in Trays(keys) : k.id = l.id => k = l
  <2>1. Trays(keys) \subseteq keys /\ keys \subseteq keyFile
    BY DEF Trays, KeysInv, StoreInv
  <2> QED
    BY <2>1, StoreNumbers, FS_Subset DEF KeysInv, StoreInv
<1>8. ASSUME NEW id \in victims, id \in Nat PROVE id < nextId /\ nextId - 1 - id >= Kept
  <2>1. PICK k \in Trays(keys) : k.id = id /\ Cardinality(Keys!Newer(k, Trays(keys))) >= Kept
    BY <1>1, SurplusKey DEF PruneVictims, KeysInv
  <2>2. id < nextId /\ id \in Nat
    BY <1>7, <2>1 DEF Trays
  <2> DEFINE N == Keys!Newer(k, Trays(keys))
  <2>3. \A l \in N : l.id \in Nat /\ id < l.id /\ l.id <= nextId - 1
    BY <1>7, <2>1 DEF Keys!Newer, Trays
  <2>4. \A l, m \in N : l.id = m.id => l = m
    BY <1>7 DEF Keys!Newer
  <2>5. nextId - 1 \in Nat /\ id <= nextId - 1
    BY <1>7, <2>2
  <2>6. IsFiniteSet(N) /\ Cardinality(N) <= nextId - 1 - id
    <3> HIDE DEF N
    <3>1. PICK hi \in Nat : hi = nextId - 1
      BY <2>5
    <3>2. \A l \in N : l.id \in Nat /\ id < l.id /\ l.id <= hi
      BY <2>3, <3>1
    <3>3. id \in Nat /\ id <= hi
      BY <2>2, <2>5, <3>1
    <3> QED
      BY <2>4, <3>1, <3>2, <3>3, KeysCount
  <2>7. Cardinality(N) \in Nat
    BY <2>6, FS_CardinalityType
  <2> HIDE DEF N
  <2>8. Cardinality(N) >= Kept
    BY <2>1 DEF N
  <2> QED
    BY <1>7, <2>2, <2>6, <2>7, <2>8, Numbers
<1>9. FreshInv'
  <2> SUFFICES ASSUME NEW b \in Actor, Fresh(b)' PROVE Spared(calls[b].key)'
    BY DEF FreshInv
  <2>1. Fresh(b) /\ calls'[b].key = calls[b].key
    BY <1>2 DEF Fresh, Others, KeysInv, CallsInv
  <2>2. PICK id \in Nat : id = calls[b].key
    BY DEF KeysInv, CallsInv, Call
  <2>3. Spared(id)
    BY <2>1, <2>2 DEF KeysInv, FreshInv
  <2>4. CASE id \in victims
    BY <1>2, <1>8, <2>1, <2>2, <2>4 DEF Spared
  <2>5. CASE id \notin victims
    BY <1>2, <1>3, <2>1, <2>2, <2>3, <2>5 DEF Spared
  <2> QED
    BY <2>4, <2>5
<1>10. TrayInv'
  <2> SUFFICES ASSUME keyFaults' = 0, gone' = {}
               PROVE  /\ \A k \in keys' : k.active /\ (k.tray => k.admin)
                      /\ Cardinality(Trays(keys)') <= Kept
    BY DEF TrayInv
  <2>1. keyFaults = 0 /\ gone = {}
    BY <1>2 DEF KeysInv, CallsInv
  <2>2. \A k \in keys : k.active /\ (k.tray => k.admin)
    BY <2>1 DEF KeysInv, TrayInv
  <2> DEFINE M == Trays(keys)
             K == {k \in M : ~(Cardinality(Keys!Newer(k, M)) >= Kept)}
  <2>3. Trays(keys)' = {k \in M : k.id \notin victims}
    BY <1>2 DEF Trays
  <2>4. ASSUME NEW k \in M, Cardinality(Keys!Newer(k, M)) >= Kept PROVE k.id \in victims
    <3>1. k.id \in Keys!Surplus(M)
      BY <2>4, SameCardinality DEF Keys!Surplus, Keys!Ids
    <3>2. Keys!Newer(k, M) # {}
      <4>1. Cardinality({}) = 0
        BY FS_EmptySet
      <4> QED
        BY <2>4, <4>1, Numbers
    <3>3. PICK l \in M : l.id > k.id
      BY <3>2 DEF Keys!Newer
    <3>4. l \in Keys!Admins(keys) /\ l.id # k.id
      BY <1>7, <2>2, <3>3 DEF Trays, Keys!Admins, Keys!Active
    <3>5. ~Keys!LastActiveAdmin(k.id)
      BY <3>4 DEF Keys!LastActiveAdmin
    <3> QED
      BY <1>1, <3>1, <3>5 DEF PruneVictims
  <2>5. Trays(keys)' \subseteq K
    BY <2>3, <2>4
  <2>6. \A k \in M : k.id \in Nat
    BY <1>7 DEF Trays
  <2>7. Cardinality(K) <= Kept
    BY <1>7, <2>6, NewestKeys
  <2>8. IsFiniteSet(K)
    BY <1>7, FS_Subset
  <2>9. Cardinality(Trays(keys)') <= Cardinality(K) /\ IsFiniteSet(Trays(keys)')
    BY <2>5, <2>8, FS_Subset
  <2>10. Cardinality(Trays(keys)') \in Nat /\ Cardinality(K) \in Nat
    BY <2>8, <2>9, FS_CardinalityType
  <2>11. Cardinality(Trays(keys)') <= Kept
    BY <2>7, <2>9, <2>10, Numbers
  <2> QED
    BY <1>2, <2>2, <2>11
<1> QED
  BY <1>4, <1>5, <1>6, <1>9, <1>10 DEF KeysInv

LEMMA KeysStep == ASSUME KeysInv, Keys!Next PROVE KeysInv'
BY PresentKeeps, MatchKeeps, BootstrapKeeps, ClaimKeeps, BrowserKeeps, CreateKeeps, DeleteKeeps, RevokeKeeps,
  PruneKeeps, ReloadKeeps DEF Keys!Next

LEMMA KeysTurn ==
  ASSUME [AgentNext]_agentVars
  PROVE  Keys!Next \/ UNCHANGED keyVars
BY DEF AgentNext, agentVars

\* Everything known of keys, cache and claims holds throughout (keys.go, trayclaim.go, traytoken.go).
THEOREM KeysCorrect == AgentSpec => []KeysInv
<1>1. AgentInit => KeysInv
  BY KeysStart DEF AgentInit
<1>2. KeysInv /\ [AgentNext]_agentVars => KeysInv'
  BY KeysTurn, KeysStep, KeysSame
<1> QED
  BY <1>1, <1>2, PTL DEF AgentSpec

\* A request is accepted by a step that finds its key active
LEMMA AcceptedStep ==
  ASSUME KeysInv, Keys!Next, NEW a \in Actor, calls'[a].pc = "accepted", calls[a].pc # "accepted"
  PROVE  calls'[a].key \in Keys!ActiveIds(keys)
<1>1. CASE \E b \in Actor : Keys!Present(b)
  <2>1. PICK b \in Actor : Keys!Present(b)
    BY <1>1
  <2>2. PICK op \in {"call", "paste"}, id \in 1..(nextId - 1) :
          IF id \in verified /\ id \in Keys!ActiveIds(keys)
          THEN Keys!Goes(b, op, IF op = "call" THEN "accepted" ELSE "open", id, {})
          ELSE Keys!Goes(b, op, "scan", id, Keys!ActiveIds(keys))
    BY <2>1 DEF Keys!Present
  <2> QED
    BY <2>2 DEF Keys!Goes, KeysInv, CallsInv
<1>2. CASE \E b \in Actor : Keys!Match(b)
  <2>1. PICK b \in Actor : Keys!Match(b)
    BY <1>2
  <2>2. PICK how \in CallPlace : Keys!Ends(b, how) /\ (how = "accepted" => Keys!StillLive(b))
    BY <2>1 DEF Keys!Match, CallPlace
  <2> QED
    BY <2>2, EndsRecord DEF Others, KeysInv, Keys!StillLive
<1>3. CASE \E b \in Actor : Keys!CookieKey(b)
  <2>1. PICK b \in Actor : Keys!CookieKey(b)
    BY <1>3
  <2>2. PICK how \in CallPlace :
          Keys!Ends(b, how) /\ (how = "accepted" => calls[b].key \in Keys!ActiveIds(keys))
    BY <2>1 DEF Keys!CookieKey, CallPlace
  <2> QED
    BY <2>2, EndsRecord DEF Others, KeysInv
<1>4. CASE \E b \in Actor : Keys!Delete(b) \/ Keys!Revoke(b) \/ Keys!OpenSession(b) \/ Keys!Logout(b)
  <2>1. PICK b \in Actor : Keys!Delete(b) \/ Keys!Revoke(b) \/ Keys!OpenSession(b) \/ Keys!Logout(b)
    BY <1>4
  <2>2. PICK how \in CallPlace : Keys!Ends(b, how) /\ how # "accepted"
    BY <2>1 DEF Keys!Delete, Keys!Revoke, Keys!OpenSession, Keys!Logout, CallPlace
  <2> QED
    BY <2>2, EndsRecord DEF Others, KeysInv
<1>5. CASE \E b \in Actor : Keys!Bootstrap(b) \/ Keys!ClaimToken(b) \/ Keys!Cookie(b)
  BY <1>5 DEF Keys!Bootstrap, Keys!ClaimToken, Keys!Cookie, Keys!Goes, KeysInv, CallsInv
<1>6. CASE \E b \in Actor : Keys!Generate(b) \/ Keys!MintTray(b)
  <2>1. PICK b \in Actor, admin \in BOOLEAN, tray \in BOOLEAN, place \in {"done", "prune"} :
          Keys!Create(b, admin, tray, place)
    BY <1>6 DEF Keys!Generate, Keys!MintTray
  <2>2. CASE calls' = [calls EXCEPT ![b].pc = place, ![b].key = nextId]
    BY <2>2, CreateRecord DEF CallPlace, Others, KeysInv
  <2>3. CASE Keys!Ends(b, "failed")
    BY <2>3, EndsRecord DEF CallPlace, Others, KeysInv
  <2> QED
    BY <2>1, <2>2, <2>3 DEF Keys!Create
<1>7. CASE \E b \in Actor : Keys!Prune(b)
  BY <1>7, PruneFrame DEF Others
<1>8. CASE Keys!Restart
  <2>1. calls[a] \in Call
    BY DEF KeysInv, CallsInv
  <2>2. calls'[a] = IF calls[a].pc = "idle" THEN calls[a]
                    ELSE [calls[a] EXCEPT !.pc = "failed", !.scan = {}]
    BY <1>8 DEF Keys!Restart
  <2> QED
    BY <2>1, <2>2 DEF Call
<1> QED
  BY <1>1, <1>2, <1>3, <1>4, <1>5, <1>6, <1>7, <1>8 DEF Keys!Next

LEMMA KeysTypes == ASSUME KeysInv PROVE Keys!TypeOK /\ Keys!CacheLive
<1>1. {nextId, fileNext} \subseteq 1..(MaxKeys + 1)
  BY DEF KeysInv, StoreInv
<1>2. keys \cup keyFile \subseteq Keys!Key
  BY DEF KeysInv, StoreInv
<1> QED
  BY <1>1, <1>2 DEF KeysInv, StoreInv, Keys!TypeOK

\* Neither the cache nor a reply accepts a key that was revoked, deleted or reaped, however long
\* the comparison with every hash takes outside the lock (Store.Verify, sessionEntry).
THEOREM GoneKeysRefused == AgentSpec => KeysAccepted
<1>1. KeysInv /\ [AgentNext]_agentVars
      => [\A a \in Actor :
            calls'[a].pc = "accepted" /\ calls[a].pc # "accepted" => calls'[a].key \in Keys!ActiveIds(keys)]_(Keys!vars)
  BY KeysTurn, AcceptedStep DEF keyVars
<1>2. KeysInv => Keys!TypeOK /\ Keys!CacheLive
  BY KeysTypes
<1> QED
  BY <1>1, <1>2, KeysCorrect, PTL DEF AgentSpec, KeysAccepted, Keys!AcceptedLive

LEMMA ReapedSafe == ASSUME KeysInv PROVE Keys!FreshKeySpared /\ Keys!TrayBound /\ Keys!TokenOnce
<1>1. Keys!FreshKeySpared
  BY DEF Keys!FreshKeySpared, KeysInv, FreshInv, Fresh, Spared
<1>2. Keys!TrayBound
  <2>1. Trays(keys) = {k \in keys : k.tray}
    BY DEF Trays
  <2> SUFFICES ASSUME keyFaults = 0, gone = {},
                      \A a \in Actor : calls[a].pc \in {"idle", "done", "signed in", "refused", "accepted"}
               PROVE  Keys!Cardinality(Trays(keys)) <= Kept
    BY <2>1 DEF Keys!TrayBound
  <2>2. ~Reaper
    BY DEF Reaper
  <2> QED
    BY <2>2, SameCardinality DEF KeysInv, TrayInv
<1>3. Keys!TokenOnce
  <2> DEFINE T == {a \in Actor : calls[a].op = "tray" /\ calls[a].pc # "refused"}
  <2>1. T \subseteq Claims
    BY DEF Claims
  <2>2. Cardinality(T) <= Cardinality(Claims) /\ IsFiniteSet(T)
    BY <2>1, ClaimsFinite, FS_Subset
  <2>3. Cardinality(T) \in Nat
    BY <2>2, FS_CardinalityType
  <2>4. Cardinality(T) <= Tokens
    BY <2>2, <2>3, ClaimsFinite, Numbers DEF KeysInv, TokenInv
  <2> QED
    BY <2>4, SameCardinality DEF Keys!TokenOnce
<1> QED
  BY <1>1, <1>2, <1>3

\* Where all administrators are gone at once, a prune took two at least
LEMMA AdminStep ==
  ASSUME KeysInv, Keys!Next, Keys!Admins(keys) # {}, Keys!Admins(keys)' = {}
  PROVE  \E k, l \in Keys!Admins(keys) : k # l /\ {k.id, l.id} \cap Keys!Ids(keys') = {}
<1> USE DEF Keys!Admins, Keys!Active
<1>1. ASSUME NEW a \in Actor, Keys!Delete(a) PROVE FALSE
  <2>1. PICK id \in Keys!Ids(keys) : ~Keys!LastActiveAdmin(id) /\ keys' = {k \in keys : k.id # id}
    BY <1>1 DEF Keys!Delete
  <2>2. PICK k \in Keys!Admins(keys) : k.id = id
    BY <2>1
  <2>3. Keys!Find(id) = k
    BY <2>2, FindKey DEF KeysInv
  <2>4. \E l \in Keys!Admins(keys) : l.id # id
    BY <2>1, <2>2, <2>3 DEF Keys!LastActiveAdmin
  <2> QED
    BY <2>1, <2>4
<1>2. ASSUME NEW a \in Actor, Keys!Revoke(a) PROVE FALSE
  <2>1. PICK id \in Keys!Ids(keys) :
          /\ ~Keys!LastActiveAdmin(id)
          /\ \/ keys' = {IF k.id = id THEN [k EXCEPT !.active = FALSE] ELSE k : k \in keys}
             \/ keys' = keys
    BY <1>2 DEF Keys!Revoke
  <2>2. \A l \in keys : l.id # id => l \in keys'
    BY <2>1
  <2>3. PICK k \in Keys!Admins(keys) : k.id = id
    BY <2>2
  <2>4. Keys!Find(id) = k
    BY <2>3, FindKey DEF KeysInv
  <2>5. \E l \in Keys!Admins(keys) : l.id # id
    BY <2>1, <2>3, <2>4 DEF Keys!LastActiveAdmin
  <2> QED
    BY <2>2, <2>5
<1>3. ASSUME NEW a \in Actor, Keys!Prune(a)
      PROVE  \E k, l \in Keys!Admins(keys) : k # l /\ {k.id, l.id} \cap Keys!Ids(keys') = {}
  <2>1. keys' = {k \in keys : k.id \notin PruneVictims}
    BY <1>3, PruneFrame
  <2>2. \A k \in Keys!Admins(keys) : k.id \in PruneVictims
    BY <2>1
  <2>3. PICK k \in Keys!Admins(keys) : ~Keys!LastActiveAdmin(k.id)
    BY <2>2 DEF PruneVictims
  <2>4. Keys!Find(k.id) = k
    BY FindKey DEF KeysInv
  <2>5. PICK l \in Keys!Admins(keys) : l.id # k.id
    BY <2>3, <2>4 DEF Keys!LastActiveAdmin
  <2>6. k.id \notin Keys!Ids(keys') /\ l.id \notin Keys!Ids(keys')
    BY <2>1, <2>2 DEF Keys!Ids
  <2> QED
    BY <2>5, <2>6
<1>4. ASSUME NEW a \in Actor, Keys!Generate(a) \/ Keys!MintTray(a) PROVE keys \subseteq keys'
  BY <1>4 DEF Keys!Generate, Keys!MintTray, Keys!Create
<1>5. Keys!Restart => keys \subseteq keys'
  BY DEF Keys!Restart, KeysInv, StoreInv
<1>6. ASSUME NEW a \in Actor,
             \/ Keys!Present(a) \/ Keys!Match(a) \/ Keys!Bootstrap(a) \/ Keys!ClaimToken(a) \/ Keys!OpenSession(a)
             \/ Keys!Cookie(a) \/ Keys!CookieKey(a) \/ Keys!Logout(a)
      PROVE  keys' = keys
  BY <1>6 DEF Keys!Present, Keys!Match, Keys!Bootstrap, Keys!ClaimToken, Keys!OpenSession, Keys!Cookie,
    Keys!CookieKey, Keys!Logout, Keys!store
<1> QED
  BY <1>1, <1>2, <1>3, <1>4, <1>5, <1>6 DEF Keys!Next

\* Overlapping tray claims spare each other's keys, leave no more of them than kept and use a token
\* once; an administrator remains, unless one prune takes several (PruneTrayKeys, handleTrayClaim,
\* isLastActiveAdmin).
THEOREM ClaimsReaped == AgentSpec => KeysReaped
<1>1. KeysInv /\ [AgentNext]_agentVars
      => [Keys!Admins(keys) # {} =>
            \/ Keys!Admins(keys') # {}
            \/ \E k, l \in Keys!Admins(keys) : k # l /\ {k.id, l.id} \cap Keys!Ids(keys') = {}]_(Keys!vars)
  <2>1. Keys!Admins(keys)' = Keys!Admins(keys')
    BY DEF Keys!Admins, Keys!Active
  <2>2. UNCHANGED keyVars => Keys!Admins(keys)' = Keys!Admins(keys)
    BY DEF keyVars, Keys!Admins, Keys!Active
  <2> QED
    BY <2>1, <2>2, KeysTurn, AdminStep
<1>2. KeysInv => Keys!FreshKeySpared /\ Keys!TrayBound /\ Keys!TokenOnce
  BY ReapedSafe
<1> QED
  BY <1>1, <1>2, KeysCorrect, PTL DEF AgentSpec, KeysReaped, Keys!AdminRemains

----------------------------------------------------------------------------
(* The configuration engine: the files in their order                      *)

LEMMA ConfigCardinality ==
  ASSUME NEW S
  PROVE  Config!Cardinality(S) = Cardinality(S)
BY DEF Config!Cardinality, Cardinality

\* The load order names every file, and files only
LEMMA InLoadOrder ==
  /\ Config!InOrder(File) \in Seq(File) /\ Config!InOrder(File) # <<>>
  /\ Len(Config!InOrder(File)) = Config!Cardinality(File) /\ Config!Cardinality(File) \in Nat
  /\ \A f \in File : \E i \in 1..Len(Config!InOrder(File)) : Config!InOrder(File)[i] = f
<1> DEFINE before(f) == {g \in File : g < f}
           rank == [f \in File |-> Cardinality(before(f))]
<1>1. PICK n \in Nat : n = Cardinality(File) /\ n > 0
  BY ConfigAssumption, FS_CardinalityType, FS_EmptySet
<1>2. ASSUME NEW f \in File
      PROVE  /\ IsFiniteSet(before(f)) /\ rank[f] \in 0..(n - 1)
             /\ \A g \in File : f < g => rank[f] < rank[g]
  <2>1. IsFiniteSet(before(f)) /\ Cardinality(before(f)) \in Nat
    BY ConfigAssumption, FS_Subset, FS_CardinalityType
  <2>2. before(f) \in SUBSET File /\ f \notin before(f)
    BY ConfigAssumption
  <2>3. Cardinality(before(f)) <= n /\ Cardinality(before(f)) # n
    BY <1>1, <2>2, ConfigAssumption, FS_Subset
  <2>4. ASSUME NEW g \in File, f < g PROVE rank[f] < rank[g]
    <3>1. IsFiniteSet(before(g)) /\ Cardinality(before(g)) \in Nat
      BY ConfigAssumption, FS_Subset, FS_CardinalityType
    <3>2. /\ before(f) \in SUBSET before(g)
          /\ f \in before(g) /\ f \notin before(f)
      <4>1. f \in Nat /\ g \in Nat /\ f < g /\ ~(f < f)
        BY <2>4, ConfigAssumption
      <4>2. \A h \in File : h \in Nat
        BY ConfigAssumption
      <4>3. \A h \in File : h < f => h < g
        BY <4>1, <4>2
      <4> QED
        BY <4>1, <4>3
    <3>3. Cardinality(before(f)) <= Cardinality(before(g)) /\ Cardinality(before(f)) # Cardinality(before(g))
      BY <3>1, <3>2, FS_Subset
    <3> QED
      BY <2>1, <3>1, <3>3
  <2> QED
    BY <1>1, <2>1, <2>3, <2>4
<1> HIDE DEF rank, before
<1>3. \A f, g \in File : rank[f] = rank[g] => f = g
  <2> SUFFICES ASSUME NEW f \in File, NEW g \in File, rank[f] = rank[g], f # g PROVE FALSE
    OBVIOUS
  <2>1. f < g \/ g < f
    BY ConfigAssumption
  <2>2. rank[f] \in Nat /\ rank[g] \in Nat
    BY <1>1, <1>2
  <2> QED
    BY <1>2, <2>1, <2>2
<1>4. rank \in [File -> 0..(n - 1)]
  BY <1>2 DEF rank
<1>5. rank \in Injection(File, 0..(n - 1))
  BY <1>3, <1>4 DEF Injection, IsInjective
<1>6. IsFiniteSet(0..(n - 1)) /\ Cardinality(0..(n - 1)) = n
  <2>1. 0 \in Int /\ n - 1 \in Int /\ ~(0 > n - 1) /\ (n - 1) - 0 + 1 = n
    BY <1>1
  <2>2. IsFiniteSet(0..(n - 1)) /\ Cardinality(0..(n - 1)) = IF 0 > n - 1 THEN 0 ELSE (n - 1) - 0 + 1
    BY <2>1, FS_Interval
  <2> QED
    BY <2>1, <2>2
<1>7. rank \in Surjection(File, 0..(n - 1))
  BY <1>1, <1>5, <1>6, FS_Injection
<1>8. \A i \in 1..n : \E f \in File : rank[f] = i - 1
  BY <1>1, <1>7 DEF Surjection
<1>9. Config!InOrder(File) = [i \in 1..n |-> CHOOSE f \in File : rank[f] = i - 1]
  <2>1. Config!Cardinality(File) = n /\ \A f \in File : Config!Cardinality(before(f)) = rank[f]
    BY <1>1, ConfigCardinality DEF rank
  <2>2. \A i \in 1..n : (CHOOSE f \in File : Config!Cardinality(before(f)) = i - 1) = (CHOOSE f \in File : rank[f] = i - 1)
    BY <2>1
  <2>3. Config!InOrder(File) = [i \in 1..n |-> CHOOSE f \in File : Config!Cardinality(before(f)) = i - 1]
    BY <2>1 DEF Config!InOrder, before
  <2> QED
    BY <2>2, <2>3
<1>10. \A i \in 1..n : Config!InOrder(File)[i] \in File /\ rank[Config!InOrder(File)[i]] = i - 1
  BY <1>8, <1>9
<1>11. Config!InOrder(File) \in Seq(File) /\ Len(Config!InOrder(File)) = n
  BY <1>1, <1>9, <1>10
<1>12. ASSUME NEW f \in File PROVE \E i \in 1..n : Config!InOrder(File)[i] = f
  <2>1. rank[f] \in Nat /\ rank[f] + 1 \in 1..n
    BY <1>1, <1>2
  <2>2. rank[Config!InOrder(File)[rank[f] + 1]] = rank[f]
    BY <1>10, <2>1
  <2> QED
    BY <1>3, <1>10, <2>1, <2>2
<1> QED
  BY <1>1, <1>11, <1>12, ConfigCardinality

----------------------------------------------------------------------------
(* The configuration engine: the inductive invariant                       *)

Edit == [file : File, new : Config!Document]
Request == [op : {"none", "put", "flag", "paths", "setup", "restore", "restart", "refilled"},
            pc : {"idle", "done", "section", "undo", "guarded", "restore", "bak", "file", "tell", "read",
                  "restart"},
            todo : Seq(Edit), later : Seq(Edit), tell : Nat, reads : Seq(File),
            got : [File -> Config!Document], wrote : SUBSET File, refused : BOOLEAN, failed : BOOLEAN]

Documents == [File -> Config!Document]

ConfigShape ==
  /\ apart \in BOOLEAN
  /\ doc \in Documents /\ bak \in Documents /\ backup \in Documents
  /\ cache \in Documents /\ started \in Documents /\ view \in Documents
  /\ pending \subseteq File /\ sick \subseteq File /\ holder \in Writer \cup {0}
  /\ writes \in [Writer -> Request]

Resting(r) == r.pc \in {"idle", "done"}

\* What a request's own record says
Local(r) ==
  /\ r.pc \in {"bak", "file", "section", "undo"} => r.todo # <<>>
  /\ r.pc \in {"section", "undo"} => r.op \in {"flag", "paths"}
  /\ r.pc # "done" => ~r.refused /\ ~r.failed
  /\ r.pc \in {"idle", "guarded"} => r.wrote = {}
  /\ r.op = "setup" /\ r.refused => r.wrote = {}

\* Who writes has the lock, and has copied the file it is about to replace
LockInv ==
  \A w \in Writer :
    /\ writes[w].pc \in {"bak", "file"} <=> holder = w
    /\ writes[w].pc = "file" =>
         bak[Head(writes[w].todo).file] = doc[Head(writes[w].todo).file]

\* The view is the files except while a notice or a read is still to come
Synced(r, seen, held) ==
  /\ r.pc \in {"guarded", "restore", "restart"} => seen = held
  /\ r.pc \in {"bak", "file"} /\ r.op \notin {"flag", "paths"} /\ r.tell = 0 => seen = held
  /\ r.pc = "tell" /\ r.tell = 0 => seen = held
  /\ r.pc = "read" =>
       \A f \in File : r.got[f] = held[f] \/ \E i \in 1..Len(r.reads) : r.reads[i] = f

ViewInv ==
  apart =>
    /\ \A v, w \in Writer : ~Resting(writes[v]) /\ ~Resting(writes[w]) => v = w
    /\ (\A w \in Writer : ~writes[w].failed) =>
         /\ \A w \in Writer : Synced(writes[w], view, cache)
         /\ (\A w \in Writer : Resting(writes[w])) => view = cache

ConfigInv ==
  /\ ConfigShape /\ cache = doc /\ Config!RestartListed
  /\ \A w \in Writer : Local(writes[w])
  /\ LockInv /\ ViewInv

LEMMA FreshRequest == Config!Fresh \in Request /\ Local(Config!Fresh) /\ Resting(Config!Fresh)
<1>1. Config!First \in [File -> Config!Document]
  BY DEF Config!First, Config!Document, Config!Value
<1> QED
  BY <1>1 DEF Config!Fresh, Request, Local, Resting

LEMMA ConfigStarts == Config!Init => ConfigInv
<1> SUFFICES ASSUME Config!Init PROVE ConfigInv
  OBVIOUS
<1> USE DEF Config!Init
<1>1. Config!First \in Documents
  BY DEF Config!First, Config!Document, Config!Value, Documents
<1>2. \A w \in Writer : writes[w] = Config!Fresh
  OBVIOUS
<1>3. Config!Fresh.pc = "idle" /\ Config!Fresh.failed = FALSE
  BY DEF Config!Fresh
<1>4. ConfigShape
  BY <1>1, FreshRequest DEF ConfigShape, Config!Free
<1>5. Config!RestartListed
  BY DEF Config!RestartListed
<1>6. \A w \in Writer : Local(writes[w])
  BY <1>2, FreshRequest
<1>7. LockInv
  BY <1>2, <1>3, ConfigAssumption DEF LockInv, Config!Free
<1>8. ViewInv
  BY <1>2, <1>3 DEF ViewInv, Resting, Synced
<1> QED
  BY <1>4, <1>5, <1>6, <1>7, <1>8 DEF ConfigInv

LEMMA ConfigSame == ASSUME ConfigInv, UNCHANGED configVars PROVE ConfigInv'
BY DEF configVars, ConfigInv, ConfigShape, LockInv, ViewInv, Config!RestartListed

\* A step of one request, by what becomes of its record
LEMMA RequestMoves ==
  ASSUME ConfigInv, NEW w \in Writer, NEW r \in Request, writes' = [writes EXCEPT ![w] = r],
         apart' = apart, Local(r), writes[w].pc # "done", r.pc # "idle",
         doc' \in Documents, bak' \in Documents, backup' \in Documents, cache' = doc',
         started' = started, view' \in Documents, pending' \subseteq File, sick' = sick,
         Config!RestartListed',
         r.pc \in {"bak", "file"} <=> holder' = w,
         holder' = holder \/ (holder \in {w, 0} /\ holder' \in {w, 0}),
         holder = w \/ (bak' = bak /\ doc' = doc),
         r.pc = "file" => bak'[Head(r.todo).file] = doc'[Head(r.todo).file],
         apart /\ writes[w].pc = "idle" => \A v \in Writer : Resting(writes[v]),
         (apart /\ ~r.failed /\ Synced(writes[w], view, cache) /\ (Resting(writes[w]) => view = cache))
         => (Synced(r, view', cache') /\ (Resting(r) => view' = cache'))
  PROVE  ConfigInv'
<1>1. /\ writes \in [Writer -> Request] /\ writes' \in [Writer -> Request] /\ writes'[w] = r
      /\ \A v \in Writer : v # w => writes'[v] = writes[v]
  BY DEF ConfigInv, ConfigShape
<1>2. w # 0 /\ holder \in Writer \cup {0} /\ \A v \in Writer : v # 0
  BY ConfigAssumption DEF ConfigInv, ConfigShape
<1>3. ConfigShape'
  BY <1>1, <1>2 DEF ConfigInv, ConfigShape
<1>4. \A v \in Writer : Local(writes'[v])
  BY <1>1 DEF ConfigInv
<1>5. LockInv'
  <2> SUFFICES ASSUME NEW v \in Writer
               PROVE  /\ writes'[v].pc \in {"bak", "file"} <=> holder' = v
                      /\ writes'[v].pc = "file" =>
                           bak'[Head(writes'[v].todo).file] = doc'[Head(writes'[v].todo).file]
    BY DEF LockInv
  <2>1. CASE v = w
    BY <1>1, <2>1
  <2>2. CASE v # w
    <3>1. /\ writes'[v] = writes[v] /\ (writes[v].pc \in {"bak", "file"} <=> holder = v)
          /\ writes[v].pc = "file" => bak[Head(writes[v].todo).file] = doc[Head(writes[v].todo).file]
      BY <1>1, <2>2 DEF ConfigInv, LockInv
    <3>2. holder' = v <=> holder = v
      BY <1>2, <2>2
    <3>3. holder = v => bak' = bak /\ doc' = doc
      BY <2>2
    <3> QED
      BY <3>1, <3>2, <3>3
  <2> QED
    BY <2>1, <2>2
<1>6. ViewInv'
  <2> SUFFICES ASSUME apart
               PROVE  /\ \A v, u \in Writer : ~Resting(writes'[v]) /\ ~Resting(writes'[u]) => v = u
                      /\ (\A v \in Writer : ~writes'[v].failed) =>
                           /\ \A v \in Writer : Synced(writes'[v], view', cache')
                           /\ (\A v \in Writer : Resting(writes'[v])) => view' = cache'
    BY DEF ViewInv
  <2>1. \A v \in Writer : v # w => Resting(writes[v])
    BY DEF ConfigInv, ViewInv, Resting
  <2>2. \A v \in Writer : v # w => Resting(writes'[v])
    BY <1>1, <2>1
  <2>3. \A v, u \in Writer : ~Resting(writes'[v]) /\ ~Resting(writes'[u]) => v = u
    BY <2>2
  <2>4. ASSUME \A v \in Writer : ~writes'[v].failed
        PROVE  /\ \A v \in Writer : Synced(writes'[v], view', cache')
               /\ (\A v \in Writer : Resting(writes'[v])) => view' = cache'
    <3>1. ~r.failed /\ \A v \in Writer : ~writes[v].failed
      BY <1>1, <2>4 DEF ConfigInv, Local
    <3>2. Synced(writes[w], view, cache) /\ (Resting(writes[w]) => view = cache)
      BY <2>1, <3>1 DEF ConfigInv, ViewInv
    <3>3. Synced(r, view', cache') /\ (Resting(r) => view' = cache')
      BY <3>1, <3>2
    <3>4. ASSUME NEW v \in Writer, v # w PROVE Synced(writes'[v], view', cache')
      <4>1. Resting(writes'[v])
        BY <2>2, <3>4
      <4> QED
        BY <4>1 DEF Resting, Synced
    <3> QED
      BY <1>1, <3>3, <3>4
  <2> QED
    BY <2>3, <2>4
<1> QED
  BY <1>3, <1>4, <1>5, <1>6 DEF ConfigInv

----------------------------------------------------------------------------
(* The configuration engine: one lemma for each step of a request          *)

ReqOp == {"none", "put", "flag", "paths", "setup", "restore", "restart", "refilled"}

LEMMA RequestFacts ==
  ASSUME ConfigInv, NEW w \in Writer
  PROVE  /\ writes[w] \in Request /\ Local(writes[w]) /\ writes \in [Writer -> Request]
         /\ w # 0 /\ doc \in Documents /\ bak \in Documents /\ backup \in Documents
         /\ cache = doc /\ cache \in Documents /\ view \in Documents /\ pending \subseteq File
BY ConfigAssumption DEF ConfigInv, ConfigShape

LEMMA PatchedDocument ==
  ASSUME NEW d \in Config!Document, NEW leaf \in {"live", "boot"}, NEW w \in Writer
  PROVE  Config!Patched(d, leaf, w) \in Config!Document
BY DEF Config!Patched, Config!Document, Config!Value

LEMMA EditsForAll ==
  ASSUME NEW new \in [File -> Config!Document]
  PROVE  LET all == [i \in 1..Config!Cardinality(File) |->
                       LET f == Config!InOrder(File)[i] IN [file |-> f, new |-> new[f]]]
         IN  all \in Seq(Edit) /\ all # <<>>
<1> DEFINE order == Config!InOrder(File)
           n == Config!Cardinality(File)
           all == [i \in 1..n |-> LET f == order[i] IN [file |-> f, new |-> new[f]]]
<1>1. order \in Seq(File) /\ order # <<>> /\ Len(order) = n /\ n \in Nat
  BY InLoadOrder
<1> HIDE DEF order, n
<1>2. \A i \in 1..n : order[i] \in File
  BY <1>1
<1>3. \A i \in 1..n : all[i] \in Edit
  BY <1>2 DEF Edit
<1>4. all \in Seq(Edit) /\ Len(all) = n
  BY <1>1, <1>3
<1>5. n # 0
  BY <1>1
<1> QED
  BY <1>4, <1>5 DEF order, n

LEMMA OverRequest ==
  ASSUME NEW r \in Request
  PROVE  /\ Config!Over(r) \in Request /\ Config!Over(r).pc = "done" /\ Config!Over(r).op = r.op
         /\ Config!Over(r).refused = r.refused /\ Config!Over(r).failed = r.failed
         /\ Config!Over(r).wrote = r.wrote
<1>1. Config!Fresh \in Request
  BY FreshRequest
<1> QED
  BY <1>1 DEF Config!Over, Request

\* A request takes the lock, or is refused
LEMMA AdmitMoves ==
  ASSUME ConfigInv, NEW w \in Writer, NEW op \in ReqOp, NEW list \in Seq(Edit), list # <<>>,
         NEW later \in Seq(Edit), Config!Admit(w, op, list, later),
         writes[w].pc \in {"idle", "section", "guarded", "restore"},
         apart /\ writes[w].pc = "idle" => \A v \in Writer : Resting(writes[v]),
         writes[w].pc = "section" <=> op \in {"flag", "paths"},
         op = "setup" => writes[w].pc = "guarded",
         UNCHANGED <<apart, doc, bak, backup, cache, started, pending, cleared, view, sick>>
  PROVE  ConfigInv'
<1>1. /\ writes[w] \in Request /\ Local(writes[w]) /\ w # 0 /\ doc' \in Documents /\ bak' \in Documents
      /\ backup' \in Documents /\ cache' = doc' /\ view' \in Documents /\ pending' \subseteq File
  BY RequestFacts
<1>2. Config!RestartListed'
  BY DEF ConfigInv, Config!RestartListed
<1>3. holder = 0
  BY DEF Config!Admit, Config!Free
<1>4. CASE \E i \in 1..Len(list) : list[i].file \in sick
  <2>1. CASE op \in {"flag", "paths"}
    <3> DEFINE r == [writes[w] EXCEPT !.pc = "undo"]
    <3>1. holder' = holder /\ writes' = [writes EXCEPT ![w] = r]
      BY <1>4, <2>1 DEF Config!Admit
    <3>2. r \in Request /\ r.pc = "undo" /\ r.failed = writes[w].failed
      BY <1>1 DEF Request
    <3>3. Local(r)
      BY <1>1, <2>1 DEF Local, Request
    <3>4. Synced(r, view', cache') /\ ~Resting(r)
      BY <3>2 DEF Synced, Resting
    <3> HIDE DEF r
    <3> QED
      BY <1>1, <1>2, <1>3, <3>1, <3>2, <3>3, <3>4, RequestMoves
  <2>2. CASE op \notin {"flag", "paths"}
    <3> DEFINE q == [writes[w] EXCEPT !.op = op, !.refused = TRUE]
               r == Config!Over(q)
    <3>1. holder' = holder /\ writes' = [writes EXCEPT ![w] = r]
      BY <1>4, <2>2 DEF Config!Admit
    <3>2. q \in Request /\ q.op = op /\ q.wrote = writes[w].wrote
      BY <1>1 DEF Request, ReqOp
    <3> HIDE DEF q
    <3>3. r \in Request /\ r.pc = "done" /\ r.op = op /\ r.wrote = writes[w].wrote
      BY <3>2, OverRequest
    <3> HIDE DEF r
    <3>4. Local(r)
      BY <1>1, <3>3 DEF Local
    <3>5. Synced(r, view', cache')
      BY <3>3 DEF Synced
    <3>6. Synced(writes[w], view, cache) /\ (Resting(writes[w]) => view = cache) => view = cache
      BY <2>2 DEF Synced, Resting
    <3> QED
      BY <1>1, <1>2, <1>3, <3>1, <3>3, <3>4, <3>5, <3>6, RequestMoves
  <2> QED
    BY <2>1, <2>2
<1>5. CASE ~\E i \in 1..Len(list) : list[i].file \in sick
  <2> DEFINE r == [writes[w] EXCEPT !.op = op, !.pc = "bak", !.todo = list, !.later = later]
  <2>1. holder' = w /\ writes' = [writes EXCEPT ![w] = r]
    BY <1>5 DEF Config!Admit
  <2>2. r \in Request /\ r.pc = "bak" /\ r.op = op /\ r.failed = writes[w].failed
    BY <1>1 DEF Request, ReqOp
  <2>3. Local(r)
    BY <1>1 DEF Local, Request
  <2>4. /\ Synced(writes[w], view, cache) /\ (Resting(writes[w]) => view = cache)
        => Synced(r, view', cache')
    BY <2>2 DEF Synced, Resting
  <2>5. ~Resting(r)
    BY <2>2 DEF Resting
  <2> HIDE DEF r
  <2> QED
    BY <1>1, <1>2, <1>3, <2>1, <2>2, <2>3, <2>4, <2>5, RequestMoves
<1> QED
  BY <1>4, <1>5

\* In a behaviour of requests apart, one starts when all rest
LEMMA StartsAlone ==
  ASSUME NEW w \in Writer, Config!MayStart(w)
  PROVE  writes[w].pc = "idle" /\ (apart => \A v \in Writer : Resting(writes[v]))
BY DEF Config!MayStart, Config!Idle, Resting

LEMMA PutKeeps == ASSUME ConfigInv, NEW w \in Writer, Config!Put(w) PROVE ConfigInv'
<1>1. PICK f \in File, leaf \in {"live", "boot"} :
        Config!Admit(w, "put", <<[file |-> f, new |-> Config!Patched(cache[f], leaf, w)]>>, <<>>)
  BY DEF Config!Put
<1> DEFINE e == [file |-> f, new |-> Config!Patched(cache[f], leaf, w)]
<1>2. cache[f] \in Config!Document
  BY RequestFacts DEF Documents
<1>3. e \in Edit
  BY <1>2, PatchedDocument DEF Edit
<1>4. writes[w].pc = "idle" /\ (apart => \A v \in Writer : Resting(writes[v]))
  BY StartsAlone DEF Config!Put
<1>5. UNCHANGED <<apart, doc, bak, backup, cache, started, pending, cleared, view, sick>>
  BY DEF Config!Put, Config!disk, Config!process
<1>6. Config!Admit(w, "put", <<e>>, <<>>)
  BY <1>1
<1> HIDE DEF e
<1>7. <<e>> \in Seq(Edit) /\ <<e>> # <<>> /\ <<>> \in Seq(Edit) /\ "put" \in ReqOp
  BY <1>3 DEF ReqOp
<1> QED
  BY <1>4, <1>5, <1>6, <1>7, AdmitMoves

LEMMA SaveSectionKeeps == ASSUME ConfigInv, NEW w \in Writer, Config!SaveSection(w) PROVE ConfigInv'
<1>1. /\ writes[w].pc = "section" /\ Config!Admit(w, writes[w].op, writes[w].todo, <<>>)
      /\ UNCHANGED <<apart, doc, bak, backup, cache, started, pending, cleared, view, sick>>
  BY DEF Config!SaveSection, Config!disk, Config!process
<1>2. writes[w] \in Request /\ Local(writes[w])
  BY RequestFacts
<1>3. /\ writes[w].todo \in Seq(Edit) /\ writes[w].todo # <<>> /\ <<>> \in Seq(Edit)
      /\ writes[w].op \in ReqOp /\ writes[w].op \in {"flag", "paths"}
  BY <1>1, <1>2 DEF Request, Local, ReqOp
<1> QED
  BY <1>1, <1>3, AdmitMoves

LEMMA SetupPutKeeps == ASSUME ConfigInv, NEW w \in Writer, Config!SetupPut(w) PROVE ConfigInv'
<1> DEFINE new == [f \in File |-> Config!Patched(cache[f], "boot", w)]
           all == [i \in 1..Config!Cardinality(File) |->
                     LET f == Config!InOrder(File)[i] IN [file |-> f, new |-> new[f]]]
           list == [i \in 1..Config!Cardinality(File) |->
                     LET f == Config!InOrder(File)[i]
                     IN  [file |-> f, new |-> Config!Patched(cache[f], "boot", w)]]
<1>1. writes[w].pc = "guarded" /\ Config!Admit(w, "setup", list, <<>>)
      /\ UNCHANGED <<apart, doc, bak, backup, cache, started, pending, cleared, view, sick>>
  BY DEF Config!SetupPut, Config!disk, Config!process
<1>2. \A f \in File : cache[f] \in Config!Document
  BY RequestFacts DEF Documents
<1>3. new \in [File -> Config!Document]
  BY <1>2, PatchedDocument
<1>4. \A i \in 1..Config!Cardinality(File) : Config!InOrder(File)[i] \in File
  BY InLoadOrder
<1>5. list = all
  BY <1>4
<1>6. all \in Seq(Edit) /\ all # <<>>
  <2> HIDE DEF new
  <2> QED
    BY <1>3, EditsForAll
<1> HIDE DEF all, list, new
<1>7. "setup" \in ReqOp /\ <<>> \in Seq(Edit)
  BY DEF ReqOp
<1> QED
  BY <1>1, <1>5, <1>6, <1>7, AdmitMoves

LEMMA RestoreFileKeeps == ASSUME ConfigInv, NEW w \in Writer, Config!RestoreFile(w) PROVE ConfigInv'
<1>1. /\ writes[w].pc = "restore" /\ writes[w].later # <<>>
      /\ Config!Admit(w, "restore", <<Head(writes[w].later)>>, Tail(writes[w].later))
      /\ UNCHANGED <<apart, doc, bak, backup, cache, started, pending, cleared, view, sick>>
  BY DEF Config!RestoreFile, Config!disk, Config!process
<1>2. writes[w].later \in Seq(Edit)
  BY RequestFacts DEF Request
<1>3. Head(writes[w].later) \in Edit /\ Tail(writes[w].later) \in Seq(Edit)
  BY <1>1, <1>2
<1>4. <<Head(writes[w].later)>> \in Seq(Edit) /\ <<Head(writes[w].later)>> # <<>> /\ "restore" \in ReqOp
  BY <1>3 DEF ReqOp
<1> QED
  BY <1>1, <1>3, <1>4, AdmitMoves

LEMMA SetViewKeeps == ASSUME ConfigInv, NEW w \in Writer, Config!SetView(w) PROVE ConfigInv'
<1>1. PICK op \in {"flag", "paths"}, f \in File :
        /\ view' = [view EXCEPT ![f] = Config!Patched(view[f], "live", w)]
        /\ writes' = [writes EXCEPT ![w] = [@ EXCEPT !.op = op, !.pc = "section", !.got = view,
                        !.todo = <<[file |-> f, new |-> Config!Patched(view[f], "live", w)]>>]]
  BY DEF Config!SetView
<1> DEFINE e == [file |-> f, new |-> Config!Patched(view[f], "live", w)]
           r == [writes[w] EXCEPT !.op = op, !.pc = "section", !.got = view, !.todo = <<e>>]
<1>2. /\ writes[w].pc = "idle" /\ (apart => \A v \in Writer : Resting(writes[v]))
      /\ UNCHANGED <<apart, doc, bak, backup, cache, started, pending, cleared, holder, sick>>
  BY StartsAlone DEF Config!SetView, Config!disk, Config!process
<1>3. /\ writes[w] \in Request /\ Local(writes[w]) /\ w # 0 /\ doc' \in Documents /\ bak' \in Documents
      /\ backup' \in Documents /\ cache' = doc' /\ view \in Documents /\ pending' \subseteq File
  BY <1>2, RequestFacts
<1>4. Config!Patched(view[f], "live", w) \in Config!Document
  BY <1>3, PatchedDocument DEF Documents
<1>5. e \in Edit /\ view' \in Documents
  BY <1>1, <1>3, <1>4 DEF Edit, Documents
<1>6. <<e>> \in Seq(Edit) /\ <<e>> # <<>>
  <2> HIDE DEF e
  <2> QED
    BY <1>5
<1>7. writes' = [writes EXCEPT ![w] = r]
  BY <1>1
<1> HIDE DEF e
<1>8. r \in Request /\ r.pc = "section" /\ r.op = op /\ r.failed = writes[w].failed /\ r.todo = <<e>>
      /\ r.refused = writes[w].refused
  BY <1>3, <1>6 DEF Request, Documents
<1> HIDE DEF r
<1>9. Local(r)
  BY <1>2, <1>3, <1>6, <1>8 DEF Local
<1>10. Synced(r, view', cache') /\ ~Resting(r)
  BY <1>8 DEF Synced, Resting
<1>11. Config!RestartListed'
  BY <1>2 DEF ConfigInv, Config!RestartListed
<1>12. holder # w
  BY <1>2 DEF ConfigInv, LockInv
<1> QED
  BY <1>2, <1>3, <1>5, <1>7, <1>8, <1>9, <1>10, <1>11, <1>12, RequestMoves

LEMMA SectionRefusedKeeps == ASSUME ConfigInv, NEW w \in Writer, Config!SectionRefused(w) PROVE ConfigInv'
<1> DEFINE q == [writes[w] EXCEPT !.failed = TRUE]
           r == Config!Over(q)
           f == writes[w].todo[1].file
<1>1. /\ writes[w].pc = "undo" /\ writes' = [writes EXCEPT ![w] = r]
      /\ view' = view \/ view' = [view EXCEPT ![f].live = writes[w].got[f].live]
      /\ UNCHANGED <<apart, doc, bak, backup, cache, started, pending, cleared, holder, sick>>
  BY DEF Config!SectionRefused, Config!disk, Config!process
<1>2. /\ writes[w] \in Request /\ Local(writes[w]) /\ w # 0 /\ doc' \in Documents /\ bak' \in Documents
      /\ backup' \in Documents /\ cache' = doc' /\ view \in Documents /\ pending' \subseteq File
  BY <1>1, RequestFacts
<1>3. writes[w].todo \in Seq(Edit) /\ writes[w].todo # <<>>
  BY <1>1, <1>2 DEF Request, Local
<1>4. writes[w].todo[1] \in Edit
  BY <1>3
<1>5. f \in File
  BY <1>4 DEF Edit
<1>6. view[f] \in Config!Document /\ writes[w].got[f] \in Config!Document
  BY <1>2, <1>5 DEF Documents, Request
<1> HIDE DEF f
<1>7. view' \in Documents
  <2>1. [view[f] EXCEPT !.live = writes[w].got[f].live] \in Config!Document
    BY <1>6 DEF Config!Document
  <2> QED
    BY <1>1, <1>2, <2>1 DEF Documents
<1>8. q \in Request /\ q.op = writes[w].op /\ q.wrote = writes[w].wrote /\ q.refused = writes[w].refused
      /\ q.failed = TRUE
  BY <1>2 DEF Request
<1> HIDE DEF q
<1>9. r \in Request /\ r.pc = "done" /\ r.op = writes[w].op /\ r.failed /\ ~r.refused
  BY <1>1, <1>2, <1>8, OverRequest DEF Local
<1> HIDE DEF r
<1>10. Local(r)
  BY <1>9 DEF Local
<1>11. Config!RestartListed'
  BY <1>1 DEF ConfigInv, Config!RestartListed
<1>12. holder # w
  BY <1>1 DEF ConfigInv, LockInv
<1> QED
  BY <1>1, <1>2, <1>7, <1>9, <1>10, <1>11, <1>12, RequestMoves

LEMMA SetupGuardKeeps == ASSUME ConfigInv, NEW w \in Writer, Config!SetupGuard(w) PROVE ConfigInv'
<1> DEFINE r == [writes[w] EXCEPT !.op = "setup", !.pc = "guarded"]
<1>1. /\ writes[w].pc = "idle" /\ (apart => \A v \in Writer : Resting(writes[v]))
      /\ UNCHANGED <<apart, doc, bak, backup, cache, started, pending, cleared, view, holder, sick>>
  BY StartsAlone DEF Config!SetupGuard, Config!disk, Config!process
<1>2. /\ writes[w] \in Request /\ Local(writes[w]) /\ w # 0 /\ doc' \in Documents /\ bak' \in Documents
      /\ backup' \in Documents /\ cache' = doc' /\ view' \in Documents /\ pending' \subseteq File
      /\ writes \in [Writer -> Request]
  BY <1>1, RequestFacts
<1>3. writes' = [writes EXCEPT ![w] = r]
  BY <1>2 DEF Config!SetupGuard, Request
<1>4. r \in Request /\ r.pc = "guarded" /\ r.failed = writes[w].failed
  BY <1>2 DEF Request
<1>5. Local(r)
  BY <1>1, <1>2 DEF Local, Request
<1> HIDE DEF r
<1>6. (Resting(writes[w]) => view = cache) => Synced(r, view', cache')
  BY <1>1, <1>4 DEF Synced, Resting
<1>7. Config!RestartListed' /\ holder # w /\ ~Resting(r)
  BY <1>1, <1>4 DEF ConfigInv, Config!RestartListed, LockInv, Resting
<1> QED
  BY <1>1, <1>2, <1>3, <1>4, <1>5, <1>6, <1>7, RequestMoves

LEMMA RestoreKeeps == ASSUME ConfigInv, NEW w \in Writer, Config!Restore(w) PROVE ConfigInv'
<1> DEFINE all == [i \in 1..Config!Cardinality(File) |->
                     LET f == Config!InOrder(File)[i] IN [file |-> f, new |-> backup[f]]]
           r == [writes[w] EXCEPT !.op = "restore", !.pc = "restore", !.later = all]
<1>1. /\ writes[w].pc = "idle" /\ (apart => \A v \in Writer : Resting(writes[v]))
      /\ writes' = [writes EXCEPT ![w] = r] /\ backup' = doc
      /\ UNCHANGED <<apart, doc, bak, cache, started, pending, cleared, view, holder, sick>>
  BY StartsAlone DEF Config!Restore, Config!process
<1>2. /\ writes[w] \in Request /\ Local(writes[w]) /\ w # 0 /\ doc' \in Documents /\ bak' \in Documents
      /\ backup' \in Documents /\ cache' = doc' /\ view' \in Documents /\ pending' \subseteq File
      /\ backup \in Documents
  BY <1>1, RequestFacts
<1>3. all \in Seq(Edit)
  BY <1>2, EditsForAll DEF Documents
<1> HIDE DEF all
<1>4. r \in Request /\ r.pc = "restore" /\ r.failed = writes[w].failed
  BY <1>2, <1>3 DEF Request
<1>5. Local(r)
  BY <1>1, <1>2 DEF Local, Request
<1> HIDE DEF r
<1>6. (Resting(writes[w]) => view = cache) => Synced(r, view', cache')
  BY <1>1, <1>4 DEF Synced, Resting
<1>7. Config!RestartListed' /\ holder # w /\ ~Resting(r)
  BY <1>1, <1>4 DEF ConfigInv, Config!RestartListed, LockInv, Resting
<1> QED
  BY <1>1, <1>2, <1>4, <1>5, <1>6, <1>7, RequestMoves

LEMMA BakKeeps == ASSUME ConfigInv, NEW w \in Writer, Config!Bak(w) PROVE ConfigInv'
<1> DEFINE r == [writes[w] EXCEPT !.pc = "file"]
           f == Head(writes[w].todo).file
<1>1. /\ writes[w].pc = "bak" /\ holder = w /\ bak' = [bak EXCEPT ![f] = doc[f]]
      /\ UNCHANGED <<apart, doc, backup, cache, started, pending, cleared, view, holder, sick>>
  BY DEF Config!Bak, Config!WriteBak, Config!process
<1>2. /\ writes[w] \in Request /\ Local(writes[w]) /\ w # 0 /\ doc' \in Documents /\ bak \in Documents
      /\ backup' \in Documents /\ cache' = doc' /\ view' \in Documents /\ pending' \subseteq File
      /\ writes \in [Writer -> Request] /\ doc \in Documents
  BY <1>1, RequestFacts
<1>3. writes' = [writes EXCEPT ![w] = r]
  BY <1>2 DEF Config!Bak, Request
<1>4. writes[w].todo \in Seq(Edit) /\ writes[w].todo # <<>>
  BY <1>1, <1>2 DEF Request, Local
<1>5. Head(writes[w].todo) \in Edit
  BY <1>4
<1>6. f \in File
  BY <1>5 DEF Edit
<1>7. r \in Request /\ r.pc = "file" /\ r.failed = writes[w].failed /\ r.todo = writes[w].todo
      /\ r.op = writes[w].op /\ r.tell = writes[w].tell
  BY <1>2 DEF Request
<1>8. Local(r)
  BY <1>1, <1>2 DEF Local, Request
<1> HIDE DEF r
<1>9. bak' \in Documents /\ bak'[Head(r.todo).file] = doc'[Head(r.todo).file]
  <2> HIDE DEF f
  <2>1. bak'[f] = doc'[f] /\ bak' \in Documents
    BY <1>1, <1>2, <1>6 DEF Documents
  <2> QED
    BY <1>7, <2>1 DEF f
<1>10. Synced(writes[w], view, cache) => Synced(r, view', cache')
  BY <1>1, <1>7 DEF Synced
<1>11. Config!RestartListed' /\ ~Resting(r)
  BY <1>1, <1>7 DEF ConfigInv, Config!RestartListed, Resting
<1> QED
  BY <1>1, <1>2, <1>3, <1>7, <1>8, <1>9, <1>10, <1>11, RequestMoves

LEMMA MoreLeft ==
  ASSUME NEW S, NEW s \in Seq(S), Len(s) > 1
  PROVE  Tail(s) # <<>>
<1>1. s # <<>> /\ Len(s) \in Nat
  OBVIOUS
<1>2. Tail(s) \in Seq(S) /\ Len(Tail(s)) = Len(s) - 1
  BY <1>1
<1>3. Len(Tail(s)) # 0
  <2> DEFINE m == Len(Tail(s))
             n == Len(s)
  <2>1. n \in Nat /\ n > 1 /\ m = n - 1
    BY <1>1, <1>2
  <2> HIDE DEF m, n
  <2>2. m # 0
    BY <2>1
  <2> QED
    BY <2>2 DEF m
<1>4. PICK t \in Seq(S) : t = Tail(s) /\ Len(t) # 0
  BY <1>2, <1>3
<1>5. t # <<>>
  BY <1>4
<1> QED
  BY <1>4, <1>5

LEMMA WriteFileKeeps == ASSUME ConfigInv, NEW w \in Writer, Config!WriteFile(w) PROVE ConfigInv'
<1> DEFINE p == Head(writes[w].todo)
           more == Len(writes[w].todo) > 1
           r == [writes[w] EXCEPT !.todo = Tail(@), !.wrote = @ \cup {p.file}, !.tell = @ + 1,
                                  !.pc = IF more THEN "bak" ELSE "tell"]
<1>1. /\ writes[w].pc = "file" /\ writes' = [writes EXCEPT ![w] = r]
      /\ doc' = [doc EXCEPT ![p.file] = p.new] /\ cache' = [cache EXCEPT ![p.file] = p.new]
      /\ pending' = IF cache[p.file].boot # p.new.boot THEN pending \cup {p.file} ELSE pending
      /\ holder' = IF more THEN w ELSE 0
      /\ UNCHANGED <<apart, bak, backup, started, cleared, view, sick>>
  <2>1. writes[w].pc = "file" /\ UNCHANGED <<apart, bak, backup, started, cleared, view, sick>>
    BY DEF Config!WriteFile
  <2>2. /\ doc' = [doc EXCEPT ![p.file] = p.new] /\ cache' = [cache EXCEPT ![p.file] = p.new]
        /\ pending' = IF cache[p.file].boot # p.new.boot THEN pending \cup {p.file} ELSE pending
    BY DEF Config!WriteFile, Config!ListChange
  <2>3. holder' = IF more THEN w ELSE 0
    BY DEF Config!WriteFile, Config!Free
  <2>4. writes' = [writes EXCEPT ![w] = r]
    BY RequestFacts DEF Config!WriteFile, Request
  <2> QED
    BY <2>1, <2>2, <2>3, <2>4
<1>2. /\ writes[w] \in Request /\ Local(writes[w]) /\ w # 0 /\ doc \in Documents /\ bak' \in Documents
      /\ backup' \in Documents /\ cache = doc /\ view' \in Documents /\ pending \subseteq File
  BY <1>1, RequestFacts
<1>3. writes[w].todo \in Seq(Edit) /\ writes[w].todo # <<>>
  BY <1>1, <1>2 DEF Request, Local
<1>4. p \in Edit /\ Tail(writes[w].todo) \in Seq(Edit) /\ (more => Tail(writes[w].todo) # <<>>)
  <2>1. p \in Edit /\ Tail(writes[w].todo) \in Seq(Edit)
    BY <1>3
  <2>2. more => Tail(writes[w].todo) # <<>>
    BY <1>3, MoreLeft
  <2> QED
    BY <2>1, <2>2
<1> HIDE DEF p, more
<1>5. p.file \in File /\ p.new \in Config!Document
  BY <1>4 DEF Edit
<1>6. doc' \in Documents /\ cache' = doc' /\ pending' \subseteq File
  BY <1>1, <1>2, <1>5 DEF Documents
<1>7. r \in Request /\ r.pc = (IF more THEN "bak" ELSE "tell") /\ r.failed = writes[w].failed
      /\ r.tell = writes[w].tell + 1 /\ writes[w].tell \in Nat /\ r.todo = Tail(writes[w].todo)
      /\ r.refused = writes[w].refused
  <2>1. writes[w].tell \in Nat /\ writes[w].tell + 1 \in Nat /\ writes[w].wrote \cup {p.file} \subseteq File
    BY <1>2, <1>5 DEF Request
  <2>2. (IF more THEN "bak" ELSE "tell") \in {"bak", "tell"}
    OBVIOUS
  <2> QED
    BY <1>2, <1>4, <2>1, <2>2 DEF Request
<1> HIDE DEF r
<1>8. Local(r)
  BY <1>1, <1>2, <1>4, <1>7 DEF Local
<1>9. r.tell # 0
  BY <1>7
<1>10. Synced(r, view', cache') /\ ~Resting(r)
  BY <1>7, <1>9 DEF Synced, Resting
<1>11. holder = w
  BY <1>1 DEF ConfigInv, LockInv
<1>12. Config!RestartListed'
  <2> SUFFICES ASSUME ~cleared, NEW f \in File, cache'[f].boot # started[f].boot PROVE f \in pending'
    BY <1>1 DEF Config!RestartListed
  <2>1. cache[f].boot # started[f].boot => f \in pending
    BY DEF ConfigInv, Config!RestartListed
  <2>2. CASE f = p.file
    <3>1. cache'[f] = p.new
      BY <1>1, <1>2, <2>2 DEF Documents
    <3> QED
      BY <1>1, <2>1, <2>2, <3>1
  <2>3. CASE f # p.file
    <3>1. cache'[f] = cache[f]
      BY <1>1, <1>2, <2>3 DEF Documents
    <3> QED
      BY <1>1, <2>1, <3>1
  <2> QED
    BY <2>2, <2>3
<1> QED
  BY <1>1, <1>2, <1>6, <1>7, <1>8, <1>10, <1>11, <1>12, RequestMoves

LEMMA WriteFailsKeeps == ASSUME ConfigInv, NEW w \in Writer, Config!WriteFails(w) PROVE ConfigInv'
<1>1. /\ writes[w].pc \in {"bak", "file"} /\ holder = w /\ holder' = 0
      /\ UNCHANGED <<apart, doc, bak, backup, cache, started, pending, cleared, view, sick>>
  BY DEF Config!WriteFails, Config!CacheStays, Config!Free, Config!disk, Config!process
<1>2. /\ writes[w] \in Request /\ Local(writes[w]) /\ w # 0 /\ doc' \in Documents /\ bak' \in Documents
      /\ backup' \in Documents /\ cache' = doc' /\ view' \in Documents /\ pending' \subseteq File
  BY <1>1, RequestFacts
<1>3. Config!RestartListed'
  BY <1>1 DEF ConfigInv, Config!RestartListed
<1>4. CASE writes[w].op \in {"flag", "paths"}
  <2> DEFINE r == [writes[w] EXCEPT !.pc = "undo"]
  <2>1. writes' = [writes EXCEPT ![w] = r]
    BY <1>4 DEF Config!WriteFails
  <2>2. r \in Request /\ r.pc = "undo"
    BY <1>2 DEF Request
  <2>3. Local(r)
    BY <1>1, <1>2, <1>4 DEF Local, Request
  <2> HIDE DEF r
  <2>4. Synced(r, view', cache') /\ ~Resting(r)
    BY <2>2 DEF Synced, Resting
  <2> QED
    BY <1>1, <1>2, <1>3, <2>1, <2>2, <2>3, <2>4, RequestMoves
<1>5. CASE writes[w].op \notin {"flag", "paths"}
  <2> DEFINE q == [writes[w] EXCEPT !.failed = TRUE]
             r == Config!Over(q)
  <2>1. writes' = [writes EXCEPT ![w] = r]
    BY <1>5 DEF Config!WriteFails
  <2>2. q \in Request /\ q.refused = writes[w].refused /\ q.failed
    BY <1>2 DEF Request
  <2> HIDE DEF q
  <2>3. r \in Request /\ r.pc = "done" /\ r.failed /\ ~r.refused
    BY <1>1, <1>2, <2>2, OverRequest DEF Local
  <2> HIDE DEF r
  <2>4. Local(r)
    BY <2>3 DEF Local
  <2> QED
    BY <1>1, <1>2, <1>3, <2>1, <2>3, <2>4, RequestMoves
<1> QED
  BY <1>4, <1>5

LEMMA NextAfterGood ==
  ASSUME ConfigInv, NEW w \in Writer, writes[w].pc = "tell"
  PROVE  /\ Config!NextAfter(w) \in Request /\ Local(Config!NextAfter(w))
         /\ Config!NextAfter(w).pc \in {"read", "restore", "done"}
         /\ Synced(writes[w], view, cache) =>
              /\ Synced(Config!NextAfter(w), view, cache)
              /\ Resting(Config!NextAfter(w)) => view = cache
<1> DEFINE q == writes[w]
<1>1. q \in Request /\ Local(q) /\ q.pc = "tell"
  BY RequestFacts
<1>2. q.tell \in Nat
  BY <1>1 DEF Request
<1>3. Config!InOrder(File) \in Seq(File)
  BY InLoadOrder
<1> HIDE DEF q
<1>4. Synced(q, view, cache) /\ ~(q.tell > 0) => view = cache
  BY <1>1, <1>2 DEF Synced
<1>5. CASE q.tell > 0
  <2> DEFINE r == [q EXCEPT !.pc = "read", !.tell = @ - 1, !.reads = Config!InOrder(File)]
  <2>1. Config!NextAfter(w) = r
    BY <1>5 DEF Config!NextAfter, q
  <2>2. q.tell - 1 \in Nat
    BY <1>2, <1>5
  <2>3. r \in Request /\ r.pc = "read" /\ r.reads = Config!InOrder(File) /\ Local(r)
    BY <1>1, <1>3, <2>2 DEF Request, Local
  <2> HIDE DEF r
  <2>4. Synced(r, view, cache) /\ ~Resting(r)
    BY <2>3, InLoadOrder DEF Synced, Resting
  <2> QED
    BY <2>1, <2>3, <2>4
<1>6. CASE ~(q.tell > 0) /\ q.later # <<>>
  <2> DEFINE r == [q EXCEPT !.pc = "restore"]
  <2>1. Config!NextAfter(w) = r
    BY <1>6 DEF Config!NextAfter, q
  <2>2. r \in Request /\ r.pc = "restore" /\ Local(r)
    BY <1>1 DEF Request, Local
  <2> HIDE DEF r
  <2>3. (view = cache => Synced(r, view, cache)) /\ ~Resting(r)
    BY <2>2 DEF Synced, Resting
  <2> QED
    BY <1>4, <1>6, <2>1, <2>2, <2>3 DEF q
<1>7. CASE ~(q.tell > 0) /\ q.later = <<>> /\ q.op \in {"flag", "paths", "restore"} /\ ~q.refused
  <2> DEFINE r == [q EXCEPT !.pc = "read", !.reads = Config!InOrder(File), !.op = "refilled"]
  <2>1. Config!NextAfter(w) = r
    BY <1>7 DEF Config!NextAfter, q
  <2>2. r \in Request /\ r.pc = "read" /\ r.reads = Config!InOrder(File) /\ Local(r)
    BY <1>1, <1>3 DEF Request, Local
  <2> HIDE DEF r
  <2>3. Synced(r, view, cache) /\ ~Resting(r)
    BY <2>2, InLoadOrder DEF Synced, Resting
  <2> QED
    BY <2>1, <2>2, <2>3
<1>8. CASE ~(q.tell > 0) /\ q.later = <<>> /\ ~(q.op \in {"flag", "paths", "restore"} /\ ~q.refused)
  <2> DEFINE r == Config!Over(q)
  <2>1. Config!NextAfter(w) = r
    BY <1>8 DEF Config!NextAfter, q
  <2>2. r \in Request /\ r.pc = "done" /\ ~r.refused
    BY <1>1, OverRequest DEF Local
  <2> HIDE DEF r
  <2>3. Local(r) /\ Synced(r, view, cache)
    BY <2>2 DEF Local, Synced
  <2> QED
    BY <1>4, <1>8, <2>1, <2>2, <2>3 DEF q
<1> QED
  BY <1>5, <1>6, <1>7, <1>8

LEMMA TellKeeps == ASSUME ConfigInv, NEW w \in Writer, Config!Tell(w) PROVE ConfigInv'
<1> DEFINE r == Config!NextAfter(w)
<1>1. /\ writes[w].pc = "tell" /\ writes' = [writes EXCEPT ![w] = r]
      /\ UNCHANGED <<apart, doc, bak, backup, cache, started, pending, cleared, view, holder, sick>>
  BY DEF Config!Tell, Config!process
<1>2. /\ writes[w] \in Request /\ Local(writes[w]) /\ w # 0 /\ doc' \in Documents /\ bak' \in Documents
      /\ backup' \in Documents /\ cache' = doc' /\ view' \in Documents /\ pending' \subseteq File
  BY <1>1, RequestFacts
<1>3. /\ r \in Request /\ Local(r) /\ r.pc \in {"read", "restore", "done"}
      /\ Synced(writes[w], view, cache) => Synced(r, view, cache) /\ (Resting(r) => view = cache)
  BY <1>1, NextAfterGood
<1> HIDE DEF r
<1>4. Config!RestartListed' /\ holder # w
  BY <1>1 DEF ConfigInv, Config!RestartListed, LockInv
<1>5. Synced(writes[w], view, cache) => Synced(r, view', cache') /\ (Resting(r) => view' = cache')
  BY <1>1, <1>3
<1> QED
  BY <1>1, <1>2, <1>3, <1>4, <1>5, RequestMoves

LEMMA ReadFileKeeps == ASSUME ConfigInv, NEW w \in Writer, Config!ReadFile(w) PROVE ConfigInv'
<1> DEFINE f == Head(writes[w].reads)
           r == [writes[w] EXCEPT !.reads = Tail(@), !.got = [@ EXCEPT ![f] = cache[f]]]
<1>1. /\ writes[w].pc = "read" /\ writes[w].reads # <<>>
      /\ UNCHANGED <<apart, doc, bak, backup, cache, started, pending, cleared, view, holder, sick>>
  BY DEF Config!ReadFile, Config!disk, Config!process
<1>2. /\ writes[w] \in Request /\ Local(writes[w]) /\ w # 0 /\ doc' \in Documents /\ bak' \in Documents
      /\ backup' \in Documents /\ cache' = doc' /\ view' \in Documents /\ pending' \subseteq File
      /\ cache \in Documents /\ writes \in [Writer -> Request]
  BY <1>1, RequestFacts
<1>3. writes' = [writes EXCEPT ![w] = r]
  BY <1>2 DEF Config!ReadFile, Request
<1>4. writes[w].reads \in Seq(File)
  BY <1>2 DEF Request
<1>5. f \in File /\ Tail(writes[w].reads) \in Seq(File)
  BY <1>1, <1>4
<1>6. \A i \in 1..Len(writes[w].reads) :
        writes[w].reads[i] = f \/ \E j \in 1..Len(Tail(writes[w].reads)) : Tail(writes[w].reads)[j] = writes[w].reads[i]
  <2> SUFFICES ASSUME NEW i \in 1..Len(writes[w].reads), writes[w].reads[i] # f
               PROVE  i - 1 \in 1..Len(Tail(writes[w].reads)) /\ Tail(writes[w].reads)[i - 1] = writes[w].reads[i]
    OBVIOUS
  <2> QED
    BY <1>1, <1>4
<1> HIDE DEF f
<1>7. cache[f] \in Config!Document
  BY <1>2, <1>5 DEF Documents
<1>8. [writes[w].got EXCEPT ![f] = cache[f]] \in [File -> Config!Document]
  BY <1>2, <1>7 DEF Request
<1>9. r \in Request /\ r.pc = "read" /\ r.reads = Tail(writes[w].reads)
      /\ r.got = [writes[w].got EXCEPT ![f] = cache[f]]
  BY <1>1, <1>2, <1>5, <1>8 DEF Request
<1>10. Local(r)
  BY <1>1, <1>2 DEF Local, Request
<1> HIDE DEF r
<1>11. Synced(writes[w], view, cache) => Synced(r, view, cache)
  <2> SUFFICES ASSUME Synced(writes[w], view, cache), NEW g \in File
               PROVE  r.got[g] = cache[g] \/ \E j \in 1..Len(r.reads) : r.reads[j] = g
    BY <1>9 DEF Synced
  <2>1. CASE g = f
    BY <1>2, <1>9, <2>1 DEF Request
  <2>2. CASE g # f
    <3>1. r.got[g] = writes[w].got[g]
      BY <1>2, <1>9, <2>2 DEF Request
    <3>2. writes[w].got[g] = cache[g] \/ \E i \in 1..Len(writes[w].reads) : writes[w].reads[i] = g
      BY <1>1 DEF Synced
    <3> QED
      BY <1>6, <1>9, <2>2, <3>1, <3>2
  <2> QED
    BY <2>1, <2>2
<1>12. Config!RestartListed' /\ holder # w /\ ~Resting(r)
  BY <1>1, <1>9 DEF ConfigInv, Config!RestartListed, LockInv, Resting
<1> QED
  BY <1>1, <1>2, <1>3, <1>9, <1>10, <1>11, <1>12, RequestMoves

LEMMA RefillKeeps == ASSUME ConfigInv, NEW w \in Writer, Config!Refill(w) PROVE ConfigInv'
<1> DEFINE r == [writes[w] EXCEPT !.pc = "tell", !.got = Config!First]
<1>1. /\ writes[w].pc = "read" /\ writes[w].reads = <<>> /\ view' = writes[w].got
      /\ UNCHANGED <<apart, doc, bak, backup, cache, started, pending, cleared, holder, sick>>
  BY DEF Config!Refill, Config!disk, Config!process
<1>2. /\ writes[w] \in Request /\ Local(writes[w]) /\ w # 0 /\ doc' \in Documents /\ bak' \in Documents
      /\ backup' \in Documents /\ cache' = doc' /\ pending' \subseteq File
      /\ cache \in Documents /\ writes \in [Writer -> Request]
  BY <1>1, RequestFacts
<1>3. writes' = [writes EXCEPT ![w] = r]
  BY <1>2 DEF Config!Refill, Request
<1>4. Config!First \in [File -> Config!Document]
  BY DEF Config!First, Config!Document, Config!Value
<1>5. view' \in Documents /\ writes[w].got \in Documents
  BY <1>1, <1>2 DEF Request, Documents
<1>6. r \in Request /\ r.pc = "tell" /\ Local(r)
  BY <1>1, <1>2, <1>4 DEF Request, Local
<1> HIDE DEF r
<1>7. Synced(writes[w], view, cache) => view' = cache'
  <2> SUFFICES ASSUME Synced(writes[w], view, cache) PROVE writes[w].got = cache
    BY <1>1
  <2>1. \A f \in File : writes[w].got[f] = cache[f]
    BY <1>1 DEF Synced
  <2> QED
    BY <1>2, <1>5, <2>1 DEF Documents
<1>8. (view' = cache' => Synced(r, view', cache')) /\ ~Resting(r)
  BY <1>6 DEF Synced, Resting
<1>9. Config!RestartListed' /\ holder # w
  BY <1>1 DEF ConfigInv, Config!RestartListed, LockInv
<1> QED
  BY <1>1, <1>2, <1>3, <1>5, <1>6, <1>7, <1>8, <1>9, RequestMoves

LEMMA RestartRequestKeeps == ASSUME ConfigInv, NEW w \in Writer, Config!RestartRequest(w) PROVE ConfigInv'
<1> DEFINE r == [writes[w] EXCEPT !.op = "restart", !.pc = "restart"]
<1>1. /\ writes[w].pc = "idle" /\ (apart => \A v \in Writer : Resting(writes[v]))
      /\ pending' = {} /\ cleared' = TRUE
      /\ UNCHANGED <<apart, doc, bak, backup, cache, started, view, holder, sick>>
  BY StartsAlone DEF Config!RestartRequest, Config!disk
<1>2. /\ writes[w] \in Request /\ Local(writes[w]) /\ w # 0 /\ doc' \in Documents /\ bak' \in Documents
      /\ backup' \in Documents /\ cache' = doc' /\ view' \in Documents /\ pending' \subseteq File
      /\ writes \in [Writer -> Request]
  BY <1>1, RequestFacts
<1>3. writes' = [writes EXCEPT ![w] = r]
  BY <1>2 DEF Config!RestartRequest, Request
<1>4. r \in Request /\ r.pc = "restart" /\ r.failed = writes[w].failed
  BY <1>2 DEF Request
<1>5. Local(r)
  BY <1>1, <1>2 DEF Local, Request
<1> HIDE DEF r
<1>6. (Resting(writes[w]) => view = cache) => Synced(r, view', cache')
  BY <1>1, <1>4 DEF Synced, Resting
<1>7. Config!RestartListed' /\ holder # w /\ ~Resting(r)
  BY <1>1, <1>4 DEF ConfigInv, Config!RestartListed, LockInv, Resting
<1> QED
  BY <1>1, <1>2, <1>3, <1>4, <1>5, <1>6, <1>7, RequestMoves

LEMMA RestartFailsKeeps == ASSUME ConfigInv, NEW w \in Writer, Config!SpawnFails(w) PROVE ConfigInv'
<1> DEFINE q == [writes[w] EXCEPT !.failed = TRUE]
           r == Config!Over(q)
<1>1. /\ writes[w].pc = "restart" /\ writes' = [writes EXCEPT ![w] = r]
      /\ UNCHANGED <<apart, doc, bak, backup, cache, started, pending, cleared, view, holder, sick>>
  BY DEF Config!SpawnFails, Config!disk, Config!process
<1>2. /\ writes[w] \in Request /\ Local(writes[w]) /\ w # 0 /\ doc' \in Documents /\ bak' \in Documents
      /\ backup' \in Documents /\ cache' = doc' /\ view' \in Documents /\ pending' \subseteq File
  BY <1>1, RequestFacts
<1>3. q \in Request /\ q.refused = writes[w].refused /\ q.failed
  BY <1>2 DEF Request
<1> HIDE DEF q
<1>4. r \in Request /\ r.pc = "done" /\ r.failed /\ ~r.refused
  BY <1>1, <1>2, <1>3, OverRequest DEF Local
<1> HIDE DEF r
<1>5. Local(r)
  BY <1>4 DEF Local
<1>6. Config!RestartListed' /\ holder # w
  BY <1>1 DEF ConfigInv, Config!RestartListed, LockInv
<1> QED
  BY <1>1, <1>2, <1>4, <1>5, <1>6, RequestMoves

\* A process that begins again has every file in its cache and its view
LEMMA BootKeeps ==
  ASSUME ConfigInv, Config!Boot, UNCHANGED <<apart, doc, bak, backup, sick>>
  PROVE  ConfigInv'
<1> DEFINE r(w) == IF writes[w].pc = "idle" THEN writes[w] ELSE [Config!Fresh EXCEPT !.pc = "done"]
<1>1. /\ cache' = doc' /\ view' = doc' /\ started' = doc' /\ pending' = {} /\ cleared' = FALSE
      /\ holder' = 0 /\ writes' = [w \in Writer |-> r(w)]
  BY DEF Config!Boot, Config!Free
<1>2. \A w \in Writer : r(w) \in Request /\ r(w).pc \in {"idle", "done"} /\ Local(r(w))
  <2> SUFFICES ASSUME NEW w \in Writer PROVE r(w) \in Request /\ r(w).pc \in {"idle", "done"} /\ Local(r(w))
    OBVIOUS
  <2>1. CASE writes[w].pc = "idle"
    BY <2>1, RequestFacts
  <2>2. CASE writes[w].pc # "idle"
    <3>1. Config!Fresh \in Request /\ Local(Config!Fresh)
      BY FreshRequest
    <3>2. [Config!Fresh EXCEPT !.pc = "done"] \in Request
      BY <3>1 DEF Request
    <3>3. Config!Fresh.wrote = {} /\ ~Config!Fresh.refused /\ ~Config!Fresh.failed
      BY DEF Config!Fresh
    <3>4. Local([Config!Fresh EXCEPT !.pc = "done"])
      BY <3>1, <3>3 DEF Local, Request
    <3> QED
      BY <2>2, <3>1, <3>2, <3>4 DEF Request
  <2> QED
    BY <2>1, <2>2
<1> HIDE DEF r
<1>3. \A w \in Writer : writes'[w] = r(w)
  BY <1>1
<1>4. writes' \in [Writer -> Request]
  BY <1>1, <1>2
<1>5. ConfigShape'
  BY <1>1, <1>4 DEF ConfigInv, ConfigShape
<1>6. LockInv'
  BY <1>1, <1>2, <1>3, ConfigAssumption DEF LockInv
<1>7. ViewInv'
  BY <1>1, <1>2, <1>3 DEF ViewInv, Resting, Synced
<1>8. Config!RestartListed'
  BY <1>1 DEF Config!RestartListed
<1> QED
  BY <1>1, <1>2, <1>3, <1>5, <1>6, <1>7, <1>8 DEF ConfigInv

LEMMA SickenKeeps == ASSUME ConfigInv, Config!Sicken PROVE ConfigInv'
<1>1. /\ UNCHANGED <<apart, doc, bak, backup, cache, started, pending, cleared, view, holder, writes>>
      /\ \E f \in File : sick' = sick \cup {f}
  BY DEF Config!Sicken, Config!disk, Config!process
<1>2. ConfigShape'
  BY <1>1 DEF ConfigInv, ConfigShape
<1>3. LockInv' /\ ViewInv' /\ Config!RestartListed'
  BY <1>1 DEF ConfigInv, LockInv, ViewInv, Config!RestartListed
<1> QED
  BY <1>1, <1>2, <1>3 DEF ConfigInv

----------------------------------------------------------------------------
(* The configuration engine: the theorem                                   *)

LEMMA ConfigStep == ASSUME ConfigInv, Config!Next PROVE ConfigInv'
<1>1. ASSUME NEW w \in Writer, Config!Replaced(w) PROVE ConfigInv'
  BY <1>1, BootKeeps DEF Config!Replaced, Config!disk
<1>2. Config!Crash => ConfigInv'
  BY BootKeeps DEF Config!Crash, Config!disk
<1> QED
  BY <1>1, <1>2, PutKeeps, SetViewKeeps, SaveSectionKeeps, SectionRefusedKeeps, SetupGuardKeeps,
     SetupPutKeeps, RestoreKeeps, RestoreFileKeeps, BakKeeps, WriteFileKeeps, WriteFailsKeeps, TellKeeps,
     ReadFileKeeps, RefillKeeps, RestartRequestKeeps, RestartFailsKeeps, SickenKeeps DEF Config!Next

\* Only one step replaces a file, and the copy beside it is what it replaces
LEMMA CopyStep ==
  ASSUME ConfigInv, Config!Next, NEW f \in File, doc'[f] # doc[f]
  PROVE  bak'[f] = doc[f]
<1>1. ASSUME NEW w \in Writer, Config!WriteFile(w) PROVE bak'[f] = doc[f]
  <2> DEFINE p == Head(writes[w].todo)
  <2>1. writes[w].pc = "file" /\ doc' = [doc EXCEPT ![p.file] = p.new] /\ bak' = bak
    BY <1>1 DEF Config!WriteFile
  <2>2. f = p.file
    BY <2>1, RequestFacts DEF Documents
  <2> QED
    BY <2>1, <2>2 DEF ConfigInv, LockInv
<1>2. ASSUME NEW w \in Writer, Config!Put(w) \/ Config!SetView(w) \/ Config!SaveSection(w)
             \/ Config!SectionRefused(w) \/ Config!SetupGuard(w) \/ Config!SetupPut(w) \/ Config!Restore(w)
             \/ Config!RestoreFile(w)
      PROVE  doc' = doc
  BY <1>2 DEF Config!Put, Config!SetView, Config!SaveSection, Config!SectionRefused, Config!SetupGuard,
    Config!SetupPut, Config!Restore, Config!RestoreFile, Config!disk
<1>3. ASSUME NEW w \in Writer, Config!Bak(w) \/ Config!WriteFails(w) \/ Config!Tell(w) \/ Config!ReadFile(w)
             \/ Config!Refill(w) \/ Config!RestartRequest(w) \/ Config!Replaced(w) \/ Config!SpawnFails(w)
      PROVE  doc' = doc
  BY <1>3 DEF Config!Bak, Config!WriteFails, Config!Tell, Config!ReadFile, Config!Refill,
    Config!RestartRequest, Config!Replaced, Config!SpawnFails, Config!disk
<1>4. Config!Crash \/ Config!Sicken => doc' = doc
  BY DEF Config!Crash, Config!Sicken, Config!disk
<1> QED
  BY <1>1, <1>2, <1>3, <1>4 DEF Config!Next

LEMMA ConfigTurn == [AgentNext]_agentVars => Config!Next \/ UNCHANGED configVars
BY DEF AgentNext, agentVars

LEMMA ConfigSafe ==
  ConfigInv => Config!TypeOK /\ Config!CacheIsFile /\ Config!RestartListed /\ Config!ViewFollows
               /\ Config!SetupWhole
<1> SUFFICES ASSUME ConfigInv
             PROVE  Config!TypeOK /\ Config!CacheIsFile /\ Config!RestartListed /\ Config!ViewFollows
                    /\ Config!SetupWhole
  OBVIOUS
<1>1. Config!TypeOK
  BY DEF ConfigInv, ConfigShape, LockInv, Config!TypeOK, Config!Free, Documents
<1>2. Config!CacheIsFile /\ Config!RestartListed
  BY DEF ConfigInv, Config!CacheIsFile
<1>3. Config!ViewFollows
  BY DEF ConfigInv, ViewInv, Config!ViewFollows, Config!Idle, Resting
<1>4. Config!SetupWhole
  BY DEF ConfigInv, Local, Config!SetupWhole
<1> QED
  BY <1>1, <1>2, <1>3, <1>4

\* Cache, restart list, setup and .bak copy agree with the files, whatever overlaps, fails or crashes;
\* the view does for requests that did not overlap, once they are over and none failed (Engine.Save,
\* SaveAll, RestoreBackup, the refill hook).
THEOREM ConfigCorrect == AgentSpec => ConfigAgrees
<1>1. AgentInit => ConfigInv
  BY ConfigStarts DEF AgentInit
<1>2. ConfigInv /\ [AgentNext]_agentVars => ConfigInv'
  BY ConfigTurn, ConfigStep, ConfigSame
<1>3. ConfigInv /\ [AgentNext]_agentVars
      => [\A f \in File : doc'[f] # doc[f] => bak'[f] = doc[f]]_(Config!vars)
  BY ConfigTurn, CopyStep DEF configVars
<1>4. ConfigInv => Config!TypeOK /\ Config!CacheIsFile /\ Config!RestartListed /\ Config!ViewFollows
                   /\ Config!SetupWhole
  BY ConfigSafe
<1> QED
  BY <1>1, <1>2, <1>3, <1>4, PTL DEF AgentSpec, ConfigAgrees, Config!BakHoldsPrevious

----------------------------------------------------------------------------
(* The registry: the inductive invariant                                   *)

Vms == Foreign \cup Creator
Ids == Vms \cup {"none"}
Makers == Creator \cup {"none", "absent"}
CreateStage == {"idle", "queued", "storing", "stored", "naming", "configuring", "configured", "landing",
                "done", "failed", "cancelled", "removed"}
Living == {"queued", "storing", "stored", "naming", "configuring", "configured", "landing", "done"}
Entry == [vm : Vms, name : Name]
Sight == [vm : Vms, name : Name, row : Name \cup {"none"}, by : Makers]

Sweeping == [pc : {"idle", "visit", "write", "purge", "cancel"}, todo : SUBSET Entry, seen : SUBSET Name,
             at : Sight \cup {"none"}, gone : SUBSET Name]

RegistryShape ==
  /\ outside \in {"calm", "renaming", "faulty", "cleared", "creating"}
  /\ left \in 0..MaxOutside
  /\ vm \in [Vms -> [name : Name, here : BOOLEAN]]
  /\ row \in [Name -> [uuid : Ids, orphan : BOOLEAN, by : Makers, id : Name \cup {"no id", "none"}]]
  /\ disk \in [Name -> Creator \cup {"none"}]
  /\ missed \in [Vms -> 0..2]
  /\ making \in [Creator -> [pc : CreateStage, name : Name \cup {"none"}, crossed : BOOLEAN]]
  /\ deleting \in [Name -> [pc : {"no", "vm", "row", "tasks"}, uuid : Ids, by : Makers]]
  /\ sweep \in [Machines!Sweeper -> Sweeping]

\* A row there is has a maker or none, and is orphaned only with a VM of its own
RowsInv ==
  \A n \in Name : /\ row[n].by = "absent" => row[n] = Machines!NoRow
                  /\ row[n].orphan => row[n].uuid # "none"

\* Who sweeps, and what a sweep has in hand
Sound(r) ==
  /\ r.pc = "write" => r.at \in Sight /\ r.at.name \in r.seen
  /\ r.pc \in {"purge", "cancel"} => r.todo = {}

SweepInv ==
  \A s \in Machines!Sweeper :
    /\ outside \notin {"faulty", "cleared"} /\ s \notin Discover => sweep[s].pc = "idle"
    /\ Sound(sweep[s])

\* Creates and deletes have a scene of their own; VirtualBox keeps names apart
VmInv ==
  /\ outside # "creating" =>
       /\ \A c \in Creator : making[c].pc = "idle"
       /\ \A n \in Name : deleting[n] = Machines!Still
       /\ \A n \in Name : row[n].by = "absent" \/ (row[n].by = "none" /\ row[n].uuid # "none")
  /\ outside = "creating" => left = 0 /\ \A f \in Foreign : ~vm[f].here
  /\ \A v, w \in Vms : vm[v].here /\ vm[w].here /\ vm[v].name = vm[w].name => v = w
  /\ \A c \in Creator : /\ making[c].pc = "idle" => ~vm[c].here /\ ~making[c].crossed
                        /\ making[c].pc # "idle" => making[c].name = vm[c].name

\* Where nothing is renamed, whatever remembers a VM has it under its name
Known(v) == v \in Vms /\ (v \in Creator => making[v].pc # "idle")

Named(r) ==
  /\ \A e \in r.todo : Known(e.vm) /\ vm[e.vm].name = e.name
  /\ r.pc = "write" => Known(r.at.vm) /\ vm[r.at.vm].name = r.at.name /\ r.at.row \in {"none", r.at.name}

NameInv ==
  outside # "renaming" =>
    /\ \A n \in Name : row[n].uuid # "none" => Known(row[n].uuid) /\ vm[row[n].uuid].name = n
    /\ \A n \in Name : deleting[n].uuid # "none" => Known(deleting[n].uuid) /\ vm[deleting[n].uuid].name = n
    /\ \A s \in Machines!Sweeper : Named(sweep[s])

\* Where VMs are renamed, the one sweep writes a VM's row, or one for a VM that has none
Fit(r) == r.pc = "write" => \A n \in Name : row[n].uuid = r.at.vm => r.at.row = n

RenameInv ==
  outside = "renaming" =>
    /\ \A m, n \in Name : row[m].uuid = row[n].uuid /\ row[m].uuid # "none" => m = n
    /\ \A s \in Discover : Fit(sweep[s])

\* A calm world: what the sweep saw and did not see of a row's VM, missed so often
SeenBy(r, n, v, orphan, times) ==
  /\ r.pc = "idle" /\ orphan => times >= 1
  /\ r.pc \in {"visit", "write", "purge"} =>
       /\ n \in r.seen \/ [vm |-> v, name |-> n] \in r.todo \/ times >= 1
       /\ orphan /\ n \notin r.seen => times >= 1 /\ ([vm |-> v, name |-> n] \in r.todo \/ times = 2)
       /\ orphan /\ n \in r.seen => r.pc = "write" /\ r.at.name = n
  /\ r.pc = "cancel" => ~orphan /\ (n \in r.seen \/ times >= 1)

\* What it is to write is as it found it
Ready(r) ==
  r.pc = "write" =>
    \/ r.at.row = "none" /\ row[r.at.name].by = "absent"
    \/ r.at.row = r.at.name /\ row[r.at.name].by = "none" /\ r.at.by = "none"

CalmInv ==
  outside = "calm" =>
    \A s \in Discover :
      /\ Ready(sweep[s])
      /\ \A n \in Name : row[n].uuid # "none" =>
           SeenBy(sweep[s], n, row[n].uuid, row[n].orphan, missed[row[n].uuid])

\* A create no other crosses lives alone, but for creates that were crossed and are done; each
\* stage of it has what it made
UniqueInv ==
  \A c, d \in Creator :
    /\ making[c].pc \in Living /\ making[d].pc \in Living /\ making[c].name = making[d].name
    /\ c # d /\ ~making[c].crossed
    => making[d].crossed /\ making[d].pc = "done"

PartsOf(c) ==
  LET n == making[c].name p == making[c].pc IN
    /\ p \in {"storing", "naming", "configuring", "landing", "done"} => deleting[n].pc = "no"
    /\ p \in Living \ {"queued"} => disk[n] = c
    /\ p \in {"configuring", "landing", "done"} => vm[c].here
    /\ p = "configured" => vm[c].here \/ deleting[n].pc \in {"row", "tasks"}
    /\ p \in {"landing", "done"} => row[n].by = c /\ row[n].uuid \in {c, "none"}
    /\ p = "done" => row[n].uuid = c

PartsInv == \A c \in Creator : ~making[c].crossed => PartsOf(c)

\* A row some create made, beside the other creates of its name
MadeAt(n, b) ==
  /\ making[b].name = n /\ making[b].pc \in {"landing", "done", "removed"}
  /\ \A c \in Creator : making[c].name = n /\ making[c].pc \in Living /\ c # b =>
       making[c].crossed /\ (making[b].crossed \/ making[c].pc = "done")
  /\ ~making[b].crossed => \A v \in Vms : vm[v].name = n /\ vm[v].here => v = b

MadeInv == \A n \in Name, b \in Creator : row[n].by = b => MadeAt(n, b)

\* A delete that is to remove the disk runs beside no create that has one for itself
DeleteInv ==
  \A n \in Name : deleting[n].pc = "vm" /\ deleting[n].by # "none" =>
    \A c \in Creator : making[c].name = n /\ ~making[c].crossed => making[c].pc \notin Living \ {"queued"}

\* A create that has its row, and has it for itself
Alone(c) == making[c].pc \in {"landing", "done"} /\ ~making[c].crossed

\* The sweep writes such a row for its own VM, and sees it before it removes what it flagged
MadeSeen(r) ==
  /\ r.pc = "write" /\ r.at.by \in Creator => making[r.at.by].crossed \/ r.at.vm = r.at.by
  /\ \A c \in Creator : Alone(c) /\ row[making[c].name].orphan =>
       /\ r.pc \in {"visit", "write"} =>
            making[c].name \in r.seen \/ [vm |-> c, name |-> making[c].name] \in r.todo
       /\ r.pc = "purge" => making[c].name \in r.seen

MadeSeenInv == outside = "creating" => \A s \in Discover : MadeSeen(sweep[s])

RegistryInv ==
  /\ RegistryShape /\ RowsInv /\ SweepInv /\ VmInv /\ NameInv /\ RenameInv /\ CalmInv
  /\ UniqueInv /\ PartsInv /\ MadeInv /\ DeleteInv /\ MadeSeenInv

Tables == <<outside, left, vm, row, disk, making, deleting>>

LEMMA RegistryNames ==
  /\ Machines!Vm = Vms /\ Machines!None = "none" /\ Machines!Sweeper = Discover \cup Import
  /\ "none" \notin Name /\ "none" \notin Vms /\ "absent" \notin Creator /\ "none" \notin Creator
  /\ \A f \in Foreign : f \notin Creator
  /\ \A d, e \in Discover : d = e
BY RegistryAssumption DEF Machines!Vm, Vms, Machines!None, Machines!Sweeper

LEMMA RegistryStarts == Machines!Init => RegistryInv
<1> SUFFICES ASSUME Machines!Init PROVE RegistryInv
  OBVIOUS
<1> USE DEF Machines!Init
<1>1. /\ Machines!FirstName \in [Vms -> Name]
      /\ \A f, g \in Foreign : Machines!FirstName[f] = Machines!FirstName[g] => f = g
  <2>1. \E first \in [Vms -> Name] : \A f, g \in Foreign : first[f] = first[g] => f = g
    BY RegistryAssumption DEF Vms
  <2>2. Machines!FirstName = CHOOSE first \in [Vms -> Name] : \A f, g \in Foreign : first[f] = first[g] => f = g
    BY RegistryNames DEF Machines!FirstName
  <2> QED
    BY <2>1, <2>2
<1>2. /\ \A v \in Vms : vm[v].here = FALSE
      /\ \A n \in Name : row[n] = Machines!NoRow /\ deleting[n] = Machines!Still
      /\ \A c \in Creator : making[c] = Machines!Unmade
      /\ \A s \in Machines!Sweeper : sweep[s] = Machines!Idle
  BY RegistryNames
<1>3. /\ Machines!NoRow = [uuid |-> "none", orphan |-> FALSE, by |-> "absent", id |-> "none"]
      /\ Machines!Still = [pc |-> "no", uuid |-> "none", by |-> "none"]
      /\ Machines!Unmade = [pc |-> "idle", name |-> "none", crossed |-> FALSE]
      /\ Machines!Idle = [pc |-> "idle", todo |-> {}, seen |-> {}, at |-> "none", gone |-> {}]
  BY RegistryNames DEF Machines!NoRow, Machines!Still, Machines!Unmade, Machines!Idle
<1>4. RegistryShape
  <2>1. vm \in [Vms -> [name : Name, here : BOOLEAN]]
    BY <1>1, RegistryNames
  <2>2. row \in [Name -> [uuid : Ids, orphan : BOOLEAN, by : Makers, id : Name \cup {"no id", "none"}]]
    BY <1>3 DEF Ids, Makers
  <2>3. making \in [Creator -> [pc : CreateStage, name : Name \cup {"none"}, crossed : BOOLEAN]]
    BY <1>3 DEF CreateStage
  <2>4. deleting \in [Name -> [pc : {"no", "vm", "row", "tasks"}, uuid : Ids, by : Makers]]
    BY <1>3 DEF Ids, Makers
  <2>5. sweep \in [Machines!Sweeper -> Sweeping]
    BY <1>3 DEF Sweeping
  <2>6. left \in 0..MaxOutside
    BY RegistryAssumption
  <2>7. missed \in [Vms -> 0..2] /\ disk \in [Name -> Creator \cup {"none"}]
    BY RegistryNames
  <2>8. outside \in {"calm", "renaming", "faulty", "cleared", "creating"}
    OBVIOUS
  <2> QED
    BY <2>1, <2>2, <2>3, <2>4, <2>5, <2>6, <2>7, <2>8 DEF RegistryShape
<1>5. RowsInv /\ SweepInv
  BY <1>2, <1>3 DEF RowsInv, SweepInv, Sound
<1>6. VmInv
  BY <1>2, <1>3 DEF VmInv, Vms
<1>7. NameInv /\ RenameInv
  BY <1>2, <1>3, RegistryNames DEF NameInv, RenameInv, Named, Fit
<1>8. CalmInv /\ MadeSeenInv
  BY <1>2, <1>3, RegistryNames DEF CalmInv, SeenBy, Ready, MadeSeenInv, Alone, MadeSeen
<1>9. UniqueInv /\ PartsInv /\ MadeInv /\ DeleteInv
  BY <1>2, <1>3, RegistryNames DEF UniqueInv, PartsInv, PartsOf, MadeInv, MadeAt, DeleteInv, Living
<1> QED
  BY <1>4, <1>5, <1>6, <1>7, <1>8, <1>9 DEF RegistryInv

LEMMA TablesSame ==
  ASSUME RegistryInv, UNCHANGED Tables
  PROVE  RowsInv' /\ VmInv' /\ UniqueInv' /\ PartsInv' /\ MadeInv' /\ DeleteInv'
BY DEF RegistryInv, Tables, RowsInv, VmInv, UniqueInv, PartsInv, PartsOf, MadeInv, MadeAt, DeleteInv

LEMMA RegistrySame == ASSUME RegistryInv, UNCHANGED machineVars PROVE RegistryInv'
<1>1. UNCHANGED Tables /\ sweep' = sweep /\ missed' = missed
  BY DEF machineVars, Tables
<1>2. RowsInv' /\ VmInv' /\ UniqueInv' /\ PartsInv' /\ MadeInv' /\ DeleteInv'
  BY <1>1, TablesSame
<1>3. RegistryShape' /\ SweepInv'
  BY <1>1 DEF RegistryInv, Tables, RegistryShape, SweepInv, Sound
<1>4. NameInv' /\ RenameInv'
  BY <1>1 DEF RegistryInv, Tables, NameInv, RenameInv, Named, Fit, Known
<1>5. CalmInv' /\ MadeSeenInv'
  BY <1>1 DEF RegistryInv, Tables, CalmInv, SeenBy, Ready, MadeSeenInv, Alone, MadeSeen
<1> QED
  BY <1>2, <1>3, <1>4, <1>5 DEF RegistryInv

\* What a request asks for when it is refused or let through
LEMMA RegistryFacts ==
  ASSUME RegistryInv
  PROVE  /\ \A n \in Name : row[n] \in [uuid : Ids, orphan : BOOLEAN, by : Makers, id : Name \cup {"no id", "none"}]
         /\ \A n \in Name : Machines!Has(n) <=> row[n].by # "absent"
         /\ \A n \in Name : row[n].by = "absent" => row[n].uuid = "none" /\ ~row[n].orphan
         /\ \A c \in Creator : making[c].pc \in CreateStage
         /\ \A c \in Creator : making[c].pc # "idle" => making[c].name \in Name /\ making[c].name = vm[c].name
<1>1. Machines!NoRow = [uuid |-> "none", orphan |-> FALSE, by |-> "absent", id |-> "none"]
  BY RegistryNames DEF Machines!NoRow
<1>2. \A n \in Name : row[n] \in [uuid : Ids, orphan : BOOLEAN, by : Makers, id : Name \cup {"no id", "none"}]
  BY DEF RegistryInv, RegistryShape
<1>3. \A n \in Name : row[n].by = "absent" => row[n] = Machines!NoRow
  BY DEF RegistryInv, RowsInv
<1>4. \A c \in Creator : vm[c].name \in Name
  BY DEF RegistryInv, RegistryShape, Vms
<1>5. \A c \in Creator : making[c].pc # "idle" => making[c].name = vm[c].name
  BY DEF RegistryInv, VmInv
<1>6. \A c \in Creator : making[c].pc \in CreateStage
  BY DEF RegistryInv, RegistryShape
<1>7. \A n \in Name : Machines!Has(n) <=> row[n].by # "absent"
  BY <1>1, <1>3 DEF Machines!Has
<1>8. \A n \in Name : row[n].by = "absent" => row[n].uuid = "none" /\ ~row[n].orphan
  BY <1>1, <1>3
<1>9. \A c \in Creator : making[c].pc # "idle" => making[c].name \in Name /\ making[c].name = vm[c].name
  BY <1>4, <1>5
<1> QED
  BY <1>2, <1>6, <1>7, <1>8, <1>9

----------------------------------------------------------------------------
(* The registry: behind the agent's back                                   *)

LEMMA VmMoves ==
  ASSUME RegistryInv, outside # "creating", vm' \in [Vms -> [name : Name, here : BOOLEAN]], left' \in 0..MaxOutside,
         UNCHANGED <<outside, row, disk, making, deleting, sweep, missed>>,
         \A c \in Creator : vm'[c] = vm[c],
         \A v, w \in Vms : vm'[v].here /\ vm'[w].here /\ vm'[v].name = vm'[w].name => v = w,
         outside # "renaming" => \A v \in Vms : vm'[v].name = vm[v].name
  PROVE  RegistryInv'
<1>1. RegistryShape' /\ RowsInv' /\ SweepInv'
  BY DEF RegistryInv, RegistryShape, RowsInv, SweepInv, Sound
<1>2. VmInv'
  BY DEF RegistryInv, VmInv
<1>3. NameInv' /\ RenameInv'
  <2>1. ASSUME NEW v, Known(v), outside # "renaming" PROVE vm'[v].name = vm[v].name
    BY <2>1 DEF Known
  <2>2. \A v : Known(v)' <=> Known(v)
    BY DEF Known
  <2> QED
    BY <2>1, <2>2 DEF RegistryInv, NameInv, RenameInv, Named, Fit
<1>4. CalmInv' /\ MadeSeenInv'
  BY DEF RegistryInv, CalmInv, SeenBy, Ready, MadeSeenInv, Alone
<1>5. UniqueInv' /\ DeleteInv' /\ PartsInv' /\ MadeInv'
  <2>1. \A c \in Creator : making[c].pc = "idle"
    BY DEF RegistryInv, VmInv
  <2>2. \A n \in Name : row[n].by \notin Creator
    BY RegistryNames DEF RegistryInv, VmInv
  <2> QED
    BY <2>1, <2>2 DEF UniqueInv, DeleteInv, PartsInv, PartsOf, MadeInv, MadeAt, Living
<1> QED
  BY <1>1, <1>2, <1>3, <1>4, <1>5 DEF RegistryInv

LEMMA LeftGoes ==
  ASSUME RegistryInv, left > 0
  PROVE  outside # "creating" /\ left - 1 \in 0..MaxOutside
<1>1. left \in 0..MaxOutside /\ MaxOutside \in Nat
  BY RegistryAssumption DEF RegistryInv, RegistryShape
<1>2. left # 0 /\ left - 1 \in 0..MaxOutside
  BY <1>1
<1>3. outside = "creating" => left = 0
  BY DEF RegistryInv, VmInv
<1> QED
  BY <1>2, <1>3

LEMMA VmFacts ==
  ASSUME RegistryInv
  PROVE  /\ vm \in [Vms -> [name : Name, here : BOOLEAN]]
         /\ \A v, w \in Vms : vm[v].here /\ vm[w].here /\ vm[v].name = vm[w].name => v = w
         /\ \A n : Machines!Registered(n) = {v \in Vms : vm[v].here /\ vm[v].name = n}
BY RegistryNames DEF RegistryInv, RegistryShape, VmInv, Machines!Registered

LEMMA RegisterKeeps == ASSUME RegistryInv, NEW f \in Foreign, Machines!Register(f) PROVE RegistryInv'
<1>1. /\ left > 0 /\ Machines!Registered(vm[f].name) = {} /\ left' = left - 1
      /\ UNCHANGED <<outside, row, disk, making, deleting, sweep, missed>>
  BY DEF Machines!Register
<1>2. f \in Vms /\ f \notin Creator
  BY RegistryNames DEF Vms
<1>3. /\ vm' \in [Vms -> [name : Name, here : BOOLEAN]]
      /\ \A v \in Vms : vm'[v].name = vm[v].name /\ (v # f => vm'[v] = vm[v])
  <2>1. vm \in [Vms -> [name : Name, here : BOOLEAN]]
    BY VmFacts
  <2>2. vm' = [vm EXCEPT ![f].here = TRUE]
    BY DEF Machines!Register
  <2> QED
    BY <1>2, <2>1, <2>2
<1>4. \A v, w \in Vms : vm'[v].here /\ vm'[w].here /\ vm'[v].name = vm'[w].name => v = w
  <2>1. \A v \in Vms : ~(vm[v].here /\ vm[v].name = vm[f].name)
    BY <1>1, VmFacts
  <2> QED
    BY <1>3, <2>1, VmFacts
<1>5. \A c \in Creator : vm'[c] = vm[c]
  BY <1>2, <1>3 DEF Vms
<1> QED
  BY <1>1, <1>3, <1>4, <1>5, LeftGoes, VmMoves

LEMMA UnregisterKeeps == ASSUME RegistryInv, NEW f \in Foreign, Machines!Unregister(f) PROVE RegistryInv'
<1>1. /\ left > 0 /\ left' = left - 1
      /\ UNCHANGED <<outside, row, disk, making, deleting, sweep, missed>>
  BY DEF Machines!Unregister
<1>2. f \in Vms /\ f \notin Creator
  BY RegistryNames DEF Vms
<1>3. /\ vm' \in [Vms -> [name : Name, here : BOOLEAN]]
      /\ \A v \in Vms : vm'[v].name = vm[v].name /\ (v # f => vm'[v] = vm[v]) /\ (vm'[v].here => vm[v].here)
  <2>1. vm \in [Vms -> [name : Name, here : BOOLEAN]]
    BY VmFacts
  <2>2. vm' = [vm EXCEPT ![f].here = FALSE]
    BY DEF Machines!Unregister
  <2> QED
    BY <1>2, <2>1, <2>2
<1>4. \A v, w \in Vms : vm'[v].here /\ vm'[w].here /\ vm'[v].name = vm'[w].name => v = w
  BY <1>3, VmFacts
<1>5. \A c \in Creator : vm'[c] = vm[c]
  BY <1>2, <1>3 DEF Vms
<1> QED
  BY <1>1, <1>3, <1>4, <1>5, LeftGoes, VmMoves

LEMMA RenameKeeps ==
  ASSUME RegistryInv, NEW f \in Foreign, NEW n \in Name, Machines!Rename(f, n) PROVE RegistryInv'
<1>1. /\ left > 0 /\ Machines!Registered(n) = {} /\ left' = left - 1 /\ outside = "renaming"
      /\ UNCHANGED <<outside, row, disk, making, deleting, sweep, missed>>
  BY DEF Machines!Rename
<1>2. f \in Vms /\ f \notin Creator
  BY RegistryNames DEF Vms
<1>3. /\ vm' \in [Vms -> [name : Name, here : BOOLEAN]]
      /\ \A v \in Vms : v # f => vm'[v] = vm[v]
      /\ vm'[f].name = n
  <2>1. vm \in [Vms -> [name : Name, here : BOOLEAN]]
    BY VmFacts
  <2>2. vm' = [vm EXCEPT ![f].name = n]
    BY DEF Machines!Rename
  <2> QED
    BY <1>2, <2>1, <2>2
<1>4. \A v, w \in Vms : vm'[v].here /\ vm'[w].here /\ vm'[v].name = vm'[w].name => v = w
  <2>1. \A v \in Vms : ~(vm[v].here /\ vm[v].name = n)
    BY <1>1, VmFacts
  <2> QED
    BY <1>3, <2>1, VmFacts
<1>5. \A c \in Creator : vm'[c] = vm[c]
  BY <1>2, <1>3 DEF Vms
<1> QED
  BY <1>1, <1>3, <1>4, <1>5, LeftGoes, VmMoves

LEMMA ClearKeeps == ASSUME RegistryInv, Machines!Clear PROVE RegistryInv'
<1>1. /\ outside = "faulty" /\ outside' = "cleared"
      /\ UNCHANGED <<left, vm, row, disk, making, deleting, sweep, missed>>
  BY DEF Machines!Clear
<1>2. RegistryShape' /\ RowsInv' /\ SweepInv'
  BY <1>1 DEF RegistryInv, RegistryShape, RowsInv, SweepInv, Sound
<1>3. VmInv' /\ NameInv' /\ RenameInv' /\ CalmInv' /\ MadeSeenInv'
  BY <1>1 DEF RegistryInv, VmInv, NameInv, RenameInv, CalmInv, MadeSeenInv, Alone, Named, Known
<1>4. UniqueInv' /\ DeleteInv' /\ PartsInv' /\ MadeInv'
  BY <1>1 DEF RegistryInv, UniqueInv, DeleteInv, PartsInv, PartsOf, MadeInv, MadeAt
<1> QED
  BY <1>2, <1>3, <1>4 DEF RegistryInv

----------------------------------------------------------------------------
(* The registry: the steps of a sweep                                      *)

\* The one discover task sweeps alone where VirtualBox answers
LEMMA SweepsAlone ==
  ASSUME RegistryInv, NEW s \in Machines!Sweeper, sweep[s].pc # "idle" \/ Machines!MayRun(s),
         outside \in {"calm", "renaming", "creating"}
  PROVE  s \in Discover /\ \A t \in Discover : t = s
BY RegistryNames DEF RegistryInv, SweepInv, Machines!MayRun

LEMMA SweepMoves ==
  ASSUME RegistryInv, NEW s \in Machines!Sweeper, NEW next \in Sweeping,
         sweep' = [sweep EXCEPT ![s] = next], UNCHANGED Tables, missed' \in [Vms -> 0..2],
         sweep[s].pc # "idle" \/ Machines!MayRun(s), Sound(next),
         outside # "renaming" => Named(next), outside = "renaming" => Fit(next),
         outside = "creating" => MadeSeen(next),
         outside = "calm" =>
           /\ Ready(next)
           /\ \A n \in Name : row[n].uuid # "none" =>
                SeenBy(next, n, row[n].uuid, row[n].orphan, missed'[row[n].uuid])
  PROVE  RegistryInv'
<1>1. /\ sweep' \in [Machines!Sweeper -> Sweeping] /\ sweep'[s] = next
      /\ \A t \in Machines!Sweeper : t # s => sweep'[t] = sweep[t]
  BY DEF RegistryInv, RegistryShape
<1>2. RegistryShape'
  BY <1>1 DEF RegistryInv, RegistryShape, Tables
<1>3. \A t \in Discover : t \in Machines!Sweeper
  BY RegistryNames
<1>4. SweepInv'
  <2>1. \A t \in Machines!Sweeper : Sound(sweep'[t])
    BY <1>1 DEF RegistryInv, SweepInv
  <2>2. ASSUME outside \notin {"faulty", "cleared"}, NEW t \in Machines!Sweeper, t \notin Discover PROVE sweep'[t].pc = "idle"
    <3>1. outside \in {"calm", "renaming", "creating"}
      BY <2>2 DEF RegistryInv, RegistryShape
    <3>2. t # s
      BY <2>2, <3>1, SweepsAlone
    <3> QED
      BY <1>1, <2>2, <3>2 DEF RegistryInv, SweepInv
  <2>3. outside' = outside
    BY DEF Tables
  <2> QED
    BY <2>1, <2>2, <2>3 DEF SweepInv
<1>5. NameInv'
  <2>1. \A r : Named(r)' <=> Named(r)
    BY DEF Named, Known, Tables
  <2>2. outside # "renaming" => \A t \in Machines!Sweeper : Named(sweep'[t])
    BY <1>1 DEF RegistryInv, NameInv
  <2> QED
    BY <2>1, <2>2 DEF RegistryInv, NameInv, Tables, Known
<1>6. RenameInv' /\ CalmInv' /\ MadeSeenInv'
  <2>1. outside \in {"calm", "renaming", "creating"} => s \in Discover /\ \A t \in Discover : t = s
    BY SweepsAlone
  <2>2. RenameInv'
    BY <1>1, <2>1 DEF RegistryInv, RenameInv, Fit, Tables
  <2>3. CalmInv'
    BY <1>1, <2>1 DEF RegistryInv, CalmInv, Ready, Tables
  <2>4. MadeSeenInv'
    BY <1>1, <2>1 DEF RegistryInv, MadeSeenInv, Alone, MadeSeen, Tables
  <2> QED
    BY <2>2, <2>3, <2>4
<1> QED
  BY <1>2, <1>4, <1>5, <1>6, TablesSame DEF RegistryInv

\* What the sweep that moves has in hand
LEMMA SweepFacts ==
  ASSUME RegistryInv, NEW s \in Machines!Sweeper
  PROVE  /\ sweep[s] \in Sweeping /\ Sound(sweep[s]) /\ missed \in [Vms -> 0..2]
         /\ outside # "renaming" => Named(sweep[s])
         /\ outside = "renaming" /\ s \in Discover => Fit(sweep[s])
         /\ outside = "creating" /\ s \in Discover => MadeSeen(sweep[s])
         /\ outside = "calm" /\ s \in Discover =>
              /\ Ready(sweep[s])
              /\ \A n \in Name : row[n].uuid # "none" =>
                   SeenBy(sweep[s], n, row[n].uuid, row[n].orphan, missed[row[n].uuid])
         /\ outside # "renaming" => \A n \in Name : row[n].uuid # "none" => row[n].uuid \in Vms /\ vm[row[n].uuid].name = n
<1>1. sweep[s] \in Sweeping /\ missed \in [Vms -> 0..2]
  BY DEF RegistryInv, RegistryShape
<1>2. Sound(sweep[s])
  BY DEF RegistryInv, SweepInv
<1>3. outside # "renaming" => Named(sweep[s]) /\ \A n \in Name : row[n].uuid # "none" => row[n].uuid \in Vms /\ vm[row[n].uuid].name = n
  BY DEF RegistryInv, NameInv, Known
<1> QED
  BY <1>1, <1>2, <1>3 DEF RegistryInv, RenameInv, CalmInv, MadeSeenInv, Alone

\* A create that has its row has its VM under its name
LEMMA MadeFacts ==
  ASSUME RegistryInv, NEW c \in Creator, Alone(c)
  PROVE  /\ c \in Vms /\ vm[c].here /\ making[c].name \in Name /\ vm[c].name = making[c].name
         /\ row[making[c].name].by = c /\ row[making[c].name].uuid \in {c, "none"}
         /\ row[making[c].name].orphan => row[making[c].name].uuid = c
         /\ deleting[making[c].name].pc = "no" /\ outside = "creating"
<1>1. c \in Vms
  BY DEF Vms
<1>2. making[c].name \in Name /\ vm[c].name = making[c].name
  BY RegistryFacts DEF Alone
<1>3. /\ vm[c].here /\ row[making[c].name].by = c /\ row[making[c].name].uuid \in {c, "none"}
      /\ deleting[making[c].name].pc = "no"
  BY DEF Alone, RegistryInv, PartsInv, PartsOf
<1>4. row[making[c].name].orphan => row[making[c].name].uuid # "none"
  BY <1>2 DEF RegistryInv, RowsInv
<1>5. outside = "creating"
  BY DEF Alone, RegistryInv, VmInv
<1> QED
  BY <1>1, <1>2, <1>3, <1>4, <1>5

\* One sweep more that found v gone, in a calm world
LEMMA MissedMore ==
  ASSUME RegistryInv, NEW lost, Machines!Missed(lost)
  PROVE  /\ missed' \in [Vms -> 0..2]
         /\ \A v \in Vms : missed[v] \in 0..2 /\ missed'[v] \in 0..2 /\ missed'[v] >= missed[v]
         /\ outside = "calm" => \A v \in Vms \cap lost : missed'[v] >= 1 /\ (missed[v] >= 1 => missed'[v] = 2)
<1>1. missed \in [Vms -> 0..2]
  BY DEF RegistryInv, RegistryShape
<1>2. missed' = [v \in Vms |-> IF outside = "calm" /\ v \in lost /\ missed[v] < 2 THEN missed[v] + 1 ELSE missed[v]]
  BY RegistryNames DEF Machines!Missed
<1>3. \A v \in Vms : missed[v] \in 0..2 /\ missed'[v] = IF outside = "calm" /\ v \in lost /\ missed[v] < 2 THEN missed[v] + 1 ELSE missed[v]
  BY <1>1, <1>2
<1>4. \A v \in Vms : missed'[v] \in 0..2 /\ missed'[v] >= missed[v]
  BY <1>3
<1>5. missed' \in [Vms -> 0..2]
  BY <1>2, <1>3, <1>4
<1> QED
  BY <1>3, <1>4, <1>5

LEMMA IdleIs ==
  /\ Machines!Idle = [pc |-> "idle", todo |-> {}, seen |-> {}, at |-> "none", gone |-> {}]
  /\ Machines!Idle \in Sweeping
<1>1. Machines!Idle = [pc |-> "idle", todo |-> {}, seen |-> {}, at |-> "none", gone |-> {}]
  BY RegistryNames DEF Machines!Idle
<1> QED
  BY <1>1 DEF Sweeping

LEMMA ListKeeps == ASSUME RegistryInv, NEW s \in Machines!Sweeper, Machines!List(s) PROVE RegistryInv'
<1> DEFINE todo == {[vm |-> v, name |-> vm[v].name] : v \in {w \in Vms : vm[w].here}}
           next == [Machines!Idle EXCEPT !.pc = "visit", !.todo = todo]
<1>1. /\ sweep[s].pc = "idle" /\ Machines!MayRun(s) /\ sweep' = [sweep EXCEPT ![s] = next]
      /\ Machines!Missed({v \in Vms : ~vm[v].here}) /\ UNCHANGED Tables
  BY RegistryNames DEF Machines!List, Machines!Goes, Tables
<1>3. \A v \in Vms : vm[v].here => [vm |-> v, name |-> vm[v].name] \in todo
  OBVIOUS
<1>4. \A e \in todo : e \in Entry /\ e.vm \in Vms /\ vm[e.vm].here /\ vm[e.vm].name = e.name
  BY VmFacts DEF Entry
<1> HIDE DEF todo
<1>2. next.pc = "visit" /\ next.todo = todo /\ next.seen = {}
  BY IdleIs
<1>10. next \in Sweeping
  <2>1. todo \in SUBSET Entry
    BY <1>4
  <2> QED
    BY <2>1, IdleIs DEF Sweeping
<1> HIDE DEF next
<1>5. next \in Sweeping /\ Sound(next)
  BY <1>2, <1>10 DEF Sound
<1>6. Named(next)
  <2>1. \A c \in Creator : vm[c].here => making[c].pc # "idle"
    BY DEF RegistryInv, VmInv
  <2> QED
    BY <1>2, <1>4, <2>1 DEF Named, Known
<1>7. Fit(next)
  BY <1>2 DEF Fit
<1>8. MadeSeen(next)
  BY <1>2, <1>3, MadeFacts DEF MadeSeen
<1>9. ASSUME outside = "calm"
      PROVE  /\ Ready(next)
             /\ \A n \in Name : row[n].uuid # "none" =>
                  SeenBy(next, n, row[n].uuid, row[n].orphan, missed'[row[n].uuid])
  <2>1. s \in Discover
    BY <1>1, <1>9, SweepsAlone
  <2> SUFFICES ASSUME NEW n \in Name, row[n].uuid # "none"
               PROVE  SeenBy(next, n, row[n].uuid, row[n].orphan, missed'[row[n].uuid])
    BY <1>2 DEF Ready
  <2>2. row[n].uuid \in Vms /\ vm[row[n].uuid].name = n
    BY <1>9, SweepFacts
  <2>3. row[n].orphan => missed[row[n].uuid] >= 1
    BY <1>1, <1>9, <2>1, SweepFacts DEF SeenBy
  <2>4. CASE vm[row[n].uuid].here
    <3>1. [vm |-> row[n].uuid, name |-> n] \in todo
      BY <1>3, <2>2, <2>4
    <3>2. missed'[row[n].uuid] >= missed[row[n].uuid] /\ missed[row[n].uuid] \in 0..2 /\ missed'[row[n].uuid] \in 0..2
      BY <1>1, <2>2, MissedMore
    <3> QED
      BY <1>2, <2>3, <3>1, <3>2 DEF SeenBy
  <2>5. CASE ~vm[row[n].uuid].here
    <3>1. missed'[row[n].uuid] >= 1 /\ (missed[row[n].uuid] >= 1 => missed'[row[n].uuid] = 2)
      BY <1>1, <1>9, <2>2, <2>5, MissedMore
    <3> QED
      BY <1>2, <2>3, <3>1 DEF SeenBy
  <2> QED
    BY <2>4, <2>5
<1> QED
  BY <1>1, <1>5, <1>6, <1>7, <1>8, <1>9, MissedMore, SweepMoves

LEMMA ListNothingKeeps == ASSUME RegistryInv, NEW s \in Machines!Sweeper, Machines!ListNothing(s) PROVE RegistryInv'
<1> DEFINE next == [Machines!Idle EXCEPT !.pc = "purge", !.seen = {n \in Name : Machines!Has(n)}]
<1>1. /\ outside = "faulty" /\ Machines!MayRun(s) /\ sweep' = [sweep EXCEPT ![s] = next]
      /\ missed' = missed /\ UNCHANGED Tables
  BY DEF Machines!ListNothing, Machines!Goes, Tables
<1>2. next.pc = "purge" /\ next.todo = {} /\ next \in Sweeping
  <2>1. {n \in Name : Machines!Has(n)} \in SUBSET Name
    OBVIOUS
  <2> QED
    BY <2>1, IdleIs DEF Sweeping
<1> HIDE DEF next
<1>3. next \in Sweeping /\ Sound(next) /\ Named(next) /\ missed' \in [Vms -> 0..2]
  BY <1>1, <1>2, SweepFacts DEF Sound, Named
<1> QED
  BY <1>1, <1>3, SweepMoves

LEMMA MatchFits ==
  ASSUME RegistryInv, NEW v \in Vms, NEW n \in Name, NEW at, at = Machines!Match(v, n)
  PROVE  /\ at \in Name \cup {"none"}
         /\ at = "none" => row[n].by = "absent" /\ \A m \in Name : row[m].uuid # v
         /\ at # "none" => /\ at \in Name /\ row[at].by # "absent"
                           /\ row[at].uuid = v \/ (at = n /\ \A m \in Name : row[m].uuid # v)
<1>1. \A m \in Name : Machines!Has(m) <=> row[m].by # "absent"
  BY RegistryFacts
<1>2. \A m \in Name : row[m].uuid = v => Machines!Has(m)
  BY <1>1, RegistryFacts, RegistryNames
<1>3. CASE \E m \in Name : Machines!Has(m) /\ row[m].uuid = v
  <2>1. at = CHOOSE m \in Name : Machines!Has(m) /\ row[m].uuid = v
    BY <1>3 DEF Machines!Match
  <2>2. at \in Name /\ Machines!Has(at) /\ row[at].uuid = v
    BY <1>3, <2>1
  <2> QED
    BY <1>1, <2>2, RegistryNames
<1>4. CASE ~\E m \in Name : Machines!Has(m) /\ row[m].uuid = v
  <2>1. at = IF Machines!Has(n) THEN n ELSE "none"
    BY <1>4, RegistryNames DEF Machines!Match
  <2> QED
    BY <1>1, <1>2, <1>4, <2>1, RegistryNames
<1> QED
  BY <1>3, <1>4

LEMMA InspectKeeps ==
  ASSUME RegistryInv, NEW s \in Machines!Sweeper, NEW entry \in sweep[s].todo, Machines!Inspect(s, entry)
  PROVE  RegistryInv'
<1> DEFINE found == Machines!Match(entry.vm, entry.name)
           maker == IF found = Machines!None THEN Machines!None ELSE row[found].by
           sight == [vm |-> entry.vm, name |-> entry.name, row |-> found, by |-> maker]
           next == [sweep[s] EXCEPT !.pc = "write", !.todo = @ \ {entry}, !.seen = @ \cup {entry.name},
                                    !.at = sight]
<1>1. /\ sweep[s].pc = "visit" /\ vm[entry.vm].here /\ sweep' = [sweep EXCEPT ![s] = next]
      /\ missed' = [missed EXCEPT ![entry.vm] = 0] /\ UNCHANGED Tables
  BY DEF Machines!Inspect, Machines!Goes, Tables
<1>2. /\ sweep[s] \in Sweeping /\ entry \in Entry /\ entry.vm \in Vms /\ entry.name \in Name
      /\ entry = [vm |-> entry.vm, name |-> entry.name]
  BY SweepFacts DEF Sweeping, Entry
<1>3. /\ found \in Name \cup {"none"}
      /\ found = "none" => row[entry.name].by = "absent" /\ \A m \in Name : row[m].uuid # entry.vm
      /\ found # "none" => /\ found \in Name /\ row[found].by # "absent"
                           /\ row[found].uuid = entry.vm
                              \/ (found = entry.name /\ \A m \in Name : row[m].uuid # entry.vm)
  BY <1>2, MatchFits
<1> HIDE DEF found
<1>4. maker \in Makers /\ maker = IF found = "none" THEN "none" ELSE row[found].by
  BY <1>3, RegistryFacts, RegistryNames DEF Makers
<1> HIDE DEF maker
<1>5. /\ sight \in Sight /\ sight.vm = entry.vm /\ sight.name = entry.name /\ sight.row = found
      /\ sight.by = maker
  BY <1>2, <1>3, <1>4 DEF Sight
<1> HIDE DEF sight
<1>6. /\ next \in Sweeping /\ next.pc = "write" /\ next.at = sight /\ next.todo = sweep[s].todo \ {entry}
      /\ next.seen = sweep[s].seen \cup {entry.name}
  BY <1>2, <1>5 DEF Sweeping
<1> HIDE DEF next
<1>7. Sound(next)
  BY <1>5, <1>6 DEF Sound
<1>8. missed' \in [Vms -> 0..2] /\ \A v \in Vms : v # entry.vm => missed'[v] = missed[v]
  BY <1>1, <1>2, SweepFacts
<1>9. outside # "renaming" =>
        /\ \A e \in sweep[s].todo : Known(e.vm) /\ vm[e.vm].name = e.name
        /\ \A n \in Name : row[n].uuid # "none" => row[n].uuid \in Vms /\ vm[row[n].uuid].name = n
  BY SweepFacts DEF Named
<1>10. outside # "renaming" => found \in {"none", entry.name}
  BY <1>2, <1>3, <1>9, RegistryNames
<1>11. outside # "renaming" => Named(next)
  BY <1>5, <1>6, <1>9, <1>10 DEF Named
<1>12. outside = "renaming" => Fit(next)
  <2> SUFFICES ASSUME outside = "renaming", NEW n \in Name, row[n].uuid = entry.vm PROVE found = n
    BY <1>5, <1>6 DEF Fit
  <2>1. \A l, m \in Name : row[l].uuid = row[m].uuid /\ row[l].uuid # "none" => l = m
    BY DEF RegistryInv, RenameInv
  <2> QED
    BY <1>2, <1>3, <2>1, RegistryNames
<1>13. outside = "creating" => MadeSeen(next)
  <2> SUFFICES ASSUME outside = "creating" PROVE MadeSeen(next)
    OBVIOUS
  <2>1. MadeSeen(sweep[s])
    BY <1>1, SweepsAlone, SweepFacts
  <2>2. ASSUME maker \in Creator, ~making[maker].crossed PROVE entry.vm = maker
    <3>1. found = entry.name /\ row[entry.name].by = maker
      BY <1>4, <1>10, <2>2, RegistryNames
    <3>2. vm[entry.vm].name = entry.name
      BY <1>9
    <3> QED
      BY <1>1, <1>2, <2>2, <3>1, <3>2 DEF RegistryInv, MadeInv, MadeAt
  <2>3. ASSUME NEW c \in Creator, Alone(c), row[making[c].name].orphan
        PROVE  making[c].name \in next.seen \/ [vm |-> c, name |-> making[c].name] \in next.todo
    <3>1. making[c].name \in sweep[s].seen \/ [vm |-> c, name |-> making[c].name] \in sweep[s].todo
      BY <1>1, <2>1, <2>3 DEF MadeSeen
    <3>2. [vm |-> c, name |-> making[c].name] = entry => making[c].name = entry.name
      OBVIOUS
    <3> QED
      BY <1>6, <3>1, <3>2
  <2> QED
    BY <1>5, <1>6, <2>2, <2>3 DEF MadeSeen
<1>14. ASSUME outside = "calm"
       PROVE  /\ Ready(next)
              /\ \A n \in Name : row[n].uuid # "none" =>
                   SeenBy(next, n, row[n].uuid, row[n].orphan, missed'[row[n].uuid])
  <2>1. Ready(next)
    <3>1. \A n \in Name : row[n].by \in {"absent", "none"}
      BY <1>14 DEF RegistryInv, VmInv
    <3> QED
      BY <1>2, <1>3, <1>4, <1>5, <1>6, <1>10, <1>14, <3>1, RegistryNames DEF Ready
  <2>2. ASSUME NEW n \in Name, row[n].uuid # "none"
        PROVE  SeenBy(next, n, row[n].uuid, row[n].orphan, missed'[row[n].uuid])
    <3>1. SeenBy(sweep[s], n, row[n].uuid, row[n].orphan, missed[row[n].uuid])
      BY <1>1, <1>14, <2>2, SweepsAlone, SweepFacts
    <3>2. row[n].uuid \in Vms /\ vm[row[n].uuid].name = n
      BY <1>9, <1>14, <2>2
    <3>3. CASE row[n].uuid = entry.vm
      <4>1. n = entry.name
        BY <1>9, <1>14, <3>2, <3>3
      <4> QED
        BY <1>5, <1>6, <4>1 DEF SeenBy
    <3>4. CASE row[n].uuid # entry.vm
      <4>1. missed'[row[n].uuid] = missed[row[n].uuid]
        BY <1>8, <3>2, <3>4
      <4>2. [vm |-> row[n].uuid, name |-> n] # entry
        BY <3>4
      <4> QED
        BY <1>1, <1>5, <1>6, <3>1, <4>1, <4>2 DEF SeenBy
    <3> QED
      BY <3>3, <3>4
  <2> QED
    BY <2>1, <2>2
<1> QED
  BY <1>1, <1>6, <1>7, <1>8, <1>11, <1>12, <1>13, <1>14, SweepMoves

LEMMA InspectFailsKeeps ==
  ASSUME RegistryInv, NEW s \in Machines!Sweeper, NEW entry \in sweep[s].todo, Machines!InspectFails(s, entry)
  PROVE  RegistryInv'
<1> DEFINE next == [sweep[s] EXCEPT !.todo = @ \ {entry}]
           lost == IF vm[entry.vm].here THEN {} ELSE {entry.vm}
<1>1. /\ sweep[s].pc = "visit" /\ (vm[entry.vm].here => outside = "faulty")
      /\ sweep' = [sweep EXCEPT ![s] = next] /\ Machines!Missed(lost) /\ UNCHANGED Tables
  BY DEF Machines!InspectFails, Machines!Goes, Tables
<1>2. /\ sweep[s] \in Sweeping /\ entry.vm \in Vms /\ entry.name \in Name
  BY SweepFacts DEF Sweeping, Entry
<1>3. /\ next \in Sweeping /\ next.pc = "visit" /\ next.todo = sweep[s].todo \ {entry}
      /\ next.seen = sweep[s].seen
  BY <1>1, <1>2 DEF Sweeping
<1> HIDE DEF next
<1>4. Sound(next) /\ Fit(next)
  BY <1>3 DEF Sound, Fit
<1>5. outside # "renaming" => Named(next)
  BY <1>3, SweepFacts DEF Named
<1>6. outside = "creating" => MadeSeen(next)
  <2> SUFFICES ASSUME outside = "creating",
                      NEW c \in Creator, Alone(c), row[making[c].name].orphan
               PROVE  making[c].name \in next.seen \/ [vm |-> c, name |-> making[c].name] \in next.todo
    BY <1>3 DEF MadeSeen
  <2>1. MadeSeen(sweep[s])
    BY <1>1, SweepsAlone, SweepFacts
  <2>2. making[c].name \in sweep[s].seen \/ [vm |-> c, name |-> making[c].name] \in sweep[s].todo
    BY <1>1, <2>1 DEF MadeSeen
  <2>3. entry.vm # c
    BY <1>1, MadeFacts
  <2>4. [vm |-> c, name |-> making[c].name] # entry
    BY <2>3
  <2> QED
    BY <1>3, <2>2, <2>4
<1>7. ASSUME outside = "calm"
      PROVE  /\ Ready(next)
             /\ \A n \in Name : row[n].uuid # "none" =>
                  SeenBy(next, n, row[n].uuid, row[n].orphan, missed'[row[n].uuid])
  <2> SUFFICES ASSUME NEW n \in Name, row[n].uuid # "none"
               PROVE  SeenBy(next, n, row[n].uuid, row[n].orphan, missed'[row[n].uuid])
    BY <1>3 DEF Ready
  <2>1. SeenBy(sweep[s], n, row[n].uuid, row[n].orphan, missed[row[n].uuid])
    BY <1>1, <1>7, SweepsAlone, SweepFacts
  <2>2. row[n].uuid \in Vms
    BY <1>7, SweepFacts
  <2>3. /\ missed[row[n].uuid] \in 0..2 /\ missed'[row[n].uuid] \in 0..2
        /\ missed'[row[n].uuid] >= missed[row[n].uuid]
    BY <1>1, <2>2, MissedMore
  <2>4. CASE row[n].uuid = entry.vm
    <3>1. row[n].uuid \in Vms \cap lost
      BY <1>1, <1>7, <2>2, <2>4
    <3>2. missed'[row[n].uuid] >= 1 /\ (missed[row[n].uuid] >= 1 => missed'[row[n].uuid] = 2)
      BY <1>1, <1>7, <3>1, MissedMore
    <3> QED
      BY <1>1, <1>3, <2>1, <3>2 DEF SeenBy
  <2>5. CASE row[n].uuid # entry.vm
    <3>1. [vm |-> row[n].uuid, name |-> n] # entry
      BY <2>5
    <3>2. missed[row[n].uuid] = 2 => missed'[row[n].uuid] = 2
      BY <2>3
    <3>3. missed[row[n].uuid] >= 1 => missed'[row[n].uuid] >= 1
      BY <2>3
    <3> QED
      BY <1>1, <1>3, <2>1, <3>1, <3>2, <3>3 DEF SeenBy
  <2> QED
    BY <2>4, <2>5
<1> HIDE DEF lost
<1> QED
  BY <1>1, <1>3, <1>4, <1>5, <1>6, <1>7, MissedMore, SweepMoves

LEMMA VisitedKeeps == ASSUME RegistryInv, NEW s \in Machines!Sweeper, Machines!Visited(s) PROVE RegistryInv'
<1> DEFINE next == [sweep[s] EXCEPT !.pc = "purge"]
<1>1. /\ sweep[s].pc = "visit" /\ sweep[s].todo = {} /\ sweep' = [sweep EXCEPT ![s] = next]
      /\ missed' = missed /\ UNCHANGED Tables
  BY DEF Machines!Visited, Machines!Goes, Tables
<1>2. sweep[s] \in Sweeping /\ missed' \in [Vms -> 0..2]
  BY <1>1, SweepFacts
<1>3. /\ next \in Sweeping /\ next.pc = "purge" /\ next.todo = {} /\ next.seen = sweep[s].seen
  BY <1>1, <1>2 DEF Sweeping
<1> HIDE DEF next
<1>4. Sound(next) /\ Fit(next) /\ Named(next)
  BY <1>3 DEF Sound, Fit, Named
<1>5. outside = "creating" => MadeSeen(next)
  <2>1. outside = "creating" => MadeSeen(sweep[s])
    BY <1>1, SweepsAlone, SweepFacts
  <2> QED
    BY <1>1, <1>3, <2>1 DEF MadeSeen
<1>6. ASSUME outside = "calm"
      PROVE  /\ Ready(next)
             /\ \A n \in Name : row[n].uuid # "none" =>
                  SeenBy(next, n, row[n].uuid, row[n].orphan, missed'[row[n].uuid])
  <2>1. \A n \in Name : row[n].uuid # "none" =>
          SeenBy(sweep[s], n, row[n].uuid, row[n].orphan, missed[row[n].uuid])
    BY <1>1, <1>6, SweepsAlone, SweepFacts
  <2> QED
    BY <1>1, <1>3, <2>1 DEF SeenBy, Ready
<1> QED
  BY <1>1, <1>2, <1>3, <1>4, <1>5, <1>6, SweepMoves

----------------------------------------------------------------------------
(* The registry: the statements of a sweep on the machines table           *)

Row == [uuid : Ids, orphan : BOOLEAN, by : Makers, id : Name \cup {"no id", "none"}]

LEMMA SweepWrites ==
  ASSUME RegistryInv, NEW s \in Machines!Sweeper, NEW next \in Sweeping, sweep[s].pc # "idle",
         sweep' = [sweep EXCEPT ![s] = next], next.pc \in {"idle", "visit", "cancel"}, Sound(next),
         UNCHANGED <<outside, left, vm, disk, making, deleting, missed>>,
         row' \in [Name -> Row],
         \A n \in Name : row'[n].by = "absent" => row'[n] = Machines!NoRow,
         \A n \in Name : row'[n].orphan => row'[n].uuid # "none",
         outside # "creating" => \A n \in Name : row'[n].by = "absent" \/ (row'[n].by = "none" /\ row'[n].uuid # "none"),
         outside # "renaming" => Named(next),
         outside # "renaming" => \A n \in Name : row'[n].uuid # "none" => Known(row'[n].uuid) /\ vm[row'[n].uuid].name = n,
         outside = "renaming" => \A m, n \in Name : row'[m].uuid = row'[n].uuid /\ row'[m].uuid # "none" => m = n,
         outside = "calm" => \A n \in Name : row'[n].uuid # "none" =>
                               SeenBy(next, n, row'[n].uuid, row'[n].orphan, missed[row'[n].uuid]),
         \A n \in Name : row'[n].by \in Creator => row'[n].by = row[n].by,
         \A c \in Creator : Alone(c) =>
           /\ row'[making[c].name].by = c
           /\ row'[making[c].name].uuid \in {row[making[c].name].uuid, c}
           /\ outside = "creating" /\ next.pc = "visit" /\ row'[making[c].name].orphan =>
                making[c].name \in next.seen \/ [vm |-> c, name |-> making[c].name] \in next.todo
  PROVE  RegistryInv'
<1>1. /\ sweep' \in [Machines!Sweeper -> Sweeping] /\ sweep'[s] = next
      /\ \A t \in Machines!Sweeper : t # s => sweep'[t] = sweep[t]
  BY DEF RegistryInv, RegistryShape
<1>2. RegistryShape'
  BY <1>1 DEF RegistryInv, RegistryShape, Row
<1>3. RowsInv'
  BY DEF RowsInv, Machines!NoRow, Machines!None
<1>4. \A t \in Discover : t \in Machines!Sweeper
  BY RegistryNames
<1>5. outside \in {"calm", "renaming", "creating"} => s \in Discover /\ \A t \in Discover : t = s
  BY SweepsAlone
<1>6. SweepInv'
  <2>1. \A t \in Machines!Sweeper : Sound(sweep'[t])
    BY <1>1 DEF RegistryInv, SweepInv
  <2>2. ASSUME outside \notin {"faulty", "cleared"}, NEW t \in Machines!Sweeper, t \notin Discover PROVE sweep'[t].pc = "idle"
    <3>1. t # s
      BY <1>5, <2>2 DEF RegistryInv, RegistryShape
    <3> QED
      BY <1>1, <2>2, <3>1 DEF RegistryInv, SweepInv
  <2> QED
    BY <2>1, <2>2 DEF SweepInv
<1>7. VmInv'
  BY DEF RegistryInv, VmInv
<1>8. NameInv'
  <2>1. outside # "renaming" => \A t \in Machines!Sweeper : Named(sweep'[t])
    BY <1>1 DEF RegistryInv, NameInv
  <2>2. \A r : Named(r)' <=> Named(r)
    BY DEF Named, Known
  <2> QED
    BY <2>1, <2>2 DEF RegistryInv, NameInv, Known
<1>9. RenameInv' /\ CalmInv'
  BY <1>1, <1>5 DEF RenameInv, CalmInv, Fit, Ready
<1>10. UniqueInv' /\ DeleteInv'
  BY DEF RegistryInv, UniqueInv, DeleteInv
<1>11. PartsInv'
  <2> SUFFICES ASSUME NEW c \in Creator, Alone(c)
               PROVE  /\ row'[making[c].name].by = c /\ row'[making[c].name].uuid \in {c, "none"}
                      /\ making[c].pc = "done" => row'[making[c].name].uuid = c
    BY DEF RegistryInv, PartsInv, PartsOf, Alone
  <2>1. making[c].pc = "done" => row[making[c].name].uuid = c
    BY DEF RegistryInv, PartsInv, PartsOf, Alone
  <2> QED
    BY <2>1, MadeFacts
<1>12. MadeInv'
  BY DEF RegistryInv, MadeInv, MadeAt
<1>13. MadeSeenInv'
  BY <1>1, <1>5 DEF MadeSeenInv, Alone, MadeSeen
<1> QED
  BY <1>2, <1>3, <1>6, <1>7, <1>8, <1>9, <1>10, <1>11, <1>12, <1>13 DEF RegistryInv

LEMMA RowFacts ==
  ASSUME RegistryInv
  PROVE  /\ row \in [Name -> Row]
         /\ \A n \in Name : row[n].by = "absent" => row[n] = Machines!NoRow
         /\ \A n \in Name : row[n].orphan => row[n].uuid # "none"
         /\ outside # "creating" => \A n \in Name : row[n].by = "absent" \/ (row[n].by = "none" /\ row[n].uuid # "none")
         /\ outside # "renaming" => \A n \in Name : row[n].uuid # "none" => Known(row[n].uuid) /\ vm[row[n].uuid].name = n
         /\ outside = "renaming" => \A m, n \in Name : row[m].uuid = row[n].uuid /\ row[m].uuid # "none" => m = n
<1>1. row \in [Name -> Row]
  BY DEF RegistryInv, RegistryShape, Row
<1>2. \A n \in Name : row[n].by = "absent" => row[n] = Machines!NoRow
  BY DEF RegistryInv, RowsInv
<1>3. \A n \in Name : row[n].orphan => row[n].uuid # "none"
  BY DEF RegistryInv, RowsInv
<1>4. outside # "creating" => \A n \in Name : row[n].by = "absent" \/ (row[n].by = "none" /\ row[n].uuid # "none")
  BY DEF RegistryInv, VmInv
<1>5. outside # "renaming" => \A n \in Name : row[n].uuid # "none" => Known(row[n].uuid) /\ vm[row[n].uuid].name = n
  BY DEF RegistryInv, NameInv
<1>6. outside = "renaming" => \A m, n \in Name : row[m].uuid = row[n].uuid /\ row[m].uuid # "none" => m = n
  BY DEF RegistryInv, RenameInv
<1> QED
  BY <1>1, <1>2, <1>3, <1>4, <1>5, <1>6

LEMMA NoRowIs ==
  /\ Machines!NoRow = [uuid |-> "none", orphan |-> FALSE, by |-> "absent", id |-> "none"]
  /\ Machines!NoRow \in Row
<1>1. Machines!NoRow = [uuid |-> "none", orphan |-> FALSE, by |-> "absent", id |-> "none"]
  BY RegistryNames DEF Machines!NoRow
<1> QED
  BY <1>1 DEF Row, Ids, Makers

LEMMA PurgeKeeps == ASSUME RegistryInv, NEW s \in Machines!Sweeper, Machines!Purge(s) PROVE RegistryInv'
<1> DEFINE swept == Machines!DeleteOrphanedMissing(sweep[s].seen)
           next == [sweep[s] EXCEPT !.pc = "cancel", !.gone = swept]
<1>1. /\ sweep[s].pc = "purge" /\ sweep' = [sweep EXCEPT ![s] = next]
      /\ row' = [n \in Name |-> IF n \in swept THEN Machines!NoRow ELSE row[n]]
      /\ UNCHANGED <<outside, left, vm, disk, making, deleting, missed>>
  BY DEF Machines!Purge, Machines!Goes
<1>2. /\ sweep[s] \in Sweeping /\ sweep[s].todo = {} /\ (outside # "renaming" => Named(sweep[s]))
      /\ (outside \in {"calm", "creating"} => s \in Discover)
  BY <1>1, SweepFacts, SweepsAlone DEF Sound
<1>3. /\ swept \subseteq Name
      /\ \A n \in Name : n \in swept <=> row[n].orphan /\ n \notin sweep[s].seen
  BY RegistryFacts, RegistryNames, RowFacts DEF Machines!DeleteOrphanedMissing
<1> HIDE DEF swept
<1>4. next \in Sweeping /\ next.pc = "cancel" /\ next.todo = {} /\ next.seen = sweep[s].seen
  BY <1>2, <1>3 DEF Sweeping
<1> HIDE DEF next
<1>5. Sound(next) /\ Named(next)
  BY <1>4 DEF Sound, Named
<1>6. /\ row' \in [Name -> Row]
      /\ \A n \in Name : row'[n] = IF n \in swept THEN Machines!NoRow ELSE row[n]
  BY <1>1, NoRowIs, RowFacts
<1>7. \A n \in Name : n \in swept => row'[n].uuid = "none" /\ row'[n].by = "absent" /\ ~row'[n].orphan
  BY <1>6, NoRowIs
<1>8. \A n \in Name : row'[n].uuid # "none" \/ row'[n].by # "absent" \/ row'[n].orphan => n \notin swept /\ row'[n] = row[n]
  BY <1>6, <1>7
<1>9. \A n \in Name : row'[n].by \in Creator => row'[n].by = row[n].by
  BY <1>8, RegistryNames
<1>10. \A n \in Name : row'[n].by = "absent" => row'[n] = Machines!NoRow
  BY <1>6, RowFacts
<1>11. \A n \in Name : row'[n].orphan => row'[n].uuid # "none"
  BY <1>8, RowFacts
<1>12. outside # "creating" => \A n \in Name : row'[n].by = "absent" \/ (row'[n].by = "none" /\ row'[n].uuid # "none")
  BY <1>8, RowFacts
<1>13. outside # "renaming" => \A n \in Name : row'[n].uuid # "none" => Known(row'[n].uuid) /\ vm[row'[n].uuid].name = n
  BY <1>8, RowFacts
<1>14. outside = "renaming" => \A m, n \in Name : row'[m].uuid = row'[n].uuid /\ row'[m].uuid # "none" => m = n
  BY <1>8, RowFacts
<1>15. ASSUME outside = "calm", NEW n \in Name, row'[n].uuid # "none"
       PROVE  SeenBy(next, n, row'[n].uuid, row'[n].orphan, missed[row'[n].uuid])
  <2>1. n \notin swept /\ row'[n] = row[n]
    BY <1>8, <1>15
  <2>2. SeenBy(sweep[s], n, row[n].uuid, row[n].orphan, missed[row[n].uuid])
    BY <1>2, <1>15, <2>1, SweepFacts
  <2>3. ~(row[n].orphan /\ n \notin sweep[s].seen)
    BY <1>3, <2>1
  <2> QED
    BY <1>1, <1>2, <1>4, <2>1, <2>2, <2>3 DEF SeenBy
<1>16. ASSUME NEW c \in Creator, Alone(c)
       PROVE  row'[making[c].name] = row[making[c].name]
  <2>1. outside = "creating"
    BY <1>16, MadeFacts
  <2>2. MadeSeen(sweep[s])
    BY <1>2, <2>1, SweepFacts
  <2>3. making[c].name \in Name
    BY <1>16, MadeFacts
  <2>4. row[making[c].name].orphan => making[c].name \in sweep[s].seen
    BY <1>1, <1>16, <2>2 DEF MadeSeen
  <2> QED
    BY <1>3, <1>6, <2>3, <2>4
<1>17. \A c \in Creator : Alone(c) =>
         /\ row'[making[c].name].by = c
         /\ row'[making[c].name].uuid \in {row[making[c].name].uuid, c}
         /\ outside = "creating" /\ next.pc = "visit" /\ row'[making[c].name].orphan =>
              making[c].name \in next.seen \/ [vm |-> c, name |-> making[c].name] \in next.todo
  BY <1>4, <1>16, MadeFacts
<1>18. next.pc \in {"idle", "visit", "cancel"} /\ sweep[s].pc # "idle"
  BY <1>1, <1>4
<1> QED
  BY <1>1, <1>18, <1>4, <1>5, <1>6, <1>9, <1>10, <1>11, <1>12, <1>13, <1>14, <1>15, <1>17, SweepWrites

LEMMA MarkKeeps == ASSUME RegistryInv, NEW s \in Machines!Sweeper, Machines!Mark(s) PROVE RegistryInv'
<1> DEFINE flagged(n) == Machines!Has(n) /\ row[n].uuid # Machines!None /\ n \notin sweep[s].seen
<1>1. /\ sweep[s].pc = "cancel" /\ sweep' = [sweep EXCEPT ![s] = Machines!Idle]
      /\ row' = [n \in Name |-> IF flagged(n) THEN [row[n] EXCEPT !.orphan = TRUE] ELSE row[n]]
      /\ UNCHANGED <<outside, left, vm, disk, making, deleting, missed>>
  BY DEF Machines!Mark, Machines!MarkMissing, Machines!Goes
<1>2. outside \in {"calm", "creating"} => s \in Discover
  BY <1>1, SweepsAlone
<1>3. \A n \in Name : flagged(n) <=> row[n].uuid # "none" /\ n \notin sweep[s].seen
  BY RegistryFacts, RegistryNames
<1> HIDE DEF flagged
<1> PICK next : next = Machines!Idle
  OBVIOUS
<1>4. next \in Sweeping /\ next.pc = "idle" /\ next.todo = {}
  BY IdleIs
<1>5. Sound(next) /\ Named(next)
  BY <1>4 DEF Sound, Named
<1>6. ASSUME NEW n \in Name
      PROVE  /\ row'[n] \in Row /\ row'[n].uuid = row[n].uuid /\ row'[n].by = row[n].by
             /\ row'[n].orphan = (row[n].orphan \/ flagged(n)) /\ (~flagged(n) => row'[n] = row[n])
  <2>1. row[n] \in Row
    BY RowFacts
  <2>2. row'[n] = IF flagged(n) THEN [row[n] EXCEPT !.orphan = TRUE] ELSE row[n]
    BY <1>1
  <2>3. CASE flagged(n)
    <3> PICK r : r = [row[n] EXCEPT !.orphan = TRUE]
      OBVIOUS
    <3>1. r \in Row /\ r.uuid = row[n].uuid /\ r.by = row[n].by /\ r.orphan = TRUE
      BY <2>1 DEF Row
    <3>2. row'[n] = r
      BY <2>2, <2>3
    <3> QED
      BY <2>3, <3>1, <3>2
  <2>4. CASE ~flagged(n)
    BY <2>1, <2>2, <2>4 DEF Row
  <2> QED
    BY <2>3, <2>4
<1>7. row' \in [Name -> Row]
  BY <1>1, <1>6
<1>8. \A n \in Name : row'[n].by = "absent" => row'[n] = Machines!NoRow
  <2> SUFFICES ASSUME NEW n \in Name, row'[n].by = "absent" PROVE row'[n] = Machines!NoRow
    OBVIOUS
  <2>1. row[n] = Machines!NoRow
    BY <1>6, RowFacts
  <2>2. ~flagged(n)
    BY <1>3, <2>1, NoRowIs
  <2> QED
    BY <1>6, <2>1, <2>2
<1>9. \A n \in Name : row'[n].orphan => row'[n].uuid # "none"
  BY <1>3, <1>6, RowFacts
<1>10. outside # "creating" => \A n \in Name : row'[n].by = "absent" \/ (row'[n].by = "none" /\ row'[n].uuid # "none")
  BY <1>6, RowFacts
<1>11. outside # "renaming" => \A n \in Name : row'[n].uuid # "none" => Known(row'[n].uuid) /\ vm[row'[n].uuid].name = n
  BY <1>6, RowFacts
<1>12. outside = "renaming" => \A m, n \in Name : row'[m].uuid = row'[n].uuid /\ row'[m].uuid # "none" => m = n
  BY <1>6, RowFacts
<1>13. ASSUME outside = "calm", NEW n \in Name, row'[n].uuid # "none"
       PROVE  SeenBy(next, n, row'[n].uuid, row'[n].orphan, missed[row'[n].uuid])
  <2>1. row'[n].uuid = row[n].uuid /\ row'[n].orphan = (row[n].orphan \/ flagged(n))
    BY <1>6
  <2>2. SeenBy(sweep[s], n, row[n].uuid, row[n].orphan, missed[row[n].uuid])
    BY <1>2, <1>13, <2>1, SweepFacts
  <2> QED
    BY <1>1, <1>3, <1>4, <2>1, <2>2 DEF SeenBy
<1>14. \A n \in Name : row'[n].by \in Creator => row'[n].by = row[n].by
  BY <1>6
<1>15. \A c \in Creator : Alone(c) =>
         /\ row'[making[c].name].by = c
         /\ row'[making[c].name].uuid \in {row[making[c].name].uuid, c}
         /\ outside = "creating" /\ next.pc = "visit" /\ row'[making[c].name].orphan =>
              making[c].name \in next.seen \/ [vm |-> c, name |-> making[c].name] \in next.todo
  BY <1>4, <1>6, MadeFacts
<1>16. /\ next.pc \in {"idle", "visit", "cancel"} /\ sweep[s].pc # "idle"
       /\ sweep' = [sweep EXCEPT ![s] = next]
  BY <1>1, <1>4
<1>17. UNCHANGED <<outside, left, vm, disk, making, deleting, missed>>
  BY <1>1
<1> QED
  BY <1>4, <1>5, <1>16, <1>17, <1>7, <1>8, <1>9, <1>10, <1>11, <1>12, <1>13, <1>14, <1>15, SweepWrites

LEMMA UpsertKeeps == ASSUME RegistryInv, NEW s \in Machines!Sweeper, Machines!Upsert(s) PROVE RegistryInv'
<1> DEFINE next == [sweep[s] EXCEPT !.pc = "visit", !.at = Machines!None]
<1> PICK at : at = sweep[s].at
  OBVIOUS
<1>1. /\ sweep[s].pc = "write" /\ sweep' = [sweep EXCEPT ![s] = next]
      /\ Machines!Write(at.vm, at.name, at.row, at.by)
      /\ UNCHANGED <<outside, left, vm, disk, making, deleting, missed>>
  BY DEF Machines!Upsert, Machines!Goes
<1>2. /\ sweep[s] \in Sweeping /\ Sound(sweep[s]) /\ (outside # "renaming" => Named(sweep[s]))
      /\ (outside \in {"calm", "renaming", "creating"} => s \in Discover)
  BY <1>1, SweepFacts, SweepsAlone
<1>3. /\ at \in Sight /\ at.vm \in Vms /\ at.name \in Name /\ at.row \in Name \cup {"none"} /\ at.by \in Makers
      /\ at.name \in sweep[s].seen
  BY <1>1, <1>2 DEF Sound, Sight
<1>4. outside # "renaming" => Known(at.vm) /\ vm[at.vm].name = at.name /\ at.row \in {"none", at.name}
  BY <1>1, <1>2 DEF Named
<1>5. outside = "renaming" => \A n \in Name : row[n].uuid = at.vm => at.row = n
  BY <1>1, <1>2, SweepFacts DEF Fit
<1>6. outside = "creating" /\ at.by \in Creator => making[at.by].crossed \/ at.vm = at.by
  BY <1>1, <1>2, SweepFacts DEF MadeSeen
<1>7. outside = "calm" => \/ at.row = "none" /\ row[at.name].by = "absent"
                          \/ at.row = at.name /\ row[at.name].by = "none" /\ at.by = "none"
  BY <1>1, <1>2, SweepFacts DEF Ready
<1>8. next \in Sweeping /\ next.pc = "visit" /\ next.todo = sweep[s].todo /\ next.seen = sweep[s].seen
  BY <1>2, RegistryNames DEF Sweeping
<1> HIDE DEF next
<1>9. Sound(next) /\ Fit(next) /\ Ready(next)
  BY <1>8 DEF Sound, Fit, Ready
<1>10. outside # "renaming" => Named(next)
  BY <1>2, <1>8 DEF Named
<1>11. outside = "creating" => MadeSeen(next)
  <2>1. outside = "creating" => MadeSeen(sweep[s])
    BY <1>2, SweepFacts
  <2> QED
    BY <1>1, <1>8, <2>1 DEF MadeSeen
<1>12. CASE row' = row
  <2>1. UNCHANGED Tables /\ missed' \in [Vms -> 0..2]
    BY <1>1, <1>12, SweepFacts DEF Tables
  <2>2. ASSUME outside = "calm", NEW n \in Name, row[n].uuid # "none"
        PROVE  SeenBy(next, n, row[n].uuid, row[n].orphan, missed'[row[n].uuid])
    <3>1. SeenBy(sweep[s], n, row[n].uuid, row[n].orphan, missed[row[n].uuid])
      BY <1>2, <2>2, SweepFacts
    <3>2. CASE n = at.name /\ row[n].orphan
      <4>1. row'[n] = [row[n] EXCEPT !.uuid = at.vm, !.orphan = FALSE]
        <5>1. at.row = n /\ row[n].by = at.by /\ row[n].by # "absent"
          BY <1>7, <2>2, <3>2, RegistryFacts
        <5>2. at.row # Machines!None /\ Machines!Has(at.row) /\ row[at.row].by = at.by
          BY <2>2, <5>1, RegistryFacts, RegistryNames
        <5>3. row' = [row EXCEPT ![at.row].uuid = at.vm, ![at.row].orphan = FALSE]
          BY <1>1, <5>2 DEF Machines!Write
        <5> QED
          BY <2>2, <5>1, <5>3, RowFacts
      <4>2. ~row'[n].orphan
        <5>1. row[n] \in Row
          BY <2>2, RowFacts
        <5> QED
          BY <4>1, <5>1 DEF Row
      <4> QED
        BY <1>12, <3>2, <4>2
    <3>3. CASE ~(n = at.name /\ row[n].orphan)
      <4>1. missed'[row[n].uuid] = missed[row[n].uuid]
        BY <1>1
      <4> QED
        BY <1>1, <1>3, <1>8, <3>1, <3>3, <4>1 DEF SeenBy
    <3> QED
      BY <3>2, <3>3
  <2> QED
    BY <1>1, <1>8, <1>9, <1>10, <1>11, <2>1, <2>2, SweepMoves
<1>13. CASE row' # row
  <2>1. PICK k \in Name, r \in Row :
          /\ row' = [row EXCEPT ![k] = r] /\ r.uuid = at.vm /\ ~r.orphan
          /\ \/ at.row = k /\ r.by = row[k].by /\ r.by = at.by /\ r.by # "absent"
             \/ at.row = "none" /\ k = at.name /\ row[k].by = "absent" /\ r.by = "none"
    <3>1. CASE at.row # "none" /\ Machines!Has(at.row) /\ row[at.row].by = at.by
      <4>1. row' = [row EXCEPT ![at.row].uuid = at.vm, ![at.row].orphan = FALSE]
        BY <1>1, <3>1, RegistryNames DEF Machines!Write
      <4>2. PICK r : r = [row[at.row] EXCEPT !.uuid = at.vm, !.orphan = FALSE]
        OBVIOUS
      <4>3. at.row \in Name /\ row[at.row] \in Row /\ row[at.row].by # "absent"
        BY <1>3, <3>1, RowFacts, RegistryFacts
      <4>4. r \in Row /\ r.uuid = at.vm /\ ~r.orphan /\ r.by = row[at.row].by
        BY <1>3, <4>2, <4>3 DEF Row, Ids
      <4>5. row' = [row EXCEPT ![at.row] = r]
        BY <4>1, <4>2, <4>3, RowFacts
      <4> QED
        BY <3>1, <4>3, <4>4, <4>5
    <3>2. CASE at.row = "none" /\ ~Machines!Has(at.name)
      <4>1. PICK r : r = [uuid |-> at.vm, orphan |-> FALSE, by |-> "none", id |-> "none"]
        OBVIOUS
      <4>2. row' = [row EXCEPT ![at.name] = r]
        BY <1>1, <3>2, <4>1, RegistryNames DEF Machines!Write
      <4>3. r \in Row /\ r.uuid = at.vm /\ ~r.orphan /\ r.by = "none"
        BY <1>3, <4>1 DEF Row, Ids, Makers
      <4>4. row[at.name].by = "absent"
        BY <1>3, <3>2, RegistryFacts
      <4> QED
        BY <1>3, <3>2, <4>2, <4>3, <4>4
    <3> QED
      BY <1>1, <1>13, <3>1, <3>2, RegistryNames DEF Machines!Write
  <2>2. row' \in [Name -> Row] /\ row'[k] = r /\ \A n \in Name : n # k => row'[n] = row[n]
    BY <2>1, RowFacts
  <2>3. outside # "renaming" => k = at.name
    BY <1>4, <2>1, RegistryNames
  <2>4. r.by # "absent" /\ r.uuid # "none"
    BY <1>3, <2>1, RegistryNames
  <2>5. \A n \in Name : row'[n].by = "absent" => row'[n] = Machines!NoRow
    BY <2>2, <2>4, RowFacts
  <2>6. \A n \in Name : row'[n].orphan => row'[n].uuid # "none"
    BY <2>2, <2>4, RowFacts
  <2>7. outside # "creating" => \A n \in Name : row'[n].by = "absent" \/ (row'[n].by = "none" /\ row'[n].uuid # "none")
    BY <2>1, <2>2, <2>4, RowFacts
  <2>8. outside # "renaming" => \A n \in Name : row'[n].uuid # "none" => Known(row'[n].uuid) /\ vm[row'[n].uuid].name = n
    BY <1>4, <2>1, <2>2, <2>3, RowFacts
  <2>9. outside = "renaming" => \A m, n \in Name : row'[m].uuid = row'[n].uuid /\ row'[m].uuid # "none" => m = n
    <3>1. outside = "renaming" => \A n \in Name : n # k => row[n].uuid # at.vm
      BY <1>5, <2>1, RegistryNames
    <3> QED
      BY <2>1, <2>2, <3>1, RowFacts
  <2>10. ASSUME outside = "calm", NEW n \in Name, row'[n].uuid # "none"
         PROVE  SeenBy(next, n, row'[n].uuid, row'[n].orphan, missed[row'[n].uuid])
    <3>1. CASE n = k
      BY <1>3, <1>8, <2>1, <2>2, <2>3, <2>10, <3>1 DEF SeenBy
    <3>2. CASE n # k
      <4>1. row'[n] = row[n]
        BY <2>2, <3>2
      <4>2. SeenBy(sweep[s], n, row[n].uuid, row[n].orphan, missed[row[n].uuid])
        BY <1>2, <2>10, <4>1, SweepFacts
      <4>3. n # at.name
        BY <2>3, <2>10, <3>2
      <4> QED
        BY <1>1, <1>8, <4>1, <4>2, <4>3 DEF SeenBy
    <3> QED
      BY <3>1, <3>2
  <2>11. \A n \in Name : row'[n].by \in Creator => row'[n].by = row[n].by
    BY <2>1, <2>2, RegistryNames
  <2>12. ASSUME NEW c \in Creator, Alone(c)
         PROVE  /\ row'[making[c].name].by = c
                /\ row'[making[c].name].uuid \in {row[making[c].name].uuid, c}
                /\ outside = "creating" /\ next.pc = "visit" /\ row'[making[c].name].orphan =>
                     making[c].name \in next.seen \/ [vm |-> c, name |-> making[c].name] \in next.todo
    <3>1. outside = "creating"
      BY <2>12, MadeFacts
    <3>2. making[c].name \in Name /\ row[making[c].name].by = c
      BY <2>12, MadeFacts
    <3>3. CASE making[c].name = k
      <4>1. r.by = c /\ at.by = c
        BY <2>1, <3>2, <3>3, RegistryNames
      <4>2. r.uuid = c
        BY <1>6, <2>1, <2>12, <3>1, <4>1 DEF Alone
      <4> QED
        BY <2>1, <2>2, <3>3, <4>1, <4>2
    <3>4. CASE making[c].name # k
      <4>1. row'[making[c].name] = row[making[c].name]
        BY <2>2, <3>2, <3>4
      <4>2. MadeSeen(next)
        BY <1>11, <3>1
      <4> QED
        BY <2>12, <3>2, <4>1, <4>2 DEF MadeSeen
    <3> QED
      BY <3>3, <3>4
  <2> QED
    BY <1>1, <1>8, <1>9, <1>10, <2>2, <2>5, <2>6, <2>7, <2>8, <2>9, <2>10, <2>11, <2>12, SweepWrites
<1> QED
  BY <1>12, <1>13

LEMMA ProbeKeeps == ASSUME RegistryInv, NEW n \in Name, Machines!Probe(n) PROVE RegistryInv'
<1>1. /\ outside = "faulty" /\ row[n].uuid # "none" /\ row' = [row EXCEPT ![n].orphan = TRUE]
      /\ UNCHANGED <<outside, left, vm, disk, making, deleting, sweep, missed>>
  BY RegistryNames DEF Machines!Probe
<1>2. /\ row' \in [Name -> Row]
      /\ \A m \in Name : /\ row'[m].uuid = row[m].uuid /\ row'[m].by = row[m].by
                         /\ m # n => row'[m] = row[m]
  <2>1. row \in [Name -> Row]
    BY RowFacts
  <2> PICK r : r = [row[n] EXCEPT !.orphan = TRUE]
    OBVIOUS
  <2>2. r \in Row /\ r.uuid = row[n].uuid /\ r.by = row[n].by
    BY <2>1 DEF Row
  <2>3. row' = [row EXCEPT ![n] = r]
    BY <1>1, <2>1
  <2> QED
    BY <2>1, <2>2, <2>3
<1>3. row[n].by # "absent"
  BY <1>1, RegistryFacts
<1>4. RegistryShape' /\ SweepInv'
  BY <1>1, <1>2 DEF RegistryInv, RegistryShape, Row, SweepInv, Sound
<1>5. RowsInv'
  <2>1. \A m \in Name : row'[m].by = "absent" => row'[m] = Machines!NoRow
    BY <1>2, <1>3, RowFacts
  <2>2. \A m \in Name : row'[m].orphan => row'[m].uuid # "none"
    BY <1>1, <1>2, RowFacts
  <2> QED
    BY <2>1, <2>2 DEF RowsInv, Machines!NoRow, Machines!None
<1>6. VmInv' /\ NameInv' /\ RenameInv' /\ CalmInv' /\ MadeSeenInv'
  BY <1>1, <1>2 DEF RegistryInv, VmInv, NameInv, RenameInv, CalmInv, MadeSeenInv, Alone, Named, Known
<1>7. UniqueInv' /\ PartsInv' /\ MadeInv' /\ DeleteInv'
  <2>1. \A c \in Creator : making[c].pc = "idle"
    BY <1>1 DEF RegistryInv, VmInv
  <2>2. \A m \in Name : row'[m].by \notin Creator /\ deleting[m] = Machines!Still
    BY <1>1, <1>2, RegistryNames DEF RegistryInv, VmInv
  <2> QED
    BY <1>1, <2>1, <2>2 DEF UniqueInv, PartsInv, PartsOf, MadeInv, MadeAt, DeleteInv, Living, Machines!Still
<1> QED
  BY <1>1, <1>4, <1>5, <1>6, <1>7 DEF RegistryInv

----------------------------------------------------------------------------
(* The registry: creates and deletes                                       *)

Create == [pc : CreateStage, name : Name \cup {"none"}, crossed : BOOLEAN]
Removal == [pc : {"no", "vm", "row", "tasks"}, uuid : Ids, by : Makers]

\* What a step of a create or a delete has to leave true
LEMMA CreatingMoves ==
  ASSUME RegistryInv, outside = "creating", UNCHANGED <<outside, left, missed>>,
         sweep' \in [Machines!Sweeper -> Sweeping],
         \A s \in Machines!Sweeper : /\ sweep'[s].pc = sweep[s].pc /\ sweep'[s].todo = sweep[s].todo
                                     /\ sweep'[s].seen = sweep[s].seen /\ sweep'[s].at = sweep[s].at,
         vm' \in [Vms -> [name : Name, here : BOOLEAN]], row' \in [Name -> Row],
         disk' \in [Name -> Creator \cup {"none"}], making' \in [Creator -> Create],
         deleting' \in [Name -> Removal],
         RowsInv', UniqueInv', PartsInv', MadeInv', DeleteInv',
         \A f \in Foreign : ~vm'[f].here,
         \A v, w \in Vms : vm'[v].here /\ vm'[w].here /\ vm'[v].name = vm'[w].name => v = w,
         \A c \in Creator : /\ making'[c].pc = "idle" => ~vm'[c].here /\ ~making'[c].crossed
                            /\ making'[c].pc # "idle" => making'[c].name = vm'[c].name
                            /\ making[c].crossed => making'[c].crossed,
         \A v \in Vms : Known(v) => vm'[v].name = vm[v].name,
         \A c \in Creator : making[c].pc # "idle" => making'[c].pc # "idle",
         \A n \in Name : row'[n].uuid # "none" => \/ row'[n].uuid = row[n].uuid
                                                  \/ Known(row'[n].uuid) /\ vm[row'[n].uuid].name = n,
         \A n \in Name : deleting'[n].uuid # "none" => deleting'[n].uuid \in {deleting[n].uuid, row[n].uuid},
         \A c \in Creator : Alone(c)' /\ row'[making'[c].name].orphan =>
           Alone(c) /\ making'[c].name = making[c].name /\ row[making[c].name].orphan
  PROVE  RegistryInv'
<1>1. RegistryShape'
  BY DEF RegistryInv, RegistryShape, Row, Create, Removal
<1>2. SweepInv' /\ RenameInv' /\ CalmInv'
  BY DEF RegistryInv, SweepInv, Sound, RenameInv, CalmInv
<1>3. VmInv'
  BY DEF RegistryInv, VmInv
<1>4. \A v : Known(v) => Known(v)' /\ vm'[v].name = vm[v].name
  BY DEF Known
<1>5. NameInv'
  <2>1. \A n \in Name : /\ row[n].uuid # "none" => Known(row[n].uuid) /\ vm[row[n].uuid].name = n
                        /\ deleting[n].uuid # "none" => Known(deleting[n].uuid) /\ vm[deleting[n].uuid].name = n
    BY DEF RegistryInv, NameInv
  <2>2. \A n \in Name : row'[n].uuid # "none" => Known(row'[n].uuid) /\ vm[row'[n].uuid].name = n
    BY <2>1
  <2>3. \A n \in Name : deleting'[n].uuid # "none" => Known(deleting'[n].uuid) /\ vm[deleting'[n].uuid].name = n
    BY <2>1
  <2>4. \A n \in Name : row'[n].uuid # "none" => Known(row[n].uuid)' /\ vm'[row'[n].uuid].name = n
    BY <2>2 DEF Known
  <2>5. \A n \in Name : deleting'[n].uuid # "none" => Known(deleting[n].uuid)' /\ vm'[deleting'[n].uuid].name = n
    BY <2>3 DEF Known
  <2>6. \A s \in Machines!Sweeper : Named(sweep[s])
    BY DEF RegistryInv, NameInv
  <2>8. \A v : Known(v) => Known(v)' /\ vm'[v].name = vm[v].name
    BY <1>4
  <2>7. \A s \in Machines!Sweeper : Named(sweep[s])'
    BY <2>6, <2>8 DEF Named
  <2> QED
    BY <2>4, <2>5, <2>7 DEF NameInv
<1>6. MadeSeenInv'
  <2>1. \A s \in Discover : s \in Machines!Sweeper /\ MadeSeen(sweep[s])
    BY RegistryNames DEF RegistryInv, MadeSeenInv
  <2> QED
    BY <2>1 DEF MadeSeenInv, MadeSeen
<1> QED
  BY <1>1, <1>2, <1>3, <1>5, <1>6 DEF RegistryInv

\* What the steps of the creates and deletes start from
LEMMA CreateFacts ==
  ASSUME RegistryInv, outside = "creating"
  PROVE  /\ vm \in [Vms -> [name : Name, here : BOOLEAN]] /\ row \in [Name -> Row]
         /\ disk \in [Name -> Creator \cup {"none"}] /\ making \in [Creator -> Create]
         /\ deleting \in [Name -> Removal] /\ sweep \in [Machines!Sweeper -> Sweeping]
         /\ \A f \in Foreign : ~vm[f].here
         /\ \A v, w \in Vms : vm[v].here /\ vm[w].here /\ vm[v].name = vm[w].name => v = w
         /\ \A c \in Creator : /\ making[c].pc = "idle" => ~vm[c].here /\ ~making[c].crossed
                               /\ making[c].pc # "idle" => making[c].name = vm[c].name
         /\ RowsInv /\ UniqueInv /\ PartsInv /\ MadeInv /\ DeleteInv
<1>1. RegistryShape
  BY DEF RegistryInv
<1>2. VmInv
  BY DEF RegistryInv
<1> QED
  BY <1>1, <1>2 DEF RegistryInv, RegistryShape, VmInv, Row, Create, Removal

LEMMA StillIs ==
  Machines!Still = [pc |-> "no", uuid |-> "none", by |-> "none"] /\ Machines!Still \in Removal
BY RegistryNames DEF Machines!Still, Removal, Ids, Makers

LEMMA CreateActs ==
  ASSUME RegistryInv, NEW c \in Creator, making[c].pc # "idle"
  PROVE  outside = "creating" /\ making[c].name \in Name /\ making[c].pc \in CreateStage /\ c \in Vms
         /\ vm[c].name = making[c].name
BY RegistryFacts DEF RegistryInv, VmInv, Vms

LEMMA NotRunning ==
  ASSUME RegistryInv, NEW n \in Name, ~Machines!Runs(n)
  PROVE  /\ deleting[n] = Machines!Still /\ deleting[n].pc = "no"
         /\ \A c \in Creator : making[c].name = n => making[c].pc \notin {"storing", "naming", "configuring", "landing"}
BY StillIs DEF Machines!Runs

\* A create that is under way, or the maker of a row, and a create no other crosses
LEMMA UncrossedAlone ==
  ASSUME RegistryInv, NEW c \in Creator, making[c].pc \in Living \ {"done"}
  PROVE  /\ \A d \in Creator : d # c /\ making[d].pc \in Living /\ ~making[d].crossed => making[d].name # making[c].name
         /\ \A n \in Name : row[n].by \in Creator /\ row[n].by # c /\ making[c].name = n => making[row[n].by].crossed
<1>1. UniqueInv /\ MadeInv
  BY DEF RegistryInv
<1>2. ASSUME NEW d \in Creator, d # c, making[d].pc \in Living, ~making[d].crossed, making[d].name = making[c].name
      PROVE  FALSE
  BY <1>1, <1>2 DEF UniqueInv
<1>3. ASSUME NEW n \in Name, row[n].by \in Creator, row[n].by # c, making[c].name = n
      PROVE  making[row[n].by].crossed
  <2> PICK b \in Creator : b = row[n].by
    BY <1>3
  <2>1. MadeAt(n, b)
    BY <1>1 DEF MadeInv
  <2> QED
    BY <1>3, <2>1 DEF MadeAt
<1> QED
  BY <1>2, <1>3

\* Creates go on or end, none begins
LEMMA StagesOn ==
  ASSUME RegistryInv,
         \A d \in Creator : /\ making'[d].name = making[d].name /\ making'[d].crossed = making[d].crossed
                            /\ making'[d].pc \in Living => making[d].pc \in Living /\ (making[d].pc = "done" => making'[d].pc = "done")
  PROVE  UniqueInv'
<1>1. UniqueInv
  BY DEF RegistryInv
<1> QED
  BY <1>1 DEF UniqueInv

LEMMA MakersOn ==
  ASSUME \A d \in Creator : /\ making'[d].name = making[d].name /\ making'[d].crossed = making[d].crossed
                            /\ making'[d].pc \in Living => making[d].pc \in Living /\ (making[d].pc = "done" => making'[d].pc = "done"),
         \A v \in Vms : vm'[v].name = vm[v].name /\ (vm'[v].here => vm[v].here),
         NEW n, NEW b \in Creator, MadeAt(n, b),
         making[b].pc \in {"landing", "done", "removed"} => making'[b].pc \in {"landing", "done", "removed"}
  PROVE  MadeAt(n, b)'
BY DEF MadeAt

\* A create goes on to its next task, or ends without a machine
LEMMA PcMoves ==
  ASSUME RegistryInv, NEW c \in Creator, NEW p \in CreateStage \ {"idle", "queued", "landing", "done", "removed"},
         making[c].pc \notin {"idle", "done", "removed"}, making[c].pc = "landing" => row[making[c].name].by = "absent",
         making' = [making EXCEPT ![c].pc = p], UNCHANGED <<outside, left, vm, row, deleting, sweep, missed>>,
         disk' \in [Name -> Creator \cup {"none"}],
         \A n \in Name : n # making[c].name => disk'[n] = disk[n],
         disk' # disk => making[c].pc \in Living,
         p \in Living => making[c].pc \in Living,
         p \in Living /\ ~making[c].crossed => deleting[making[c].name].pc = "no" /\ disk'[making[c].name] = c,
         p \in {"configuring", "configured"} /\ ~making[c].crossed => vm[c].here
  PROVE  RegistryInv'
<1>1. outside = "creating" /\ making[c].name \in Name
  BY CreateActs
<1>2. /\ making' \in [Creator -> Create] /\ making'[c].pc = p /\ making'[c].name = making[c].name
      /\ \A d \in Creator : d # c => making'[d] = making[d]
      /\ \A d \in Creator : making'[d].name = making[d].name /\ making'[d].crossed = making[d].crossed
  BY <1>1, CreateFacts DEF Create
<1>3. \A d \in Creator : making'[d].pc \in Living => making[d].pc \in Living /\ (making[d].pc = "done" => making'[d].pc = "done")
  BY <1>2
<1>4. RowsInv' /\ UniqueInv'
  <2>1. UniqueInv'
    BY <1>2, <1>3, StagesOn
  <2> QED
    BY <1>1, <2>1, CreateFacts DEF RowsInv
<1>5. PartsInv'
  <2>1. PartsInv
    BY <1>1, CreateFacts
  <2> SUFFICES ASSUME NEW d \in Creator, ~making[d].crossed PROVE PartsOf(d)'
    BY <1>2 DEF PartsInv
  <2>2. CASE d = c
    BY <1>2, <2>2 DEF Living, PartsOf
  <2>3. CASE d # c
    <3>1. making'[d] = making[d]
      BY <1>2, <2>3
    <3>2. making[d].pc \in Living \ {"queued"} => disk'[making[d].name] = disk[making[d].name]
      <4>1. making[d].pc \in Living => making[d].name \in Name
        BY CreateActs DEF Living
      <4>2. making[d].pc \in Living /\ making[c].pc \in Living => making[d].name # making[c].name
        BY <2>3, UncrossedAlone
      <4> QED
        BY <4>1, <4>2
    <3>3. PartsOf(d)
      BY <2>1 DEF PartsInv
    <3> QED
      BY <3>1, <3>2, <3>3 DEF PartsOf
  <2> QED
    BY <2>2, <2>3
<1>6. MadeInv'
  <2>1. MadeInv
    BY <1>1, CreateFacts
  <2>2. ASSUME NEW n \in Name, NEW b \in Creator, row[n].by = b PROVE MadeAt(n, b)'
    <3>1. MadeAt(n, b)
      BY <2>1, <2>2 DEF MadeInv
    <3>2. b # c
      BY <1>1, <2>2, <3>1, RegistryNames DEF MadeAt
    <3> QED
      BY <1>2, <1>3, <2>2, <3>1, <3>2, MakersOn
  <2> QED
    BY <2>2 DEF MadeInv
<1>7. DeleteInv'
  <2>1. DeleteInv
    BY <1>1, CreateFacts
  <2> QED
    BY <1>2, <2>1 DEF DeleteInv
<1>8. \A d \in Creator : making'[d].pc = "idle" <=> making[d].pc = "idle"
  BY <1>2
<1>9. \A d \in Creator : Alone(d)' => Alone(d)
  BY <1>2 DEF Alone
<1> QED
  BY <1>1, <1>2, <1>4, <1>5, <1>6, <1>7, <1>8, <1>9, CreateFacts, CreatingMoves

LEMMA StoreKeeps == ASSUME RegistryInv, NEW c \in Creator, Machines!Store(c) PROVE RegistryInv'
<1>1. /\ making[c].pc = "queued" /\ ~Machines!Runs(making[c].name) /\ making' = [making EXCEPT ![c].pc = "storing"]
      /\ disk' = [disk EXCEPT ![making[c].name] = c]
      /\ UNCHANGED <<outside, left, vm, row, deleting, sweep, missed>>
  BY DEF Machines!Store, Machines!To, Machines!Under
<1>2. outside = "creating" /\ making[c].name \in Name
  BY <1>1, CreateActs
<1>3. deleting[making[c].name].pc = "no"
  BY <1>1, <1>2, NotRunning
<1>4. disk \in [Name -> Creator \cup {"none"}]
  BY <1>2, CreateFacts
<1> QED
  BY <1>1, <1>2, <1>3, <1>4, PcMoves DEF Living, CreateStage

LEMMA StoredKeeps == ASSUME RegistryInv, NEW c \in Creator, Machines!Stored(c) PROVE RegistryInv'
<1>1. /\ making[c].pc = "storing" /\ making' = [making EXCEPT ![c].pc = "stored"]
      /\ UNCHANGED <<outside, left, vm, row, disk, deleting, sweep, missed>>
  BY DEF Machines!Stored, Machines!To
<1>2. outside = "creating"
  BY <1>1, CreateActs
<1>3. ~making[c].crossed => deleting[making[c].name].pc = "no" /\ disk[making[c].name] = c
  BY <1>1 DEF RegistryInv, PartsInv, PartsOf, Living
<1>4. disk \in [Name -> Creator \cup {"none"}]
  BY <1>2, CreateFacts
<1> QED
  BY <1>1, <1>3, <1>4, PcMoves DEF Living, CreateStage

LEMMA StoreEndsKeeps == ASSUME RegistryInv, NEW c \in Creator, Machines!StoreEnds(c) PROVE RegistryInv'
<1>1. /\ making[c].pc = "storing" /\ making' = [making EXCEPT ![c].pc = "failed"]
      /\ disk' = [disk EXCEPT ![making[c].name] = "none"]
      /\ UNCHANGED <<outside, left, vm, row, deleting, sweep, missed>>
  BY RegistryNames DEF Machines!StoreEnds, Machines!To, Machines!Under
<1>2. outside = "creating"
  BY <1>1, CreateActs
<1>3. disk \in [Name -> Creator \cup {"none"}]
  BY <1>2, CreateFacts
<1> QED
  BY <1>1, <1>3, PcMoves DEF Living, CreateStage

LEMMA ConfigureKeeps == ASSUME RegistryInv, NEW c \in Creator, Machines!Configure(c) PROVE RegistryInv'
<1>1. /\ making[c].pc = "stored" /\ ~Machines!Runs(making[c].name) /\ making' = [making EXCEPT ![c].pc = "naming"]
      /\ UNCHANGED <<outside, left, vm, row, disk, deleting, sweep, missed>>
  BY DEF Machines!Configure, Machines!To, Machines!Under
<1>2. outside = "creating" /\ making[c].name \in Name
  BY <1>1, CreateActs
<1>3. ~making[c].crossed => deleting[making[c].name].pc = "no" /\ disk[making[c].name] = c
  BY <1>1, <1>2, NotRunning DEF RegistryInv, PartsInv, PartsOf, Living
<1>4. disk \in [Name -> Creator \cup {"none"}]
  BY <1>2, CreateFacts
<1> QED
  BY <1>1, <1>3, <1>4, PcMoves DEF Living, CreateStage

LEMMA ConfiguredKeeps == ASSUME RegistryInv, NEW c \in Creator, Machines!Configured(c) PROVE RegistryInv'
<1>1. /\ making[c].pc = "configuring" /\ making' = [making EXCEPT ![c].pc = "configured"]
      /\ UNCHANGED <<outside, left, vm, row, disk, deleting, sweep, missed>>
  BY DEF Machines!Configured, Machines!To
<1>2. outside = "creating"
  BY <1>1, CreateActs
<1>3. ~making[c].crossed => deleting[making[c].name].pc = "no" /\ disk[making[c].name] = c /\ vm[c].here
  BY <1>1 DEF RegistryInv, PartsInv, PartsOf, Living
<1>4. disk \in [Name -> Creator \cup {"none"}]
  BY <1>2, CreateFacts
<1> QED
  BY <1>1, <1>3, <1>4, PcMoves DEF Living, CreateStage

LEMMA CreateStops ==
  ASSUME RegistryInv, NEW c \in Creator, NEW p \in {"failed", "cancelled"},
         making[c].pc \notin {"idle", "done", "removed"}, making[c].pc = "landing" => row[making[c].name].by = "absent",
         making' = [making EXCEPT ![c].pc = p], UNCHANGED <<outside, left, vm, row, disk, deleting, sweep, missed>>
  PROVE  RegistryInv'
<1>1. outside = "creating"
  BY CreateActs
<1>2. disk \in [Name -> Creator \cup {"none"}]
  BY <1>1, CreateFacts
<1> QED
  BY <1>2, PcMoves DEF Living, CreateStage

LEMMA CancelChainKeeps == ASSUME RegistryInv, NEW c \in Creator, Machines!CancelChain(c) PROVE RegistryInv'
BY CreateStops DEF Machines!CancelChain, Machines!To

LEMMA PostKeeps ==
  ASSUME RegistryInv, NEW c \in Creator, NEW n \in Name, Machines!Post(c, n) PROVE RegistryInv'
<1> PICK rivals : rivals = Machines!Rivals(n)
  OBVIOUS
<1>1. /\ outside = "creating" /\ making[c].pc = "idle" /\ ~Machines!Has(n)
      /\ making' = [d \in Creator |->
                      IF d = c THEN [pc |-> "queued", name |-> n, crossed |-> rivals # {}]
                      ELSE IF d \in rivals THEN [making[d] EXCEPT !.crossed = TRUE] ELSE making[d]]
      /\ vm' = [vm EXCEPT ![c].name = n]
      /\ UNCHANGED <<outside, left, row, disk, deleting, sweep, missed>>
  BY DEF Machines!Post, Machines!Free
<1>2. \A d \in Creator : d \in rivals <=> making[d].name = n /\ making[d].pc \notin {"idle", "done", "failed", "cancelled", "removed"}
  BY DEF Machines!Rivals, Machines!Ended
<1>3. c \in Vms /\ row[n].by = "absent" /\ ~making[c].crossed
  BY <1>1, RegistryFacts, CreateFacts DEF Vms
<1>4. /\ vm' \in [Vms -> [name : Name, here : BOOLEAN]]
      /\ vm'[c].name = n /\ \A v \in Vms : vm'[v].here = vm[v].here /\ (v # c => vm'[v] = vm[v])
  BY <1>1, <1>3, CreateFacts
<1>5. /\ making' \in [Creator -> Create] /\ making'[c].pc = "queued" /\ making'[c].name = n
      /\ making'[c].crossed \/ rivals = {}
      /\ \A d \in Creator : d # c => /\ making'[d].pc = making[d].pc /\ making'[d].name = making[d].name
                                    /\ making'[d].crossed = (making[d].crossed \/ d \in rivals)
  <2> PICK r : r = [pc |-> "queued", name |-> n, crossed |-> rivals # {}]
    OBVIOUS
  <2>1. r \in Create /\ r.pc = "queued" /\ r.name = n /\ (r.crossed \/ rivals = {})
    BY DEF Create, CreateStage
  <2>2. making'[c] = r
    BY <1>1
  <2>3. ASSUME NEW d \in Creator, d # c
        PROVE  /\ making'[d] \in Create /\ making'[d].pc = making[d].pc /\ making'[d].name = making[d].name
               /\ making'[d].crossed = (making[d].crossed \/ d \in rivals)
    <3>1. making[d] \in Create
      BY <1>1, CreateFacts
    <3>2. making'[d] = IF d \in rivals THEN [making[d] EXCEPT !.crossed = TRUE] ELSE making[d]
      BY <1>1, <2>3
    <3>3. CASE d \in rivals
      <4> PICK e : e = [making[d] EXCEPT !.crossed = TRUE]
        OBVIOUS
      <4>1. e \in Create /\ e.pc = making[d].pc /\ e.name = making[d].name /\ e.crossed = TRUE
        BY <3>1 DEF Create
      <4> QED
        BY <3>2, <3>3, <4>1
    <3>4. CASE d \notin rivals
      <4>1. making'[d] = making[d] /\ making[d].crossed \in BOOLEAN
        BY <3>1, <3>2, <3>4 DEF Create
      <4> QED
        BY <3>1, <3>4, <4>1
    <3> QED
      BY <3>3, <3>4
  <2>4. \A d \in Creator : making'[d] \in Create
    BY <2>1, <2>2, <2>3
  <2>5. making' \in [Creator -> Create]
    BY <1>1, <2>4
  <2> QED
    BY <2>1, <2>2, <2>3, <2>5
<1>6. ~vm[c].here /\ \A f \in Foreign : f # c
  BY <1>1, CreateFacts, RegistryNames
<1>7. RowsInv' /\ DeleteInv'
  <2>1. DeleteInv
    BY <1>1, CreateFacts
  <2>2. DeleteInv'
    BY <1>1, <1>5, <2>1 DEF DeleteInv
  <2> QED
    BY <1>1, <2>2, CreateFacts DEF RowsInv
<1>8. UniqueInv'
  <2>1. ASSUME NEW d \in Creator, making[d].pc \in Living, making[d].name = n, d \notin rivals
        PROVE  making[d].pc = "done" /\ making[d].crossed
    <3>1. making[d].pc = "done"
      BY <1>2, <2>1 DEF Living
    <3>2. ~making[d].crossed => row[n].by = d
      BY <2>1, <3>1, MadeFacts DEF Alone
    <3> QED
      BY <1>3, <3>1, <3>2, RegistryNames
  <2> SUFFICES ASSUME NEW d \in Creator, NEW e \in Creator, making'[d].pc \in Living, making'[e].pc \in Living,
                      making'[d].name = making'[e].name, d # e, ~making'[d].crossed
               PROVE  making'[e].crossed /\ making'[e].pc = "done"
    BY DEF UniqueInv
  <2>2. CASE d = c
    BY <1>5, <2>1, <2>2
  <2>3. CASE e = c
    BY <1>5, <2>1, <2>3
  <2>4. CASE d # c /\ e # c
    <3>1. UniqueInv
      BY <1>1, CreateFacts
    <3> QED
      BY <1>5, <2>4, <3>1 DEF UniqueInv
  <2> QED
    BY <2>2, <2>3, <2>4
<1>9. PartsInv'
  <2> SUFFICES ASSUME NEW d \in Creator, ~making'[d].crossed PROVE PartsOf(d)'
    BY DEF PartsInv
  <2>1. CASE d = c
    BY <1>5, <2>1 DEF PartsOf, Living
  <2>2. CASE d # c
    <3>1. PartsOf(d)
      BY <1>1, <1>5, <2>2, CreateFacts DEF PartsInv
    <3>2. making'[d].pc = making[d].pc /\ making'[d].name = making[d].name /\ vm'[d] = vm[d]
      BY <1>4, <1>5, <2>2 DEF Vms
    <3> QED
      BY <1>1, <3>1, <3>2 DEF PartsOf
  <2> QED
    BY <2>1, <2>2
<1>10. MadeInv'
  <2> SUFFICES ASSUME NEW m \in Name, NEW b \in Creator, row[m].by = b PROVE MadeAt(m, b)'
    BY <1>1 DEF MadeInv
  <2>1. MadeAt(m, b)
    BY <1>1, CreateFacts DEF MadeInv
  <2>2. b # c /\ m # n
    BY <1>1, <1>3, <2>1, RegistryNames DEF MadeAt
  <2>3. MadeAt(m, b)'
    <3>1. /\ making'[b].name = m /\ making'[b].pc \in {"landing", "done", "removed"}
          /\ making'[b].crossed = making[b].crossed
      <4>1. making[b].name = m
        BY <2>1 DEF MadeAt
      <4>2. making \in [Creator -> Create]
        BY <1>1, CreateFacts
      <4>3. b \notin rivals /\ making[b].crossed \in BOOLEAN
        BY <1>2, <2>2, <4>1, <4>2 DEF Create
      <4> QED
        BY <1>5, <2>1, <2>2, <4>3 DEF MadeAt
    <3>2. ASSUME NEW d \in Creator, making'[d].name = m, making'[d].pc \in Living, d # b
          PROVE  making'[d].crossed /\ (making'[b].crossed \/ making'[d].pc = "done")
      <4>1. d # c
        BY <1>5, <2>2, <3>2
      <4>2. making[d].crossed /\ (making[b].crossed \/ making[d].pc = "done")
        BY <1>5, <2>1, <3>2, <4>1 DEF MadeAt
      <4> QED
        BY <1>5, <3>1, <4>1, <4>2
    <3>3. ASSUME ~making'[b].crossed, NEW v \in Vms, vm'[v].name = m, vm'[v].here PROVE v = b
      BY <1>4, <1>6, <2>1, <3>1, <3>3 DEF MadeAt
    <3> QED
      BY <3>1, <3>2, <3>3 DEF MadeAt
  <2> QED
    BY <2>3
<1>11. \A f \in Foreign : ~vm'[f].here
  BY <1>1, <1>4, CreateFacts DEF Vms
<1>12. \A v, w \in Vms : vm'[v].here /\ vm'[w].here /\ vm'[v].name = vm'[w].name => v = w
  BY <1>1, <1>4, <1>6, CreateFacts
<1>13. \A d \in Creator : /\ making'[d].pc = "idle" => ~vm'[d].here /\ ~making'[d].crossed
                          /\ making'[d].pc # "idle" => making'[d].name = vm'[d].name
                          /\ making[d].crossed => making'[d].crossed
  <2>1. \A d \in Creator : d \in rivals => making[d].pc # "idle"
    BY <1>2
  <2> QED
    BY <1>1, <1>3, <1>4, <1>5, <2>1, CreateFacts DEF Vms
<1>14. \A v \in Vms : Known(v) => vm'[v].name = vm[v].name
  BY <1>1, <1>4 DEF Known
<1>15. \A d \in Creator : /\ making[d].pc # "idle" => making'[d].pc # "idle"
                          /\ Alone(d)' => Alone(d) /\ making'[d].name = making[d].name
  BY <1>5 DEF Alone
<1> QED
  BY <1>1, <1>4, <1>5, <1>7, <1>8, <1>9, <1>10, <1>11, <1>12, <1>13, <1>14, <1>15, CreateFacts, CreatingMoves

\* A step of a create that leaves its name and its neighbours' alone
LEMMA OneMakes ==
  ASSUME RegistryInv, NEW c \in Creator, making[c].pc # "idle", NEW p \in CreateStage \ {"idle"},
         making' = [making EXCEPT ![c].pc = p]
  PROVE  /\ making' \in [Creator -> Create] /\ making'[c].pc = p
         /\ \A d \in Creator : making'[d].name = making[d].name /\ making'[d].crossed = making[d].crossed
         /\ \A d \in Creator : d # c => making'[d] = making[d]
BY CreateActs, CreateFacts DEF Create

LEMMA CreateVMKeeps == ASSUME RegistryInv, NEW c \in Creator, Machines!CreateVM(c) PROVE RegistryInv'
<1>1. CASE Machines!Registered(making[c].name) # {}
  <2>1. /\ making[c].pc = "naming" /\ making' = [making EXCEPT ![c].pc = "failed"]
        /\ UNCHANGED <<outside, left, vm, row, disk, deleting, sweep, missed>>
    BY <1>1 DEF Machines!CreateVM, Machines!To, Machines!Under
  <2> QED
    BY <2>1, CreateStops
<1>2. CASE Machines!Registered(making[c].name) = {}
  <2>1. /\ making[c].pc = "naming" /\ making' = [making EXCEPT ![c].pc = "configuring"]
        /\ vm' = [vm EXCEPT ![c].here = TRUE]
        /\ UNCHANGED <<outside, left, row, disk, deleting, sweep, missed>>
    BY <1>2 DEF Machines!CreateVM, Machines!To, Machines!Under
  <2>2. outside = "creating" /\ c \in Vms /\ vm[c].name = making[c].name
    BY <2>1, CreateActs
  <2>3. /\ vm' \in [Vms -> [name : Name, here : BOOLEAN]] /\ vm'[c].here
        /\ \A v \in Vms : vm'[v].name = vm[v].name /\ (v # c => vm'[v] = vm[v])
    BY <2>1, <2>2, CreateFacts
  <2>4. /\ making' \in [Creator -> Create] /\ making'[c].pc = "configuring"
        /\ \A d \in Creator : making'[d].name = making[d].name /\ making'[d].crossed = making[d].crossed
        /\ \A d \in Creator : d # c => making'[d] = making[d]
    BY <2>1, OneMakes DEF CreateStage
  <2>5. \A v \in Vms : ~(vm[v].here /\ vm[v].name = making[c].name)
    BY <1>2, VmFacts
  <2>6. RowsInv' /\ UniqueInv' /\ DeleteInv'
    <3>1. UniqueInv'
      BY <2>1, <2>4, StagesOn DEF Living
    <3> QED
      BY <2>1, <2>2, <2>4, <3>1, CreateFacts DEF RowsInv, DeleteInv, Living
  <2>7. PartsInv'
    <3> SUFFICES ASSUME NEW d \in Creator, ~making[d].crossed PROVE PartsOf(d)'
      BY <2>4 DEF PartsInv
    <3>1. PartsOf(d) /\ d \in Vms
      BY <2>2, CreateFacts DEF PartsInv, Vms
    <3>2. CASE d = c
      BY <2>1, <2>3, <2>4, <3>1, <3>2 DEF PartsOf, Living
    <3>3. CASE d # c
      <4>1. vm'[d] = vm[d] /\ making'[d] = making[d] /\ row' = row /\ disk' = disk /\ deleting' = deleting
        BY <2>1, <2>3, <2>4, <3>1, <3>3
      <4> QED
        BY <3>1, <4>1 DEF PartsOf
    <3> QED
      BY <3>2, <3>3
  <2>8. MadeInv'
    <3> SUFFICES ASSUME NEW m \in Name, NEW b \in Creator, row[m].by = b PROVE MadeAt(m, b)'
      BY <2>1 DEF MadeInv
    <3>1. MadeAt(m, b)
      BY <2>1, <2>2, CreateFacts DEF MadeInv
    <3>2. b # c
      BY <2>1, <3>1 DEF MadeAt
    <3>3. ~making[b].crossed => making[c].name # m
      BY <2>1, <3>2, UncrossedAlone DEF Living
    <3>4. ~making[b].crossed => \A v \in Vms : vm'[v].name = m /\ vm'[v].here => v = b
      BY <2>2, <2>3, <3>1, <3>3 DEF MadeAt
    <3>5. MadeAt(m, b)'
      BY <2>1, <2>4, <3>1, <3>2, <3>4 DEF MadeAt, Living
    <3> QED
      BY <3>5
  <2>9. \A f \in Foreign : ~vm'[f].here
    BY <2>2, <2>3, CreateFacts, RegistryNames DEF Vms
  <2>10. \A v, w \in Vms : vm'[v].here /\ vm'[w].here /\ vm'[v].name = vm'[w].name => v = w
    BY <2>2, <2>3, <2>5, CreateFacts
  <2>11. \A d \in Creator : /\ making'[d].pc = "idle" => ~vm'[d].here /\ ~making'[d].crossed
                            /\ making'[d].pc # "idle" => making'[d].name = vm'[d].name
                            /\ making[d].crossed => making'[d].crossed
    BY <2>2, <2>3, <2>4, CreateFacts DEF Vms
  <2>12. \A d \in Creator : /\ making[d].pc # "idle" => making'[d].pc # "idle"
                            /\ Alone(d)' => Alone(d)
    BY <2>4 DEF Alone
  <2> QED
    BY <2>1, <2>2, <2>3, <2>4, <2>6, <2>7, <2>8, <2>9, <2>10, <2>11, <2>12, CreateFacts, CreatingMoves
<1> QED
  BY <1>1, <1>2

LEMMA ConfigEndsKeeps == ASSUME RegistryInv, NEW c \in Creator, Machines!ConfigEnds(c) PROVE RegistryInv'
<1>1. CASE vm' = vm
  <2>1. /\ making[c].pc \in {"naming", "configuring"} /\ making' = [making EXCEPT ![c].pc = "failed"]
        /\ UNCHANGED <<outside, left, vm, row, disk, deleting, sweep, missed>>
    BY <1>1 DEF Machines!ConfigEnds, Machines!To
  <2> QED
    BY <2>1, CreateStops
<1>2. CASE vm' # vm
  <2>1. /\ making[c].pc \in {"naming", "configuring"} /\ making' = [making EXCEPT ![c].pc = "failed"]
        /\ vm' = [v \in Vms |-> IF v \in Machines!Registered(making[c].name)
                                THEN [vm[v] EXCEPT !.here = FALSE] ELSE vm[v]]
        /\ UNCHANGED <<outside, left, row, disk, deleting, sweep, missed>>
    BY <1>2, RegistryNames DEF Machines!ConfigEnds, Machines!To, Machines!Under
  <2>2. outside = "creating" /\ c \in Vms /\ vm[c].name = making[c].name
    BY <2>1, CreateActs
  <2>3. ASSUME NEW v \in Vms
        PROVE  /\ vm'[v] \in [name : Name, here : BOOLEAN] /\ vm'[v].name = vm[v].name
               /\ vm'[v].here => vm[v].here
               /\ vm[v].name # making[c].name => vm'[v] = vm[v]
    <3>1. vm[v] \in [name : Name, here : BOOLEAN]
      BY <2>2, CreateFacts
    <3>2. vm'[v] = IF v \in Machines!Registered(making[c].name) THEN [vm[v] EXCEPT !.here = FALSE] ELSE vm[v]
      BY <2>1
    <3>3. v \in Machines!Registered(making[c].name) => vm[v].name = making[c].name
      BY VmFacts
    <3> QED
      BY <3>1, <3>2, <3>3
  <2>4. vm' \in [Vms -> [name : Name, here : BOOLEAN]]
    BY <2>1, <2>3
  <2>5. /\ making' \in [Creator -> Create] /\ making'[c].pc = "failed"
        /\ \A d \in Creator : making'[d].name = making[d].name /\ making'[d].crossed = making[d].crossed
        /\ \A d \in Creator : d # c => making'[d] = making[d]
    BY <2>1, OneMakes DEF CreateStage
  <2>6. RowsInv' /\ UniqueInv' /\ DeleteInv'
    <3>1. UniqueInv'
      BY <2>1, <2>5, StagesOn DEF Living
    <3> QED
      BY <2>1, <2>2, <2>5, <3>1, CreateFacts DEF RowsInv, DeleteInv, Living
  <2>7. PartsInv'
    <3> SUFFICES ASSUME NEW d \in Creator, ~making[d].crossed PROVE PartsOf(d)'
      BY <2>5 DEF PartsInv
    <3>1. PartsOf(d) /\ d \in Vms
      BY <2>2, CreateFacts DEF PartsInv, Vms
    <3>2. CASE d = c
      BY <2>5, <3>2 DEF PartsOf, Living
    <3>3. CASE d # c /\ making[d].pc \in Living
      <4>1. making[d].name # making[c].name
        BY <2>1, <3>3, UncrossedAlone DEF Living
      <4>2. vm[d].name = making[d].name
        BY <3>3, CreateActs DEF Living
      <4>3. vm'[d] = vm[d] /\ making'[d] = making[d]
        BY <2>3, <2>5, <3>1, <3>3, <4>1, <4>2
      <4> QED
        BY <2>1, <3>1, <4>3 DEF PartsOf
    <3>4. CASE d # c /\ making[d].pc \notin Living
      BY <2>5, <3>4 DEF PartsOf, Living
    <3> QED
      BY <3>2, <3>3, <3>4
  <2>8. MadeInv'
    <3>1. MadeInv
      BY <2>2, CreateFacts
    <3>2. \A d \in Creator : /\ making'[d].pc \in Living => making[d].pc \in Living /\ (making[d].pc = "done" => making'[d].pc = "done")
                             /\ making[d].pc \in {"landing", "done", "removed"} => making'[d].pc \in {"landing", "done", "removed"}
      BY <2>1, <2>5 DEF Living
    <3>3. \A n \in Name, b \in Creator : row[n].by = b => MadeAt(n, b)'
      BY <2>3, <2>5, <3>1, <3>2, MakersOn DEF MadeInv
    <3> QED
      BY <2>1, <3>3 DEF MadeInv
  <2>9. \A f \in Foreign : ~vm'[f].here
    BY <2>2, <2>3, CreateFacts DEF Vms
  <2>10. \A v, w \in Vms : vm'[v].here /\ vm'[w].here /\ vm'[v].name = vm'[w].name => v = w
    BY <2>2, <2>3, CreateFacts
  <2>11. \A d \in Creator : /\ making'[d].pc = "idle" => ~vm'[d].here /\ ~making'[d].crossed
                            /\ making'[d].pc # "idle" => making'[d].name = vm'[d].name
                            /\ making[d].crossed => making'[d].crossed
    BY <2>2, <2>3, <2>5, CreateFacts DEF Vms
  <2>12. \A d \in Creator : /\ making[d].pc # "idle" => making'[d].pc # "idle"
                            /\ Alone(d)' => Alone(d)
    BY <2>5 DEF Alone
  <2>13. \A v \in Vms : Known(v) => vm'[v].name = vm[v].name
    BY <2>3
  <2> QED
    BY <2>1, <2>2, <2>4, <2>5, <2>6, <2>7, <2>8, <2>9, <2>10, <2>11, <2>12, <2>13, CreateFacts, CreatingMoves
<1> QED
  BY <1>1, <1>2

\* The steps of a create that write its row
LEMMA RowMade ==
  ASSUME RegistryInv, NEW c \in Creator, NEW n \in Name, n = making[c].name, NEW p \in {"landing", "done"},
         p = "landing" => making[c].pc = "configured", p = "done" => making[c].pc = "landing",
         making' = [making EXCEPT ![c].pc = p], UNCHANGED <<outside, left, vm, disk, deleting, sweep, missed>>,
         NEW r \in Row, row' = [row EXCEPT ![n] = r],
         ~making[c].crossed => r.by = c /\ deleting[n].pc = "no" /\ vm[c].here,
         p = "landing" => row[n].by = "absent" /\ r.by = c /\ r.uuid = "none" /\ ~r.orphan,
         p = "done" => row[n].by # "absent" /\ r.by = row[n].by /\ r.uuid = c /\ (r.orphan => row[n].orphan)
  PROVE  RegistryInv'
<1>1. /\ outside = "creating" /\ c \in Vms /\ vm[c].name = n /\ making[c].pc \in Living \ {"done"}
      /\ c \notin {"none", "absent"} /\ r.by # "absent" /\ (~making[c].crossed => disk[n] = c)
  <2>1. ~making[c].crossed => PartsOf(c)
    BY DEF RegistryInv, PartsInv
  <2> QED
    BY <2>1, CreateActs, RegistryNames DEF Living, PartsOf
<1>2. /\ making' \in [Creator -> Create] /\ making'[c].pc = p
      /\ \A d \in Creator : making'[d].name = making[d].name /\ making'[d].crossed = making[d].crossed
      /\ \A d \in Creator : d # c => making'[d] = making[d]
  BY OneMakes DEF CreateStage
<1>3. row' \in [Name -> Row] /\ row'[n] = r /\ \A m \in Name : m # n => row'[m] = row[m]
  BY RowFacts
<1>4. \A d \in Creator : /\ making'[d].pc \in Living <=> making[d].pc \in Living
                         /\ making'[d].pc \in Living \ {"queued"} <=> making[d].pc \in Living \ {"queued"}
  BY <1>1, <1>2 DEF Living
<1>5. UniqueInv' /\ DeleteInv'
  <2>1. UniqueInv'
    BY <1>1, <1>2, <1>4, StagesOn
  <2> QED
    BY <1>1, <1>2, <1>4, <2>1, CreateFacts DEF DeleteInv
<1>6. RowsInv'
  <2>1. \A m \in Name : row'[m].by = "absent" => row'[m] = Machines!NoRow
    BY <1>1, <1>3, RowFacts
  <2>2. \A m \in Name : row'[m].orphan => row'[m].uuid # "none"
    BY <1>1, <1>3, RowFacts
  <2> QED
    BY <2>1, <2>2 DEF RowsInv, Machines!NoRow, Machines!None
<1>7. \A d \in Creator : d # c /\ making[d].pc \in Living /\ ~making[d].crossed => making[d].name # n
  BY <1>1, UncrossedAlone
<1>8. PartsInv'
  <2> SUFFICES ASSUME NEW d \in Creator, ~making[d].crossed PROVE PartsOf(d)'
    BY <1>2 DEF PartsInv
  <2>1. CASE d = c
    BY <1>1, <1>2, <1>3, <2>1 DEF PartsOf
  <2>2. CASE d # c
    <3>1. PartsOf(d)
      BY <1>1, CreateFacts DEF PartsInv
    <3>2. making'[d] = making[d]
      BY <1>2, <2>2
    <3>3. making[d].pc \in {"landing", "done"} => row'[making[d].name] = row[making[d].name]
      BY <1>3, <1>7, <2>2, CreateActs DEF Living
    <3> QED
      BY <3>1, <3>2, <3>3 DEF PartsOf
  <2> QED
    BY <2>1, <2>2
<1>9. MadeInv'
  <2>1. MadeInv
    BY <1>1, CreateFacts
  <2>2. \A d \in Creator : /\ making'[d].pc \in Living => making[d].pc \in Living /\ (making[d].pc = "done" => making'[d].pc = "done")
                           /\ making[d].pc \in {"landing", "done", "removed"} => making'[d].pc \in {"landing", "done", "removed"}
    BY <1>1, <1>2, <1>4
  <2>3. \A m \in Name, b \in Creator : row[m].by = b => MadeAt(m, b)'
    BY <1>2, <2>1, <2>2, MakersOn DEF MadeInv
  <2> SUFFICES ASSUME NEW m \in Name, NEW b \in Creator, row'[m].by = b PROVE MadeAt(m, b)'
    BY DEF MadeInv
  <2>4. CASE row[m].by = b
    BY <2>3, <2>4
  <2>5. CASE row[m].by # b
    <3>1. m = n /\ p = "landing" /\ b = c
      BY <1>3, <2>5
    <3>2. ASSUME NEW d \in Creator, making'[d].name = n, making'[d].pc \in Living, d # c
          PROVE  making'[d].crossed /\ (making'[c].crossed \/ making'[d].pc = "done")
      <4>1. making[d].pc \in Living /\ making[d].name = n /\ making'[d] = making[d]
        BY <1>2, <3>2
      <4>2. UniqueInv
        BY <1>1, CreateFacts
      <4>3. ~making[c].crossed => making[d].crossed /\ making[d].pc = "done"
        BY <1>1, <3>2, <4>1, <4>2 DEF UniqueInv
      <4> QED
        BY <1>2, <1>7, <3>2, <4>1, <4>3
    <3>3. ~making'[c].crossed => \A v \in Vms : vm'[v].name = n /\ vm'[v].here => v = c
      BY <1>1, <1>2, CreateFacts
    <3>4. MadeAt(n, c)'
      BY <1>2, <3>1, <3>2, <3>3 DEF MadeAt
    <3> QED
      BY <3>1, <3>4
  <2> QED
    BY <2>4, <2>5
<1>10. \A d \in Creator : making[d].pc # "idle" <=> making'[d].pc # "idle"
  BY <1>2
<1>11. \A m \in Name : row'[m].uuid # "none" => \/ row'[m].uuid = row[m].uuid
                                                \/ Known(row'[m].uuid) /\ vm[row'[m].uuid].name = m
  BY <1>1, <1>3 DEF Known
<1>12. \A d \in Creator : Alone(d)' /\ row'[making'[d].name].orphan =>
         Alone(d) /\ making'[d].name = making[d].name /\ row[making[d].name].orphan
  <2> SUFFICES ASSUME NEW d \in Creator, making'[d].pc \in {"landing", "done"}, ~making'[d].crossed,
                      row'[making'[d].name].orphan
               PROVE  Alone(d) /\ row[making[d].name].orphan
    BY <1>2 DEF Alone
  <2>1. CASE d = c
    BY <1>2, <1>3, <2>1 DEF Alone
  <2>2. CASE d # c
    <3>1. making'[d] = making[d] /\ making[d].pc \in Living /\ Alone(d)
      BY <1>2, <2>2 DEF Living, Alone
    <3>2. making[d].name \in Name /\ making[d].name # n
      BY <1>7, <2>2, <3>1, MadeFacts DEF Alone
    <3> QED
      BY <1>3, <3>1, <3>2
  <2> QED
    BY <2>1, <2>2
<1>13. \A d \in Creator : /\ making'[d].pc = "idle" => ~vm'[d].here /\ ~making'[d].crossed
                          /\ making'[d].pc # "idle" => making'[d].name = vm'[d].name
                          /\ making[d].crossed => making'[d].crossed
  BY <1>1, <1>2, <1>10, CreateFacts
<1> QED
  BY <1>1, <1>2, <1>3, <1>5, <1>6, <1>8, <1>9, <1>10, <1>11, <1>12, <1>13, CreateFacts, CreatingMoves

LEMMA LandKeeps == ASSUME RegistryInv, NEW c \in Creator, Machines!Land(c) PROVE RegistryInv'
<1>1. CASE ~Machines!Lands(c)
  <2>1. /\ making[c].pc = "configured" /\ making' = [making EXCEPT ![c].pc = "failed"]
        /\ UNCHANGED <<outside, left, vm, row, disk, deleting, sweep, missed>>
    BY <1>1 DEF Machines!Land, Machines!To
  <2> QED
    BY <2>1, CreateStops
<1>2. CASE Machines!Lands(c)
  <2> PICK n : n = making[c].name
    OBVIOUS
  <2> PICK r : r = [uuid |-> "none", orphan |-> FALSE, by |-> c, id |-> Machines!IdOf(n)]
    OBVIOUS
  <2>1. /\ making[c].pc = "configured" /\ ~Machines!Runs(n) /\ ~Machines!Has(n)
        /\ making' = [making EXCEPT ![c].pc = "landing"] /\ row' = [row EXCEPT ![n] = r]
        /\ UNCHANGED <<outside, left, vm, disk, deleting, sweep, missed>>
    BY <1>2, RegistryNames DEF Machines!Land, Machines!Lands, Machines!To, Machines!Under
  <2>2. n \in Name /\ row[n].by = "absent" /\ deleting[n].pc = "no"
    BY <2>1, CreateActs, NotRunning, RegistryFacts
  <2>3. ~making[c].crossed => vm[c].here
    <3>1. ~making[c].crossed => PartsOf(c)
      BY DEF RegistryInv, PartsInv
    <3> QED
      BY <2>1, <2>2, <3>1 DEF PartsOf
  <2>4. r \in Row /\ r.by = c /\ r.uuid = "none" /\ ~r.orphan
    <3>1. Machines!IdOf(n) \in Name \cup {"no id", "none"}
      BY <2>2 DEF Machines!IdOf
    <3> QED
      BY <3>1 DEF Row, Ids, Makers
  <2> QED
    BY <2>1, <2>2, <2>3, <2>4, RowMade
<1> QED
  BY <1>1, <1>2

LEMMA BindKeeps == ASSUME RegistryInv, NEW c \in Creator, Machines!Bind(c) PROVE RegistryInv'
<1> PICK n : n = making[c].name
  OBVIOUS
<1>1. making[c].pc = "landing"
  BY DEF Machines!Bind
<1>2. n \in Name /\ outside = "creating"
  BY <1>1, CreateActs
<1>3. CASE ~Machines!Has(n)
  <2>1. row[making[c].name].by = "absent"
    BY <1>2, <1>3, RegistryFacts
  <2>2. /\ making' = [making EXCEPT ![c].pc = "failed"]
        /\ UNCHANGED <<outside, left, vm, row, disk, deleting, sweep, missed>>
    BY <1>3 DEF Machines!Bind, Machines!To, Machines!Under
  <2> QED
    BY <1>1, <2>1, <2>2, CreateStops
<1>4. CASE Machines!Has(n)
  <2>1. row[n].by # "absent" /\ c \in Vms
    BY <1>1, <1>2, <1>4, RegistryFacts, CreateActs
  <2>2. ~making[c].crossed => row[n].by = c /\ vm[c].here /\ deleting[n].pc = "no"
    BY <1>1, MadeFacts DEF Alone
  <2> PICK r : r = [row[n] EXCEPT !.uuid = c]
    OBVIOUS
  <2>3. row \in [Name -> Row]
    BY RowFacts
  <2>4. r \in Row /\ r.by = row[n].by /\ r.uuid = c /\ (r.orphan => row[n].orphan)
    BY <1>2, <2>1, <2>3 DEF Row, Ids
  <2>5. /\ making' = [making EXCEPT ![c].pc = "done"] /\ row' = [row EXCEPT ![n].uuid = c]
        /\ UNCHANGED <<outside, left, vm, disk, deleting, sweep, missed>>
    BY <1>4 DEF Machines!Bind, Machines!To, Machines!Under
  <2>6. row' = [row EXCEPT ![n] = r]
    BY <1>2, <2>3, <2>5
  <2>7. /\ making' = [making EXCEPT ![c].pc = "done"]
        /\ UNCHANGED <<outside, left, vm, disk, deleting, sweep, missed>>
    BY <2>5
  <2>8. ~making[c].crossed => r.by = c /\ deleting[n].pc = "no" /\ vm[c].here
    BY <2>2, <2>4
  <2> QED
    BY <1>1, <1>2, <2>1, <2>4, <2>6, <2>7, <2>8, RowMade
<1> QED
  BY <1>3, <1>4

LEMMA DeleteBegins == ASSUME RegistryInv, NEW n \in Name, Machines!Delete(n) PROVE RegistryInv'
<1> PICK r : r = [pc |-> "vm", uuid |-> row[n].uuid, by |-> row[n].by]
  OBVIOUS
<1>1. /\ outside = "creating" /\ Machines!Has(n) /\ ~Machines!Runs(n)
      /\ deleting' = [deleting EXCEPT ![n] = r]
      /\ making' = [c \in Creator |-> IF making[c].name = n /\ making[c].pc = "done"
                                      THEN [making[c] EXCEPT !.pc = "removed"] ELSE making[c]]
      /\ UNCHANGED <<outside, left, vm, row, disk, sweep, missed>>
  BY DEF Machines!Delete, Machines!Under
<1>2. row[n] \in Row /\ row[n].by # "absent"
  BY <1>1, RowFacts, RegistryFacts
<1>3. r \in Removal /\ r.pc = "vm" /\ r.uuid = row[n].uuid /\ r.by = row[n].by
  BY <1>2 DEF Row, Removal
<1>4. deleting' \in [Name -> Removal] /\ deleting'[n] = r /\ \A m \in Name : m # n => deleting'[m] = deleting[m]
  BY <1>1, <1>3, CreateFacts
<1>5. ASSUME NEW c \in Creator
      PROVE  /\ making'[c] \in Create /\ making'[c].name = making[c].name /\ making'[c].crossed = making[c].crossed
             /\ making[c].name = n /\ making[c].pc = "done" => making'[c].pc = "removed"
             /\ ~(making[c].name = n /\ making[c].pc = "done") => making'[c] = making[c]
  <2>1. making[c] \in Create
    BY <1>1, CreateFacts
  <2>2. making'[c] = IF making[c].name = n /\ making[c].pc = "done"
                     THEN [making[c] EXCEPT !.pc = "removed"] ELSE making[c]
    BY <1>1
  <2> QED
    BY <2>1, <2>2 DEF Create, CreateStage
<1>6. making' \in [Creator -> Create]
  BY <1>1, <1>5
<1>7. \A c \in Creator : /\ making'[c].pc \in Living => making'[c] = making[c]
                         /\ making'[c].pc \in Living /\ making[c].name = n => making[c].pc # "done"
                         /\ making'[c].pc = "idle" <=> making[c].pc = "idle"
  BY <1>5 DEF Living
<1>8. RowsInv' /\ UniqueInv'
  <2>1. UniqueInv'
    BY <1>5, <1>7, StagesOn
  <2> QED
    BY <1>1, <2>1, CreateFacts DEF RowsInv
<1>9. /\ deleting[n].pc = "no"
      /\ \A c \in Creator : making[c].name = n => making[c].pc \notin {"storing", "naming", "configuring", "landing"}
  BY <1>1, NotRunning
<1>10. PartsInv'
  <2> SUFFICES ASSUME NEW c \in Creator, making'[c].pc \in Living, ~making[c].crossed PROVE PartsOf(c)'
    BY <1>5 DEF PartsInv, PartsOf, Living
  <2>1. PartsOf(c) /\ making'[c] = making[c]
    BY <1>1, <1>7, CreateFacts DEF PartsInv
  <2>2. CASE making[c].name = n
    <3>1. making[c].pc \notin {"storing", "naming", "configuring", "landing", "done"}
      BY <1>7, <1>9, <2>2
    <3> QED
      BY <1>1, <1>9, <2>1, <2>2, <3>1 DEF PartsOf
  <2>3. CASE making[c].name # n
    <3>1. making[c].name \in Name
      BY <2>1, CreateActs DEF Living
    <3>2. deleting'[making[c].name] = deleting[making[c].name]
      BY <1>4, <2>3, <3>1
    <3> QED
      BY <1>1, <2>1, <3>2 DEF PartsOf
  <2> QED
    BY <2>2, <2>3
<1>11. MadeInv'
  <2>1. MadeInv
    BY <1>1, CreateFacts
  <2>2. \A c \in Creator : making[c].pc \in {"landing", "done", "removed"} => making'[c].pc \in {"landing", "done", "removed"}
    BY <1>5
  <2>3. \A m \in Name, b \in Creator : row[m].by = b => MadeAt(m, b)'
    BY <1>1, <1>5, <1>7, <2>1, <2>2, MakersOn DEF MadeInv
  <2> QED
    BY <1>1, <2>3 DEF MadeInv
<1>12. DeleteInv'
  <2> SUFFICES ASSUME NEW m \in Name, deleting'[m].pc = "vm", deleting'[m].by # "none",
                      NEW c \in Creator, making'[c].name = m, ~making'[c].crossed, making'[c].pc \in Living \ {"queued"}
               PROVE  FALSE
    BY DEF DeleteInv
  <2>1. making'[c] = making[c]
    BY <1>7
  <2>2. CASE m = n
    <3>1. row[n].by \in Creator
      BY <1>2, <1>3, <1>4, <2>2 DEF Row, Makers
    <3>2. c = row[n].by /\ making[c].pc \in {"landing", "done", "removed"}
      <4> PICK b \in Creator : b = row[n].by
        BY <3>1
      <4>1. MadeAt(n, b)
        BY <1>1, CreateFacts DEF MadeInv
      <4>2. making[c].name = n /\ making[c].pc \in Living /\ ~making[c].crossed
        BY <2>1, <2>2
      <4> QED
        BY <4>1, <4>2 DEF MadeAt
    <3> QED
      BY <1>7, <1>9, <2>1, <2>2, <3>2 DEF Living
  <2>3. CASE m # n
    BY <1>1, <1>4, <2>1, <2>3, CreateFacts DEF DeleteInv
  <2> QED
    BY <2>2, <2>3
<1>13. \A c \in Creator : /\ making'[c].pc = "idle" => ~vm'[c].here /\ ~making'[c].crossed
                          /\ making'[c].pc # "idle" => making'[c].name = vm'[c].name
                          /\ making[c].crossed => making'[c].crossed
  BY <1>1, <1>5, <1>7, CreateFacts
<1>14. \A m \in Name : deleting'[m].uuid # "none" => deleting'[m].uuid \in {deleting[m].uuid, row[m].uuid}
  BY <1>3, <1>4
<1>15. \A c \in Creator : Alone(c)' => Alone(c) /\ making'[c] = making[c]
  BY <1>7 DEF Living, Alone
<1> QED
  BY <1>1, <1>4, <1>6, <1>7, <1>8, <1>10, <1>11, <1>12, <1>13, <1>14, <1>15, CreateFacts, CreatingMoves

LEMMA DeleteActs ==
  ASSUME RegistryInv, NEW n \in Name, deleting[n].pc # "no"
  PROVE  /\ outside = "creating" /\ deleting[n] \in Removal
         /\ \A c \in Creator : making[c].name = n /\ ~making[c].crossed =>
              making[c].pc \notin {"storing", "naming", "configuring", "landing", "done"}
<1>1. outside = "creating"
  BY StillIs DEF RegistryInv, VmInv
<1>2. \A c \in Creator : ~making[c].crossed => PartsOf(c)
  BY DEF RegistryInv, PartsInv
<1> QED
  BY <1>1, <1>2, CreateFacts DEF PartsOf

LEMMA DeleteVmKeeps == ASSUME RegistryInv, NEW n \in Name, Machines!DeleteVm(n) PROVE RegistryInv'
<1> PICK r : r = [deleting[n] EXCEPT !.pc = "row"]
  OBVIOUS
<1> PICK u : u = deleting[n].uuid
  OBVIOUS
<1>1. deleting[n].pc = "vm" /\ UNCHANGED <<outside, left, row, making, sweep, missed>>
  BY DEF Machines!DeleteVm
<1>2. /\ outside = "creating" /\ deleting[n] \in Removal /\ u \in Ids
      /\ \A c \in Creator : making[c].name = n /\ ~making[c].crossed =>
           making[c].pc \notin {"storing", "naming", "configuring", "landing", "done"}
  BY <1>1, DeleteActs DEF Removal
<1>3. r \in Removal /\ r.pc = "row" /\ r.uuid = u /\ r.by = deleting[n].by
  BY <1>2 DEF Removal
<1>4. deleting' \in [Name -> Removal] /\ deleting'[n] = r /\ \A m \in Name : m # n => deleting'[m] = deleting[m]
  <2>1. deleting' = [deleting EXCEPT ![n].pc = "row"]
    BY DEF Machines!DeleteVm
  <2>2. deleting' = [deleting EXCEPT ![n] = r]
    BY <1>2, <2>1, CreateFacts
  <2> QED
    BY <1>2, <1>3, <2>2, CreateFacts
<1>5. ASSUME NEW v \in Vms
      PROVE  /\ vm'[v] \in [name : Name, here : BOOLEAN] /\ vm'[v].name = vm[v].name
             /\ vm'[v].here => vm[v].here
             /\ v # u => vm'[v] = vm[v]
  <2>1. vm[v] \in [name : Name, here : BOOLEAN]
    BY <1>2, CreateFacts
  <2>2. vm'[v] = IF v = u THEN [vm[v] EXCEPT !.here = FALSE] ELSE vm[v]
    BY RegistryNames DEF Machines!DeleteVm
  <2> QED
    BY <2>1, <2>2
<1>6. vm' \in [Vms -> [name : Name, here : BOOLEAN]]
  <2>1. vm' = [v \in Vms |-> IF v = deleting[n].uuid THEN [vm[v] EXCEPT !.here = FALSE] ELSE vm[v]]
    BY RegistryNames DEF Machines!DeleteVm
  <2> QED
    BY <1>5, <2>1
<1>7. /\ disk' \in [Name -> Creator \cup {"none"}] /\ \A m \in Name : m # n => disk'[m] = disk[m]
      /\ deleting[n].by = "none" => disk' = disk
  <2>1. disk' = [disk EXCEPT ![n] = IF deleting[n].by # "none" THEN "none" ELSE disk[n]]
    BY RegistryNames DEF Machines!DeleteVm
  <2>2. disk \in [Name -> Creator \cup {"none"}]
    BY <1>2, CreateFacts
  <2> QED
    BY <2>1, <2>2
<1>8. \A c \in Creator : c = u => making[c].name = n
  <2> SUFFICES ASSUME u \in Creator PROVE making[u].name = n
    OBVIOUS
  <2>1. Known(u) /\ vm[u].name = n
    BY <1>2, RegistryNames DEF RegistryInv, NameInv
  <2> QED
    BY <1>2, <2>1, CreateFacts DEF Known
<1>9. RowsInv' /\ UniqueInv'
  BY <1>1, <1>2, CreateFacts DEF RowsInv, UniqueInv
<1>10. PartsInv'
  <2> SUFFICES ASSUME NEW c \in Creator, making[c].pc \in Living, ~making[c].crossed PROVE PartsOf(c)'
    BY <1>1 DEF PartsInv, PartsOf, Living
  <2>1. PartsOf(c) /\ c \in Vms /\ making[c].name \in Name
    BY <1>2, CreateFacts, CreateActs DEF PartsInv, Living, Vms
  <2>2. CASE making[c].name = n
    <3>1. making[c].pc \in {"queued", "stored", "configured"}
      BY <1>2, <2>2 DEF Living
    <3>2. making[c].pc # "queued" => disk'[n] = disk[n]
      BY <1>1, <1>2, <1>7, <2>2, CreateFacts DEF DeleteInv
    <3> QED
      BY <1>1, <1>3, <1>4, <2>1, <2>2, <3>1, <3>2 DEF PartsOf
  <2>3. CASE making[c].name # n
    <3>1. vm'[c] = vm[c] /\ disk'[making[c].name] = disk[making[c].name] /\ deleting'[making[c].name] = deleting[making[c].name]
      BY <1>4, <1>5, <1>7, <1>8, <2>1, <2>3
    <3> QED
      BY <1>1, <2>1, <3>1 DEF PartsOf
  <2> QED
    BY <2>2, <2>3
<1>11. MadeInv'
  <2>1. MadeInv
    BY <1>2, CreateFacts
  <2>2. \A m \in Name, b \in Creator : row[m].by = b => MadeAt(m, b)'
    BY <1>1, <1>5, <2>1, MakersOn DEF MadeInv
  <2> QED
    BY <1>1, <2>2 DEF MadeInv
<1>12. DeleteInv'
  <2>1. DeleteInv
    BY <1>2, CreateFacts
  <2> QED
    <3>1. \A m \in Name : deleting'[m].pc = "vm" => deleting'[m] = deleting[m]
      BY <1>3, <1>4
    <3> QED
      BY <1>1, <2>1, <3>1 DEF DeleteInv
<1>13. \A f \in Foreign : ~vm'[f].here
  BY <1>2, <1>5, CreateFacts DEF Vms
<1>14. \A v, w \in Vms : vm'[v].here /\ vm'[w].here /\ vm'[v].name = vm'[w].name => v = w
  BY <1>2, <1>5, CreateFacts
<1>15. \A c \in Creator : /\ making'[c].pc = "idle" => ~vm'[c].here /\ ~making'[c].crossed
                          /\ making'[c].pc # "idle" => making'[c].name = vm'[c].name
                          /\ making[c].crossed => making'[c].crossed
  BY <1>1, <1>2, <1>5, CreateFacts DEF Vms
<1>16. \A v \in Vms : Known(v) => vm'[v].name = vm[v].name
  BY <1>5
<1>17. \A m \in Name : deleting'[m].uuid = deleting[m].uuid
  BY <1>3, <1>4
<1>18. \A c \in Creator : Alone(c)' => Alone(c)
  BY <1>1 DEF Alone
<1> QED
  BY <1>1, <1>2, <1>4, <1>6, <1>7, <1>9, <1>10, <1>11, <1>12, <1>13, <1>14, <1>15, <1>16, <1>17, <1>18, CreateFacts, CreatingMoves

\* A delete goes on, with the tables of the creates as they are
LEMMA RemovalMoves ==
  ASSUME RegistryInv, NEW n \in Name, deleting[n].pc # "no", NEW r \in Removal, r.pc # "vm",
         deleting' = [deleting EXCEPT ![n] = r], r.uuid \in {"none", deleting[n].uuid},
         UNCHANGED <<outside, left, vm, disk, making, sweep, missed>>,
         row' \in [Name -> Row], \A m \in Name : m # n => row'[m] = row[m],
         row'[n] \in {row[n], Machines!NoRow},
         \A c \in Creator : making[c].name = n /\ making[c].pc = "configured" /\ ~making[c].crossed =>
                               vm[c].here \/ r.pc \in {"row", "tasks"}
  PROVE  RegistryInv'
<1>1. /\ outside = "creating" /\ deleting[n] \in Removal
      /\ \A c \in Creator : making[c].name = n /\ ~making[c].crossed =>
           making[c].pc \notin {"storing", "naming", "configuring", "landing", "done"}
  BY DeleteActs
<1>2. deleting' \in [Name -> Removal] /\ deleting'[n] = r /\ \A m \in Name : m # n => deleting'[m] = deleting[m]
  BY <1>1, CreateFacts
<1>3. \A m \in Name : row'[m] = row[m] \/ row'[m] = Machines!NoRow
  OBVIOUS
<1>4. UniqueInv'
  BY <1>1, CreateFacts DEF UniqueInv
<1>5. RowsInv'
  <2>1. \A m \in Name : row'[m].by = "absent" => row'[m] = Machines!NoRow
    BY <1>3, RowFacts
  <2>2. \A m \in Name : row'[m].orphan => row'[m].uuid # "none"
    BY <1>3, RowFacts, NoRowIs
  <2> QED
    BY <2>1, <2>2 DEF RowsInv, Machines!NoRow, Machines!None
<1>6. PartsInv'
  <2> SUFFICES ASSUME NEW c \in Creator, making[c].pc \in Living, ~making[c].crossed PROVE PartsOf(c)'
    BY DEF PartsInv, PartsOf, Living
  <2>1. PartsOf(c) /\ making[c].name \in Name
    BY <1>1, CreateFacts, CreateActs DEF PartsInv, Living
  <2>2. CASE making[c].name = n
    <3>1. making[c].pc \in {"queued", "stored", "configured"}
      BY <1>1, <2>2 DEF Living
    <3> QED
      BY <1>2, <2>1, <2>2, <3>1 DEF PartsOf
  <2>3. CASE making[c].name # n
    <3>1. row'[making[c].name] = row[making[c].name] /\ deleting'[making[c].name] = deleting[making[c].name]
      BY <1>2, <2>1, <2>3
    <3> QED
      BY <2>1, <3>1 DEF PartsOf
  <2> QED
    BY <2>2, <2>3
<1>7. MadeInv'
  <2>1. MadeInv
    BY <1>1, CreateFacts
  <2>2. \A m \in Name : row'[m].by \in Creator => row'[m] = row[m]
    BY <1>3, NoRowIs, RegistryNames
  <2>3. \A m \in Name, b \in Creator : row[m].by = b => MadeAt(m, b)'
    BY <2>1, MakersOn DEF MadeInv
  <2> QED
    BY <2>2, <2>3 DEF MadeInv
<1>8. DeleteInv'
  <2>1. DeleteInv
    BY <1>1, CreateFacts
  <2> QED
    BY <1>2, <2>1 DEF DeleteInv
<1>9. \A m \in Name : /\ row'[m].uuid # "none" => row'[m].uuid = row[m].uuid
                      /\ deleting'[m].uuid # "none" => deleting'[m].uuid = deleting[m].uuid
  BY <1>2, <1>3, NoRowIs
<1>10. \A c \in Creator : Alone(c)' /\ row'[making[c].name].orphan => Alone(c) /\ row[making[c].name].orphan
  <2>1. \A c \in Creator : Alone(c)' <=> Alone(c)
    BY DEF Alone
  <2> QED
    BY <1>3, <2>1, NoRowIs, MadeFacts
<1> QED
  BY <1>1, <1>2, <1>4, <1>5, <1>6, <1>7, <1>8, <1>9, <1>10, CreateFacts, CreatingMoves

LEMMA DeleteFailsKeeps == ASSUME RegistryInv, NEW n \in Name, Machines!DeleteFails(n) PROVE RegistryInv'
<1>1. /\ deleting[n].pc = "vm" /\ deleting' = [deleting EXCEPT ![n] = Machines!Still]
      /\ UNCHANGED <<outside, left, vm, row, disk, making, sweep, missed>>
  BY DEF Machines!DeleteFails
<1>2. \A c \in Creator : making[c].name = n /\ making[c].pc = "configured" /\ ~making[c].crossed => vm[c].here
  BY <1>1 DEF RegistryInv, PartsInv, PartsOf
<1>3. Machines!Still \in Removal /\ Machines!Still.pc # "vm" /\ Machines!Still.uuid = "none"
  BY StillIs
<1> QED
  BY <1>1, <1>2, <1>3, RowFacts, RemovalMoves

LEMMA DeleteRowKeeps == ASSUME RegistryInv, NEW n \in Name, Machines!DeleteRow(n) PROVE RegistryInv'
<1> PICK r : r = [deleting[n] EXCEPT !.pc = "tasks"]
  OBVIOUS
<1>1. /\ deleting[n].pc = "row" /\ deleting' = [deleting EXCEPT ![n].pc = "tasks"]
      /\ row' = [row EXCEPT ![n] = Machines!NoRow]
      /\ UNCHANGED <<outside, left, vm, disk, making, sweep, missed>>
  BY DEF Machines!DeleteRow
<1>2. outside = "creating" /\ deleting[n] \in Removal
  BY <1>1, DeleteActs
<1>3. r \in Removal /\ r.pc = "tasks" /\ r.uuid = deleting[n].uuid
  BY <1>2 DEF Removal
<1>4. deleting' = [deleting EXCEPT ![n] = r]
  BY <1>1, <1>2, CreateFacts
<1>5. row' \in [Name -> Row] /\ row'[n] = Machines!NoRow /\ \A m \in Name : m # n => row'[m] = row[m]
  BY <1>1, RowFacts, NoRowIs
<1>6. r.pc # "vm" /\ deleting[n].pc # "no" /\ r.uuid \in {"none", deleting[n].uuid}
  BY <1>1, <1>3
<1>7. row'[n] \in {row[n], Machines!NoRow}
  BY <1>5
<1>8. \A c \in Creator : making[c].name = n /\ making[c].pc = "configured" => vm[c].here \/ r.pc \in {"row", "tasks"}
  BY <1>3
<1>9. UNCHANGED <<outside, left, vm, disk, making, sweep, missed>>
  BY <1>1
<1>10. row' \in [Name -> Row] /\ \A m \in Name : m # n => row'[m] = row[m]
  BY <1>5
<1> QED
  BY <1>3, <1>4, <1>6, <1>7, <1>8, <1>9, <1>10, RemovalMoves

LEMMA Cancels ==
  ASSUME RegistryInv, NEW n, Machines!CancelWaiting(n)
  PROVE  /\ making' \in [Creator -> Create]
         /\ \A c \in Creator :
              /\ making'[c].name = making[c].name /\ making'[c].crossed = making[c].crossed
              /\ making[c].name = n /\ making[c].pc \in {"queued", "stored", "configured"} => making'[c].pc = "cancelled"
              /\ ~(making[c].name = n /\ making[c].pc \in {"queued", "stored", "configured"}) => making'[c] = making[c]
<1>1. making' = [c \in Creator |-> IF c \in Machines!Waiting(n) THEN [making[c] EXCEPT !.pc = "cancelled"]
                                   ELSE making[c]]
  BY DEF Machines!CancelWaiting
<1>2. making \in [Creator -> Create]
  BY DEF RegistryInv, RegistryShape, Create
<1>3. ASSUME NEW c \in Creator
      PROVE  /\ making'[c] \in Create /\ making'[c].name = making[c].name /\ making'[c].crossed = making[c].crossed
             /\ making[c].name = n /\ making[c].pc \in {"queued", "stored", "configured"} => making'[c].pc = "cancelled"
             /\ ~(making[c].name = n /\ making[c].pc \in {"queued", "stored", "configured"}) => making'[c] = making[c]
  <2>1. c \in Machines!Waiting(n) <=> making[c].name = n /\ making[c].pc \in {"queued", "stored", "configured"}
    BY DEF Machines!Waiting
  <2>2. making'[c] = IF c \in Machines!Waiting(n) THEN [making[c] EXCEPT !.pc = "cancelled"] ELSE making[c]
    BY <1>1
  <2>3. making[c] \in Create
    BY <1>2
  <2> QED
    BY <2>1, <2>2, <2>3 DEF Create, CreateStage
<1> QED
  BY <1>1, <1>3

\* The pending tasks of a machine are cancelled
LEMMA CancelMoves ==
  ASSUME RegistryInv, outside = "creating", NEW n \in Name, Machines!CancelWaiting(n),
         UNCHANGED <<outside, left, vm, row, disk, missed>>,
         deleting' = deleting \/ (deleting[n].pc = "tasks" /\ deleting' = [deleting EXCEPT ![n] = Machines!Still]),
         sweep' \in [Machines!Sweeper -> Sweeping],
         \A s \in Machines!Sweeper : /\ sweep'[s].pc = sweep[s].pc /\ sweep'[s].todo = sweep[s].todo
                                     /\ sweep'[s].seen = sweep[s].seen /\ sweep'[s].at = sweep[s].at
  PROVE  RegistryInv'
<1>1. /\ making' \in [Creator -> Create]
      /\ \A c \in Creator :
           /\ making'[c].name = making[c].name /\ making'[c].crossed = making[c].crossed
           /\ making[c].name = n /\ making[c].pc \in {"queued", "stored", "configured"} => making'[c].pc = "cancelled"
           /\ ~(making[c].name = n /\ making[c].pc \in {"queued", "stored", "configured"}) => making'[c] = making[c]
  BY Cancels
<1>2. \A c \in Creator : /\ making'[c].pc \in Living => making'[c] = making[c]
                         /\ making'[c].pc = "configured" => making[c].name # n
                         /\ making'[c].pc = "idle" <=> making[c].pc = "idle"
                         /\ making[c].pc \in {"landing", "done", "removed"} => making'[c] = making[c]
  BY <1>1 DEF Living
<1>3. /\ deleting' \in [Name -> Removal]
      /\ \A m \in Name : /\ m # n => deleting'[m] = deleting[m]
                         /\ deleting'[m].pc \in {deleting[m].pc, "no"} /\ deleting'[m].uuid \in {deleting[m].uuid, "none"}
                         /\ deleting'[m].pc = "vm" => deleting'[m] = deleting[m]
  BY StillIs, CreateFacts
<1>4. RowsInv' /\ UniqueInv'
  <2>1. UniqueInv'
    BY <1>1, <1>2, StagesOn
  <2> QED
    BY <2>1, CreateFacts DEF RowsInv
<1>5. PartsInv'
  <2> SUFFICES ASSUME NEW c \in Creator, making'[c].pc \in Living, ~making[c].crossed PROVE PartsOf(c)'
    BY <1>1 DEF PartsInv, PartsOf, Living
  <2>1. PartsOf(c) /\ making'[c] = making[c] /\ making[c].name \in Name
    BY <1>2, CreateFacts, CreateActs DEF PartsInv, Living
  <2>2. deleting'[making[c].name].pc \in {deleting[making[c].name].pc, "no"}
    BY <1>3, <2>1
  <2>3. making[c].pc = "configured" => deleting'[making[c].name] = deleting[making[c].name]
    BY <1>2, <1>3, <2>1
  <2> QED
    BY <2>1, <2>2, <2>3 DEF PartsOf
<1>6. MadeInv'
  <2>1. MadeInv
    BY CreateFacts
  <2>2. \A m \in Name, b \in Creator : row[m].by = b => MadeAt(m, b)'
    BY <1>1, <1>2, <2>1, MakersOn DEF MadeInv
  <2> QED
    BY <2>2 DEF MadeInv
<1>7. DeleteInv'
  <2>1. DeleteInv
    BY CreateFacts
  <2> QED
    BY <1>1, <1>2, <1>3, <2>1 DEF DeleteInv
<1>8. \A c \in Creator : /\ making'[c].pc = "idle" => ~vm'[c].here /\ ~making'[c].crossed
                         /\ making'[c].pc # "idle" => making'[c].name = vm'[c].name
                         /\ making[c].crossed => making'[c].crossed
  BY <1>1, <1>2, CreateFacts
<1>9. \A c \in Creator : Alone(c)' => Alone(c) /\ making'[c] = making[c]
  BY <1>2 DEF Living, Alone
<1> QED
  BY <1>1, <1>2, <1>3, <1>4, <1>5, <1>6, <1>7, <1>8, <1>9, CreateFacts, CreatingMoves

LEMMA DeleteTasksKeeps == ASSUME RegistryInv, NEW n \in Name, Machines!DeleteTasks(n) PROVE RegistryInv'
<1>1. /\ deleting[n].pc = "tasks" /\ Machines!CancelWaiting(n)
      /\ deleting' = [deleting EXCEPT ![n] = Machines!Still]
      /\ UNCHANGED <<outside, left, vm, row, disk, sweep, missed>>
  BY DEF Machines!DeleteTasks
<1>2. outside = "creating"
  BY <1>1, DeleteActs
<1> QED
  BY <1>1, <1>2, CreateFacts, CancelMoves

LEMMA CancelLeftoverKeeps ==
  ASSUME RegistryInv, NEW s \in Machines!Sweeper, NEW n \in Name, Machines!CancelLeftover(s, n)
  PROVE  RegistryInv'
<1> DEFINE next == [sweep[s] EXCEPT !.gone = @ \ {n}]
<1>1. /\ sweep[s].pc = "cancel" /\ Machines!CancelWaiting(n) /\ sweep' = [sweep EXCEPT ![s] = next]
      /\ UNCHANGED <<outside, left, vm, row, disk, deleting, missed>>
  BY DEF Machines!CancelLeftover, Machines!Goes
<1>2. sweep[s] \in Sweeping /\ sweep[s].todo = {} /\ sweep \in [Machines!Sweeper -> Sweeping]
  BY <1>1, SweepFacts DEF Sound, RegistryInv, RegistryShape
<1>3. /\ next \in Sweeping /\ next.pc = "cancel" /\ next.todo = {} /\ next.seen = sweep[s].seen
      /\ next.at = sweep[s].at
  BY <1>1, <1>2 DEF Sweeping
<1> HIDE DEF next
<1>4. CASE outside = "creating"
  <2>1. /\ sweep' \in [Machines!Sweeper -> Sweeping]
        /\ \A t \in Machines!Sweeper : /\ sweep'[t].pc = sweep[t].pc /\ sweep'[t].todo = sweep[t].todo
                                       /\ sweep'[t].seen = sweep[t].seen /\ sweep'[t].at = sweep[t].at
    BY <1>1, <1>2, <1>3
  <2> QED
    BY <1>1, <1>4, <2>1, CancelMoves
<1>5. CASE outside # "creating"
  <2>1. making' = making
    <3>1. \A c \in Creator : making[c].pc = "idle"
      BY <1>5 DEF RegistryInv, VmInv
    <3>2. making \in [Creator -> Create]
      BY DEF RegistryInv, RegistryShape, Create
    <3>3. \A c \in Creator : making'[c] = making[c]
      BY <1>1, <3>1, Cancels
    <3>4. making' \in [Creator -> Create]
      BY <1>1, Cancels
    <3> QED
      BY <3>2, <3>3, <3>4
  <2>2. UNCHANGED Tables /\ missed' = missed
    BY <1>1, <2>1 DEF Tables
  <2>3. Sound(next) /\ Named(next) /\ Fit(next) /\ Ready(next) /\ missed' \in [Vms -> 0..2]
    BY <1>3, <2>2, SweepFacts DEF Sound, Named, Fit, Ready
  <2>4. ASSUME outside = "calm", NEW n2 \in Name, row[n2].uuid # "none"
        PROVE  SeenBy(next, n2, row[n2].uuid, row[n2].orphan, missed'[row[n2].uuid])
    <3>1. SeenBy(sweep[s], n2, row[n2].uuid, row[n2].orphan, missed[row[n2].uuid])
      BY <1>1, <2>4, SweepsAlone, SweepFacts
    <3> QED
      BY <1>1, <1>3, <2>2, <3>1 DEF SeenBy
  <2> QED
    BY <1>1, <1>3, <1>5, <2>2, <2>3, <2>4, SweepMoves
<1> QED
  BY <1>4, <1>5

----------------------------------------------------------------------------

LEMMA SweepKeeps ==
  ASSUME RegistryInv, NEW s \in Machines!Sweeper, Machines!SweepStep(s) \/ Machines!ListNothing(s)
  PROVE  RegistryInv'
<1>1. CASE Machines!List(s)
  BY <1>1, ListKeeps
<1>2. CASE Machines!ListNothing(s)
  BY <1>2, ListNothingKeeps
<1>3. CASE Machines!Upsert(s)
  BY <1>3, UpsertKeeps
<1>4. CASE Machines!Visited(s)
  BY <1>4, VisitedKeeps
<1>5. CASE Machines!Purge(s)
  BY <1>5, PurgeKeeps
<1>6. CASE Machines!Mark(s)
  BY <1>6, MarkKeeps
<1>7. CASE \E entry \in sweep[s].todo : Machines!Inspect(s, entry) \/ Machines!InspectFails(s, entry)
  BY <1>7, InspectKeeps, InspectFailsKeeps
<1>8. CASE \E n \in Name : Machines!CancelLeftover(s, n)
  BY <1>8, CancelLeftoverKeeps
<1> QED
  BY <1>1, <1>2, <1>3, <1>4, <1>5, <1>6, <1>7, <1>8 DEF Machines!SweepStep

LEMMA ChainKeeps ==
  ASSUME RegistryInv, NEW c \in Creator,
         \/ Machines!CreateStep(c) \/ Machines!CancelChain(c) \/ Machines!StoreEnds(c) \/ Machines!ConfigEnds(c)
         \/ \E n \in Name : Machines!Post(c, n)
  PROVE  RegistryInv'
<1>1. CASE Machines!Store(c) \/ Machines!Stored(c) \/ Machines!StoreEnds(c) \/ Machines!Configure(c)
  BY <1>1, StoreKeeps, StoredKeeps, StoreEndsKeeps, ConfigureKeeps
<1>2. CASE Machines!CreateVM(c) \/ Machines!Configured(c) \/ Machines!ConfigEnds(c)
  BY <1>2, CreateVMKeeps, ConfiguredKeeps, ConfigEndsKeeps
<1>3. CASE Machines!Land(c) \/ Machines!Bind(c)
  BY <1>3, LandKeeps, BindKeeps
<1>4. CASE Machines!CancelChain(c)
  BY <1>4, CancelChainKeeps
<1>5. CASE \E n \in Name : Machines!Post(c, n)
  BY <1>5, PostKeeps
<1> QED
  BY <1>1, <1>2, <1>3, <1>4, <1>5 DEF Machines!CreateStep

LEMMA RemovalKeeps ==
  ASSUME RegistryInv, NEW n \in Name,
         Machines!Probe(n) \/ Machines!Delete(n) \/ Machines!DeleteStep(n) \/ Machines!DeleteFails(n)
  PROVE  RegistryInv'
<1>1. CASE Machines!Probe(n) \/ Machines!Delete(n)
  BY <1>1, ProbeKeeps, DeleteBegins
<1>2. CASE Machines!DeleteVm(n) \/ Machines!DeleteFails(n)
  BY <1>2, DeleteVmKeeps, DeleteFailsKeeps
<1>3. CASE Machines!DeleteRow(n) \/ Machines!DeleteTasks(n)
  BY <1>3, DeleteRowKeeps, DeleteTasksKeeps
<1> QED
  BY <1>1, <1>2, <1>3 DEF Machines!DeleteStep

LEMMA RegistryStep == ASSUME RegistryInv, Machines!Next PROVE RegistryInv'
<1>1. CASE \E f \in Foreign : \/ Machines!Register(f) \/ Machines!Unregister(f)
                              \/ \E n \in Name : Machines!Rename(f, n)
  BY <1>1, RegisterKeeps, UnregisterKeeps, RenameKeeps
<1>2. CASE Machines!Clear
  BY <1>2, ClearKeeps
<1>3. CASE \E s \in Machines!Sweeper : Machines!SweepStep(s) \/ Machines!ListNothing(s)
  BY <1>3, SweepKeeps
<1>4. CASE \E n \in Name : Machines!Probe(n) \/ Machines!Delete(n) \/ Machines!DeleteStep(n) \/ Machines!DeleteFails(n)
  BY <1>4, RemovalKeeps
<1>5. CASE \E c \in Creator :
             \/ Machines!CreateStep(c) \/ Machines!CancelChain(c) \/ Machines!StoreEnds(c) \/ Machines!ConfigEnds(c)
             \/ \E n \in Name : Machines!Post(c, n)
  BY <1>5, ChainKeeps
<1> QED
  BY <1>1, <1>2, <1>3, <1>4, <1>5 DEF Machines!Next

LEMMA RegistryTurn ==
  ASSUME [AgentNext]_agentVars
  PROVE  Machines!Next \/ UNCHANGED machineVars
BY DEF AgentNext, agentVars

LEMMA RegistryHolds == ASSUME RegistryInv PROVE Machines!TypeOK /\ Machines!OneRowPerVm /\ Machines!LandedWhole
<1>1. Machines!TypeOK
  <2>1. RegistryShape
    BY DEF RegistryInv
  <2>2. \A n \in Name : row[n].by = "absent" => ~Machines!Has(n)
    BY RegistryFacts
  <2>3. vm \in [Machines!Vm -> [name : Name, here : BOOLEAN]] /\ missed \in [Machines!Vm -> 0..2]
    BY <2>1, RegistryNames DEF RegistryShape
  <2>4. row \in [Name -> [uuid : Machines!Vm \cup {Machines!None}, orphan : BOOLEAN,
                           by : Creator \cup {Machines!None, "absent"}, id : Name \cup {"no id", Machines!None}]]
    BY <2>1, RegistryNames DEF RegistryShape, Ids, Makers
  <2>5. \A n \in Name : deleting[n].pc \in {"no", "vm", "row", "tasks"}
    BY <2>1 DEF RegistryShape
  <2>6. /\ outside \in {"calm", "renaming", "faulty", "cleared", "creating"} /\ left \in 0..MaxOutside
        /\ disk \in [Name -> Creator \cup {Machines!None}]
    BY <2>1, RegistryNames DEF RegistryShape
  <2> QED
    BY <2>2, <2>3, <2>4, <2>5, <2>6 DEF Machines!TypeOK
<1>2. Machines!OneRowPerVm
  <2> SUFFICES ASSUME NEW m \in Name, NEW n \in Name, row[m].uuid = row[n].uuid, row[m].uuid # "none"
               PROVE  m = n
    BY RegistryNames DEF Machines!OneRowPerVm
  <2>1. CASE outside = "renaming"
    BY <2>1, RowFacts
  <2>2. CASE outside # "renaming"
    <3>1. vm[row[m].uuid].name = m /\ vm[row[n].uuid].name = n
      BY <2>2, RowFacts
    <3> QED
      BY <3>1
  <2> QED
    BY <2>1, <2>2
<1>3. Machines!LandedWhole
  <2> SUFFICES ASSUME NEW c \in Creator, making[c].pc = "done", ~making[c].crossed
               PROVE  /\ Machines!Has(making[c].name) /\ row[making[c].name].uuid = c
                      /\ vm[c].here /\ disk[making[c].name] = c
    BY DEF Machines!LandedWhole, Machines!Whole, Machines!Under
  <2>1. PartsOf(c)
    BY DEF RegistryInv, PartsInv
  <2>2. making[c].name \in Name /\ row[making[c].name].by # "absent"
    BY MadeFacts, RegistryNames DEF Alone
  <2> QED
    BY <2>1, <2>2, RegistryFacts DEF PartsOf, Living
<1> QED
  BY <1>1, <1>2, <1>3

\* In a calm world sweeps alone write the table
LEMMA CalmWrites ==
  ASSUME RegistryInv, Machines!Next, outside = "calm", row' # row
  PROVE  \E s \in Machines!Sweeper : Machines!Upsert(s) \/ Machines!Purge(s) \/ Machines!Mark(s)
<1>1. CASE \E f \in Foreign : \/ Machines!Register(f) \/ Machines!Unregister(f)
                              \/ \E n \in Name : Machines!Rename(f, n)
  BY <1>1 DEF Machines!Register, Machines!Unregister, Machines!Rename
<1>2. CASE Machines!Clear
  BY <1>2 DEF Machines!Clear
<1>3. ASSUME NEW s \in Machines!Sweeper, Machines!SweepStep(s) \/ Machines!ListNothing(s)
      PROVE  Machines!Upsert(s) \/ Machines!Purge(s) \/ Machines!Mark(s)
  <2>1. ~Machines!List(s) /\ ~Machines!ListNothing(s) /\ ~Machines!Visited(s)
    BY DEF Machines!List, Machines!ListNothing, Machines!Visited
  <2>2. ~\E entry \in sweep[s].todo : Machines!Inspect(s, entry) \/ Machines!InspectFails(s, entry)
    BY DEF Machines!Inspect, Machines!InspectFails
  <2>3. ~\E n \in Name : Machines!CancelLeftover(s, n)
    BY DEF Machines!CancelLeftover
  <2> QED
    BY <1>3, <2>1, <2>2, <2>3 DEF Machines!SweepStep
<1>4. ASSUME NEW n \in Name, Machines!Probe(n) \/ Machines!Delete(n) \/ Machines!DeleteStep(n) \/ Machines!DeleteFails(n)
      PROVE  FALSE
  <2>1. ~Machines!Probe(n) /\ ~Machines!Delete(n)
    BY DEF Machines!Probe, Machines!Delete
  <2>2. deleting[n].pc = "no"
    BY DeleteActs
  <2> QED
    BY <1>4, <2>1, <2>2 DEF Machines!DeleteStep, Machines!DeleteVm, Machines!DeleteRow, Machines!DeleteTasks, Machines!DeleteFails
<1>5. ASSUME NEW c \in Creator,
             \/ Machines!CreateStep(c) \/ Machines!CancelChain(c) \/ Machines!StoreEnds(c) \/ Machines!ConfigEnds(c)
             \/ \E n \in Name : Machines!Post(c, n)
      PROVE  FALSE
  <2>1. ~\E n \in Name : Machines!Post(c, n)
    BY DEF Machines!Post
  <2>2. making[c].pc = "idle"
    BY CreateActs
  <2>3. ~Machines!CancelChain(c) /\ ~Machines!StoreEnds(c) /\ ~Machines!ConfigEnds(c)
    BY <2>2 DEF Machines!CancelChain, Machines!StoreEnds, Machines!ConfigEnds
  <2>4. ~Machines!CreateStep(c)
    BY <2>2 DEF Machines!CreateStep, Machines!Store, Machines!Stored, Machines!Configure, Machines!CreateVM,
                Machines!Configured, Machines!Land, Machines!Bind
  <2> QED
    BY <1>5, <2>1, <2>3, <2>4
<1> QED
  BY <1>1, <1>2, <1>3, <1>4, <1>5 DEF Machines!Next

LEMMA GraceStep ==
  ASSUME RegistryInv, Machines!Next, NEW n \in Name, outside = "calm", Machines!Has(n), row'[n] = Machines!NoRow
  PROVE  missed[row[n].uuid] = 2
<1>1. row[n].by = "none" /\ row[n] \in Row /\ row'[n].by = "absent"
  <2>1. row[n].by # "absent"
    BY RegistryFacts
  <2>2. row[n] \in Row /\ (row[n].by = "absent" \/ row[n].by = "none")
    BY RowFacts
  <2>3. row'[n].by = "absent"
    BY NoRowIs
  <2> QED
    BY <2>1, <2>2, <2>3
<1>2. row' # row
  BY <1>1
<1>3. PICK s \in Machines!Sweeper : Machines!Upsert(s) \/ Machines!Purge(s) \/ Machines!Mark(s)
  BY <1>2, CalmWrites
<1>4. CASE Machines!Upsert(s)
  <2> PICK at : at = sweep[s].at
    OBVIOUS
  <2>1. sweep[s].pc = "write" /\ Machines!Write(at.vm, at.name, at.row, at.by)
    BY <1>4 DEF Machines!Upsert
  <2>2. row \in [Name -> Row]
    BY RowFacts
  <2>3. CASE at.row # "none" /\ Machines!Has(at.row) /\ row[at.row].by = at.by
    <3>1. row' = [row EXCEPT ![at.row].uuid = at.vm, ![at.row].orphan = FALSE]
      BY <2>1, <2>3, RegistryNames DEF Machines!Write
    <3>2. PICK r : r = [row[n] EXCEPT !.uuid = at.vm, !.orphan = FALSE]
      OBVIOUS
    <3>3. r.by = row[n].by
      BY <1>1, <3>2 DEF Row
    <3>4. row'[n] = r \/ row'[n] = row[n]
      BY <2>2, <3>1, <3>2
    <3> QED
      BY <1>1, <3>3, <3>4
  <2>4. CASE at.row = "none" /\ ~Machines!Has(at.name)
    <3>1. row' = [row EXCEPT ![at.name] = [uuid |-> at.vm, orphan |-> FALSE, by |-> "none", id |-> "none"]]
      BY <2>1, <2>4, RegistryNames DEF Machines!Write
    <3>2. row'[n] = row[n]
      BY <2>2, <2>4, <3>1
    <3> QED
      BY <1>1, <3>2
  <2> QED
    BY <1>2, <2>1, <2>3, <2>4, RegistryNames DEF Machines!Write
<1>5. CASE Machines!Purge(s)
  <2> PICK swept : swept = Machines!DeleteOrphanedMissing(sweep[s].seen)
    OBVIOUS
  <2>1. sweep[s].pc = "purge" /\ row' = [m \in Name |-> IF m \in swept THEN Machines!NoRow ELSE row[m]]
    BY <1>5 DEF Machines!Purge
  <2>2. n \in swept
    BY <1>1, <2>1
  <2>3. row[n].orphan /\ row[n].uuid # "none" /\ n \notin sweep[s].seen
    BY <2>2, RegistryNames DEF Machines!DeleteOrphanedMissing
  <2>4. s \in Discover /\ sweep[s].todo = {}
    BY <2>1, SweepsAlone, SweepFacts DEF Sound
  <2>5. SeenBy(sweep[s], n, row[n].uuid, row[n].orphan, missed[row[n].uuid])
    BY <2>3, <2>4, SweepFacts
  <2> QED
    BY <2>1, <2>3, <2>4, <2>5 DEF SeenBy
<1>6. CASE Machines!Mark(s)
  <2>1. row' = Machines!MarkMissing(sweep[s].seen)
    BY <1>6 DEF Machines!Mark
  <2>2. PICK r : r = [row[n] EXCEPT !.orphan = TRUE]
    OBVIOUS
  <2>3. r.by = row[n].by
    BY <1>1, <2>2 DEF Row
  <2>4. row'[n] = r \/ row'[n] = row[n]
    BY <2>1, <2>2 DEF Machines!MarkMissing
  <2> QED
    BY <1>1, <2>3, <2>4
<1> QED
  BY <1>3, <1>4, <1>5, <1>6

\* A VM has one row; a create that landed has its row, VM and disk, unless another create of its name was
\* under way beside it; and in a calm world a row goes with the second sweep that finds its VM gone: whatever
\* sweeps, creates, deletes and VirtualBox do between (UpsertDiscovered, DeleteOrphanedMissing).
THEOREM RegistryCorrect == AgentSpec => RegistrySafe
<1>1. AgentInit => RegistryInv
  BY RegistryStarts DEF AgentInit
<1>2. RegistryInv /\ [AgentNext]_agentVars => RegistryInv'
  BY RegistryTurn, RegistryStep, RegistrySame
<1>3. RegistryInv /\ [AgentNext]_agentVars
      => [\A n \in Name : outside = "calm" /\ Machines!Has(n) /\ row'[n] = Machines!NoRow
                          => missed[row[n].uuid] = 2]_(Machines!registryVars)
  BY RegistryTurn, GraceStep DEF machineVars, Machines!registryVars
<1>4. RegistryInv => Machines!TypeOK /\ Machines!OneRowPerVm /\ Machines!LandedWhole
  BY RegistryHolds
<1> QED
  BY <1>1, <1>2, <1>3, <1>4, PTL DEF AgentSpec, RegistrySafe, Machines!GraceKept
=============================================================================
