----------------------------- MODULE AgentHandoff -----------------------------
(***************************************************************************)
(* One agent per user: launches that find another one running, and the     *)
(* restart that hands the ports and the databases from a process to the    *)
(* copy it spawned.  The processes share the two ports, the database files, *)
(* the handoff secret and the key file.                                    *)
(***************************************************************************)
EXTENDS Naturals, FiniteSets

CONSTANTS
  Proc,       \* processes that may ever run, numbered in the order they start
  MaxLaunch,  \* bound on launches by the person or the system
  MaxKeys,    \* bound on keys created
  Faults      \* among "spawn" (no successor starts), "kill" and "quit"

NoProc == 0

VARIABLES
  tls,          \* ssl.enabled: agents talk to one another over the second port
  pc, parent,   \* each process, and the one that spawned it
  asked,        \* the process its handoff request is held by
  http, https,  \* who listens
  dbs,          \* processes with the databases open
  services,     \* processes whose queue, reconciler and rotations run
  expected,     \* processes with successorExpected
  released,     \* processes whose released channel is closed
  secret,       \* the secret file exists
  disk, mem,    \* the keys in the file, and in each process
  launched, faults

vars == <<tls, pc, parent, asked, http, https, dbs, services, expected, released, secret, disk,
          mem, launched, faults>>
ports == <<http, https>>
handoff == <<expected, released>>
store == <<disk, mem>>

Init ==
  /\ tls \in BOOLEAN
  /\ pc = [p \in Proc |-> "none"] /\ parent = [p \in Proc |-> NoProc]
  /\ asked = [p \in Proc |-> NoProc] /\ http = NoProc /\ https = NoProc
  /\ dbs = {} /\ services = {} /\ expected = {} /\ released = {}
  /\ secret = FALSE /\ disk = {} /\ mem = [p \in Proc |-> {}]
  /\ launched = 0 /\ faults = 0

Door == IF tls THEN https ELSE http
Alive(p) == pc[p] \notin {"none", "exited"}

\* The process begins: it reads the key and session files before anything else
Begin(p, q) ==
  /\ pc[p] = "none" /\ \A o \in Proc : o < p => pc[o] # "none"
  /\ parent' = [parent EXCEPT ![p] = q]
  /\ mem' = [mem EXCEPT ![p] = disk] /\ disk' = disk

Launch(p) ==
  /\ launched < MaxLaunch /\ launched' = launched + 1
  /\ Begin(p, NoProc)
  /\ pc' = [pc EXCEPT ![p] = "loaded"]
  /\ UNCHANGED <<tls, asked, ports, dbs, services, handoff, secret, faults>>

Freed(p) == asked[p] \in released \/ pc[asked[p]] = "exited"

\* The slip: every agent behind the door holds the request
Holds(q) == q # NoProc

Pending(q) == q # NoProc /\ q \in expected

\* awaitPredecessor: no secret, nobody at the door or 409 is an ordinary launch; a pending restart
\* holds the request
Await(p) ==
  /\ pc[p] = "loaded"
  /\ IF secret /\ Pending(Door)
     THEN pc' = [pc EXCEPT ![p] = "asking"] /\ asked' = [asked EXCEPT ![p] = Door]
     ELSE pc' = [pc EXCEPT ![p] = "cleared"] /\ asked' = asked
  /\ UNCHANGED <<tls, parent, ports, dbs, services, handoff, secret, store, launched, faults>>

Answered(p) ==
  /\ pc[p] = "asking" /\ Freed(p)
  /\ pc' = [pc EXCEPT ![p] = "cleared"]
  /\ UNCHANGED <<tls, parent, asked, ports, dbs, services, handoff, secret, store, launched, faults>>

\* The slip: the services start with the databases, before the port is won
ServicesAtOpen(p) == services' = services \cup {p}

ServicesWait(p) == services' = services

\* The secret is overwritten, the databases opened
Open(p) ==
  /\ pc[p] = "cleared"
  /\ secret' = TRUE /\ dbs' = dbs \cup {p}
  /\ ServicesWait(p)
  /\ pc' = [pc EXCEPT ![p] = "opened"]
  /\ UNCHANGED <<tls, parent, asked, ports, handoff, store, launched, faults>>

\* The first port decides; the second is bound when it can be, and the agent goes on without it
Listen(p) ==
  /\ pc[p] = "opened"
  /\ IF http = NoProc
     THEN /\ http' = p /\ https' = IF tls /\ https = NoProc THEN p ELSE https
          /\ services' = services \cup {p}
          /\ pc' = [pc EXCEPT ![p] = "serving"]
     ELSE pc' = [pc EXCEPT ![p] = "conflict"] /\ UNCHANGED <<ports, services>>
  /\ UNCHANGED <<tls, parent, asked, dbs, handoff, secret, store, launched, faults>>

Leaves(p) ==
  /\ pc' = [pc EXCEPT ![p] = "exited"]
  /\ http' = (IF http = p THEN NoProc ELSE http) /\ https' = (IF https = p THEN NoProc ELSE https)
  /\ dbs' = dbs \ {p} /\ services' = services \ {p}
  /\ UNCHANGED <<tls, parent, asked, handoff, secret, store, launched>>

\* handleBindConflict: whoever holds the port is asked to open the UI, this process ends
Conflict(p) == pc[p] = "conflict" /\ Leaves(p) /\ faults' = faults

\* A key is created, by any request the process still answers
CreateKey(p) ==
  /\ pc[p] \in {"serving", "stopping", "draining"} /\ p \in {http, https}
  /\ LET k == Cardinality(UNION {mem[q] : q \in Proc} \cup disk) + 1 IN
     /\ k <= MaxKeys
     /\ mem' = [mem EXCEPT ![p] = @ \cup {k}] /\ disk' = mem[p] \cup {k}
  /\ UNCHANGED <<tls, pc, parent, asked, ports, dbs, services, handoff, secret, launched, faults>>

-----------------------------------------------------------------------------
(* restartSelf.                                                            *)

Restart(p, q) ==
  /\ pc[p] = "serving" /\ Begin(q, p)
  /\ expected' = expected \cup {p} /\ released' = released
  /\ pc' = [pc EXCEPT ![p] = "stopping", ![q] = "loaded"]
  /\ UNCHANGED <<tls, asked, ports, dbs, services, secret, launched, faults>>

SpawnFails(p) ==
  /\ pc[p] = "serving" /\ "spawn" \in Faults /\ faults = 0
  /\ faults' = 1
  /\ expected' = expected \cup {p} /\ released' = released
  /\ UNCHANGED <<tls, pc, parent, asked, ports, dbs, services, secret, store, launched>>

\* A second restart request on the way out spawns a second copy; it dies at the second close
RestartAgain(p, q) ==
  /\ pc[p] = "stopping" /\ Begin(q, p)
  /\ pc' = [pc EXCEPT ![q] = "loaded"]
  /\ UNCHANGED <<tls, asked, ports, dbs, services, handoff, secret, launched, faults>>

Teardown(p) ==
  /\ pc[p] = "stopping"
  /\ services' = services \ {p} /\ dbs' = dbs \ {p}
  /\ pc' = [pc EXCEPT ![p] = "draining"]
  /\ UNCHANGED <<tls, parent, asked, ports, handoff, secret, store, launched, faults>>

Ready(p) == pc[p] = "draining"

\* The channel is closed beside the goroutine that closes the listeners, not after it
Release(p) ==
  /\ Ready(p) /\ p \notin released
  /\ released' = released \cup {p} /\ expected' = expected
  /\ UNCHANGED <<tls, pc, parent, asked, ports, dbs, services, secret, store, launched, faults>>

CloseHttp(p) ==
  /\ pc[p] = "draining" /\ http = p
  /\ http' = NoProc /\ https' = https
  /\ UNCHANGED <<tls, pc, parent, asked, dbs, services, handoff, secret, store, launched, faults>>

CloseHttps(p) ==
  /\ pc[p] = "draining" /\ http # p /\ https = p
  /\ https' = NoProc /\ http' = http
  /\ UNCHANGED <<tls, pc, parent, asked, dbs, services, handoff, secret, store, launched, faults>>

Exit(p) ==
  /\ pc[p] = "draining" /\ p \in released /\ p \notin {http, https}
  /\ Leaves(p) /\ faults' = faults

\* Two goroutines of two restarts: the one that closes the channel second panics
Panic(p) ==
  /\ pc[p] = "draining" /\ p \in released
  /\ Cardinality({q \in Proc : parent[q] = p}) > 1
  /\ Leaves(p) /\ faults' = faults

Quit(p) ==
  /\ pc[p] = "serving" /\ "quit" \in Faults /\ faults = 0
  /\ Leaves(p) /\ faults' = 1

Kill(p) ==
  /\ Alive(p) /\ "kill" \in Faults /\ faults = 0
  /\ Leaves(p) /\ faults' = 1

Step(p) ==
  \/ Await(p) \/ Answered(p) \/ Open(p) \/ Listen(p) \/ Conflict(p)
  \/ Teardown(p) \/ Release(p) \/ CloseHttp(p) \/ CloseHttps(p) \/ Exit(p)

Next ==
  \E p \in Proc :
    \/ Launch(p) \/ Step(p) \/ CreateKey(p) \/ SpawnFails(p) \/ Panic(p) \/ Quit(p) \/ Kill(p)
    \/ \E q \in Proc : Restart(p, q) \/ RestartAgain(p, q)

Spec == Init /\ [][Next]_vars

\* A process runs: nothing it does waits on a person
Fairness == \A p \in Proc : WF_vars(Step(p))
FairSpec == Spec /\ Fairness

-----------------------------------------------------------------------------
TypeOK ==
  /\ {http, https} \subseteq Proc \cup {NoProc} /\ dbs \cup services \cup released \subseteq Proc
  /\ \A p \in Proc : pc[p] = "asking" => asked[p] \in Proc
  /\ \A p \in Proc : ~Alive(p) => p \notin dbs \cup services \cup {http, https}

\* Two agents never work at once: no second queue claims tasks and no second reconciler sweeps,
\* whatever is launched, restarted or killed
OneServer == Cardinality(services) <= 1

\* A restart's copy opens the databases once the process that spawned it has closed them, as long
\* as that process is the one behind the door the copy knocks at
SuccessorWaits == [][\A p \in Proc :
  p \in dbs' \ dbs /\ parent[p] # NoProc /\ Door = parent[p] => parent[p] \notin dbs]_vars

\* A process held at the door is held by one that leaves, or has left: nobody waits on an agent
\* that goes on serving, except one whose own restart could not start its copy
AskerFreed == \A p \in Proc : pc[p] = "asking" =>
  \/ pc[asked[p]] \in {"stopping", "draining", "exited"}
  \/ asked[p] \in expected /\ \A q \in Proc : parent[q] # asked[p]

\* The handoff is answered once the listeners are closed, says restartSelf: a restart ends with an
\* agent that serves
AgentBack == \A p \in Proc : pc[p] = "stopping" ~> \E q \in Proc : pc[q] = "serving"

\* A successor reaches the databases only after its predecessor closed them, says setupTasks
SuccessorAlwaysWaits == [][\A p \in Proc :
  p \in dbs' \ dbs /\ parent[p] # NoProc => parent[p] \notin dbs]_vars

\* The agent that serves has the key file as it is: nothing was opened before the release
KeysCurrent == \A p \in services : mem[p] = disk

\* An agent configured for TLS has its second port
SecondPort == \A p \in Proc : tls /\ pc[p] = "serving" => https = p
=============================================================================
