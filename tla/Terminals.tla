------------------------------- MODULE Terminals -------------------------------
(***************************************************************************)
(* Terminal sessions: a shell on this host (internal/server/               *)
(* host_terminal.go) or in a machine over SSH (ssh_terminal.go), the       *)
(* WebSockets that attach to it (terminal_link.go), its watcher, and those *)
(* who end it: DELETE .../stop, the revocation of its key, the agent's     *)
(* stop (terminal_events.go).                                              *)
(*                                                                         *)
(* A step is one section under a mutex, one result of opening the shell,   *)
(* or one event of a socket.  A goroutine that panics ends the agent.      *)
(***************************************************************************)
EXTENDS Naturals

CONSTANTS
  Ssh,              \* sessions of a machine: the first socket opens the shell
  Host,             \* sessions of this host: the shell is open from the start
  Socket,           \* the WebSocket handlers
  MaxSockets        \* bound: connects

Session == Ssh \cup Host
None == "none"

VARIABLES
  gentle,           \* environment: no session ends while one of its shells opens
  term,             \* per session: its status, whether it has a shell, link, done
  watcher,          \* per session: the goroutine that waits for its shell
  exited,           \* per session: watchers whose shell has ended
  socket,           \* per handler: its session and where it is
  ended,            \* history: session-ended events sent
  panicked,
  connects

terminalVars == <<gentle, term, watcher, exited, socket, ended, panicked, connects>>

\* link: the last socket attached, and whether it is still the writer
NoSession == [status |-> "absent", shell |-> FALSE, done |-> FALSE,
              latest |-> None, sends |-> FALSE]
NoSocket == [pc |-> "off", of |-> None]

Init ==
  /\ gentle \in BOOLEAN
  /\ term = [s \in Session |-> NoSession]
  /\ watcher = [s \in Session |-> "none"]
  /\ exited = [s \in Session |-> 0]
  /\ socket = [k \in Socket |-> NoSocket]
  /\ ended = [s \in Session |-> 0]
  /\ panicked = FALSE
  /\ connects = 0

At(k, s, pc) == socket[k].of = s /\ socket[k].pc = pc
Go(k, pc) == socket' = [socket EXCEPT ![k].pc = pc]
Leaves(k) == socket' = [socket EXCEPT ![k] = NoSocket]

\* The shell of a session is being opened, or its watcher has not read it yet
Opening(s) ==
  \/ watcher[s] = "new"
  \/ \E k \in Socket, pc \in {"dial", "dialed", "failing"} : At(k, s, pc)

----------------------------------------------------------------------------
(* Sessions *)

Start(s) ==
  /\ term[s].status = "absent"
  /\ term' = [term EXCEPT ![s].status = IF s \in Ssh THEN "connecting" ELSE "active",
                                ![s].shell = s \in Host]
  /\ watcher' = [watcher EXCEPT ![s] = IF s \in Host THEN "new" ELSE "none"]
  /\ UNCHANGED <<gentle, exited, socket, ended, panicked, connects>>

\* Slip: a session that is closed is closed again
OpenAny(s) == term[s].status # "absent"

\* What close takes for a session that is open
Open(s) == IF s \in Ssh THEN term[s].status \notin {"absent", "closed"} ELSE term[s].shell

\* close, under the store's lock: done is closed and the event goes out; closing
\* done twice panics
Close(s) ==
  IF Open(s)
  THEN /\ term' = [term EXCEPT ![s].status = "closed", ![s].shell = FALSE,
                                     ![s].done = TRUE]
       /\ panicked' = term[s].done
       /\ ended' = [ended EXCEPT ![s] = @ + 1]
  ELSE UNCHANGED <<term, panicked, ended>>

ShellEnds(s) ==
  /\ watcher' = [watcher EXCEPT ![s] = "none"]
  /\ exited' = [exited EXCEPT ![s] = @ + 1]

\* DELETE .../stop, and endAllSessions of a shutdown
Stop(s) ==
  /\ term[s].status # "absent"
  /\ gentle => ~Opening(s)
  /\ Close(s)
  /\ IF term[s].shell /\ watcher[s] = "waits" THEN ShellEnds(s) ELSE UNCHANGED <<watcher, exited>>
  /\ UNCHANGED <<gentle, socket, connects>>

\* The key that started it is revoked: a session no socket is attached to ends
EndIdle(s) ==
  /\ ~term[s].sends
  /\ Stop(s)

\* watchTermSession reads the session's shell first
WatchStart(s) ==
  /\ watcher[s] = "new"
  /\ watcher' = [watcher EXCEPT ![s] = "waits"]
  /\ panicked' = ~term[s].shell
  /\ UNCHANGED <<gentle, term, exited, socket, ended, connects>>

ShellExits(s) ==
  /\ watcher[s] = "waits"
  /\ gentle => ~Opening(s)
  /\ ShellEnds(s)
  /\ UNCHANGED <<gentle, term, socket, ended, panicked, connects>>

\* The watcher of a shell that has ended closes the session
WatchEnd(s) ==
  /\ exited[s] > 0
  /\ exited' = [exited EXCEPT ![s] = @ - 1]
  /\ Close(s)
  /\ UNCHANGED <<gentle, watcher, socket, connects>>

----------------------------------------------------------------------------
(* A socket: handleSSHSocket and handleTermSocket *)

Connect(k, s) ==
  /\ connects < MaxSockets
  /\ socket[k].pc = "off" /\ Open(s)
  /\ connects' = connects + 1
  /\ socket' = [socket EXCEPT ![k] = [pc |-> IF s \in Ssh THEN "enter" ELSE "attach", of |-> s]]
  /\ UNCHANGED <<gentle, term, watcher, exited, ended, panicked>>

\* sshShell holds startMu while it opens the shell
StartMuFree(s) == \A k \in Socket : ~At(k, s, "dial") /\ ~At(k, s, "dialed")

Refused(s) == term[s].status = "closed"

Enter(k) ==
  LET s == socket[k].of IN
  /\ socket[k].pc = "enter" /\ StartMuFree(s)
  /\ IF term[s].shell THEN Go(k, "attach")
     ELSE IF Refused(s) THEN Leaves(k)
     ELSE Go(k, "dial")
  /\ UNCHANGED <<gentle, term, watcher, exited, ended, panicked, connects>>

\* StartShell: refused, timed out or cancelled; or open
Dial(k) ==
  /\ socket[k].pc = "dial"
  /\ \E pc \in {"failing", "dialed"} : Go(k, pc)
  /\ UNCHANGED <<gentle, term, watcher, exited, ended, panicked, connects>>

\* setStatus "failed", whatever the status is by now
Failing(k) ==
  /\ socket[k].pc = "failing"
  /\ term' = [term EXCEPT ![socket[k].of].status = "failed"]
  /\ Leaves(k)
  /\ UNCHANGED <<gentle, watcher, exited, ended, panicked, connects>>

Opened(k) ==
  LET s == socket[k].of IN
  /\ socket[k].pc = "dialed"
  /\ term' = [term EXCEPT ![s].shell = TRUE, ![s].status = "active"]
  /\ watcher' = [watcher EXCEPT ![s] = "waits"]
  /\ Go(k, "attach")
  /\ UNCHANGED <<gentle, exited, ended, panicked, connects>>

Attach(k) ==
  LET s == socket[k].of IN
  /\ socket[k].pc = "attach"
  /\ term' = [term EXCEPT ![s].latest = k, ![s].sends = TRUE]
  /\ Go(k, "attached")
  /\ UNCHANGED <<gentle, watcher, exited, ended, panicked, connects>>

\* detach leaves a later socket's place alone; whether the link still has a writer
Detach(s, k) == term[s].sends /\ term[s].latest # k

Leave(k) ==
  LET s == socket[k].of IN
  /\ socket[k].pc = "attached"
  /\ term' = [term EXCEPT ![s].sends = Detach(s, k)]
  /\ Leaves(k)
  /\ UNCHANGED <<gentle, watcher, exited, ended, panicked, connects>>

\* Slip: a socket that waits for its client only
DismissedNever(k) == FALSE

\* The session is done: the handler's context is cancelled
Dismissed(k) == socket[k].pc = "attached" /\ term[socket[k].of].done

Handler(k) == Enter(k) \/ Dial(k) \/ Failing(k) \/ Opened(k) \/ Attach(k)

Next ==
  /\ ~panicked
  /\ \/ \E s \in Session : \/ Start(s) \/ Stop(s) \/ EndIdle(s) \/ WatchStart(s)
                           \/ ShellExits(s) \/ WatchEnd(s)
     \/ \E k \in Socket : Handler(k) \/ Leave(k) \/ \E s \in Session : Connect(k, s)

Spec == Init /\ [][Next]_terminalVars

\* Goroutines run; nobody has to start, stop or leave.
Fairness ==
  /\ \A s \in Session : WF_terminalVars(~panicked /\ (WatchStart(s) \/ WatchEnd(s)))
  /\ \A k \in Socket : WF_terminalVars(~panicked /\ Handler(k))
  /\ \A k \in Socket : WF_terminalVars(~panicked /\ Dismissed(k) /\ Leave(k))

FairSpec == Spec /\ Fairness

----------------------------------------------------------------------------
(* Properties *)

TypeOK ==
  /\ gentle \in BOOLEAN /\ panicked \in BOOLEAN
  /\ \A s \in Session :
       /\ term[s].status \in {"absent", "connecting", "active", "closed", "failed"}
       /\ term[s].sends => term[s].latest \in Socket
       /\ watcher[s] \in {"none", "new", "waits"}
       /\ exited[s] \in Nat
       /\ ended[s] \in Nat
  /\ \A k \in Socket : socket[k].pc # "off" => socket[k].of \in Session
  /\ \A j, k \in Socket :
       /\ {socket[j].pc, socket[k].pc} \subseteq {"dial", "dialed"}
       /\ socket[j].of = socket[k].of
       => j = k

\* "ended is true the first time": a session ends once, and nothing closes its
\* channel again (close)
EndedOnce == ~panicked /\ \A s \in Session : ended[s] <= 1

\* ... if it does not end while a socket opens its shell.
GentleEndedOnce == gentle => EndedOnce

\* A shell that runs has a session through which it can be ended: none outlives the
\* closing of its session.
NoLostShell ==
  gentle => \A s \in Session : watcher[s] = "waits" => term[s].shell /\ ~term[s].done

\* The socket that attached last receives the output for as long as it stays, whoever
\* left before or after (attach, detach).
LatestReceives ==
  \A k \in Socket :
    socket[k].pc = "attached" /\ term[socket[k].of].latest = k => term[socket[k].of].sends

\* "so the tab closes in every open browser": no socket stays with a session that ended.
SocketsLeave == \A k \in Socket : (socket[k].pc = "attached" /\ term[socket[k].of].done)
                                    ~> (socket[k].pc # "attached" \/ panicked)
=============================================================================
