------------------------------- MODULE MCStreams -------------------------------
(***************************************************************************)
(* What a connected client is served from beside the event hub: the output *)
(* of a task, the identity provider's stream, live sampling, terminals.    *)
(* They share no state, so they run side by side in one state space, each  *)
(* in a scene of its own.                                                  *)
(***************************************************************************)
EXTENDS Naturals, Sequences

CONSTANTS
  Writer, Flusher, Room, MaxChunks,                  \* TaskOutput
  Run, MaxListeners, MaxChanges,                     \* HubStream
  Loop, MaxWatchers, MaxSaves, MaxArrivals,          \* LiveSampling
  Ssh, Host, Socket, MaxSockets                      \* Terminals

ASSUME StreamsAssumption ==
  /\ {Room, MaxChunks, MaxListeners, MaxChanges, MaxWatchers, MaxSaves, MaxArrivals,
      MaxSockets} \subseteq Nat
  /\ "none" \notin Run \cup Loop
  /\ Ssh \cap Host = {}

VARIABLES
  scene,
  prompt, status, task, session, written, timer, flusher, writer, stored, stream,
  subscribed, channel,
  spaced, listeners, due, signedIn, cancel, run, live, stopped, changes,
  watchers, dues, setting, call, sampler, loop, arrivals,
  gentle, term, watcher, exited, socket, ended, panicked, connects

outputVars == <<prompt, status, task, session, written, timer, flusher, writer, stored,
                stream, subscribed, channel>>
relayVars == <<spaced, listeners, due, signedIn, cancel, run, live, stopped, changes>>
samplingVars == <<watchers, dues, setting, call, sampler, loop, arrivals>>
terminalVars == <<gentle, term, watcher, exited, socket, ended, panicked, connects>>

Output == INSTANCE TaskOutput
Hub == INSTANCE HubStream
Live == INSTANCE LiveSampling
Terminal == INSTANCE Terminals

SceneInit ==
  /\ Output!Init /\ Hub!Init /\ Live!Init /\ Terminal!Init
  /\ scene \in {"output", "hub", "live", "terminals"}
  /\ prompt \/ scene = "output"
  /\ spaced \/ scene = "hub"
  /\ gentle \/ scene = "terminals"

\* A step of the scene that plays, and the other parts stand still
SceneNext ==
  /\ UNCHANGED scene
  /\ IF scene = "output" THEN Output!Next ELSE UNCHANGED outputVars
  /\ IF scene = "hub" THEN Hub!Next ELSE UNCHANGED relayVars
  /\ IF scene = "live" THEN Live!Next ELSE UNCHANGED samplingVars
  /\ IF scene = "terminals" THEN Terminal!Next ELSE UNCHANGED terminalVars

sceneVars == <<scene, outputVars, relayVars, samplingVars, terminalVars>>

\* Outside its scene no part has a step to take
SceneSpec ==
  /\ SceneInit /\ [][SceneNext]_sceneVars
  /\ Output!Fairness /\ Hub!Fairness /\ Live!Fairness /\ Terminal!Fairness

\* The stored output of a task that is over is everything written (TaskOutput.Finalize)
OutputStored == Output!TypeOK /\ Output!StoredComplete

\* A stream of a task ends with the task, and does not keep it from ending (handleTaskStream)
OutputStreamEnds == Output!StreamEnds /\ Output!TaskNotHeld

\* One hub stream, live just while it is read, ended when nobody listens (syncHubStream)
HubOneStream ==
  [](Hub!TypeOK /\ Hub!OneStream /\ Hub!SpacedLiveFollows) /\ Hub!EndsUnwanted

\* One sampling loop, in the end the one that was asked for (syncLiveSampling)
LiveConverges == [](Live!TypeOK /\ Live!OneLoop) /\ Live!Converges

\* A session ends once, no shell outlives it, the latest socket has the output, and no socket
\* stays with a session that has ended (attach, close, handleSSHSocket)
TerminalEndsOnce ==
  /\ [](/\ Terminal!TypeOK /\ Terminal!GentleEndedOnce /\ Terminal!NoLostShell
        /\ Terminal!LatestReceives)
  /\ Terminal!SocketsLeave
=============================================================================
