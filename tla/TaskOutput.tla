------------------------------ MODULE TaskOutput ------------------------------
(***************************************************************************)
(* The output of one task (internal/tasks/output.go): its executor's       *)
(* writers append to a buffer in memory, a timer flushes the buffer to the *)
(* task row, Finalize stores it for good, and a WebSocket stream           *)
(* (internal/server/ws.go) replays it and follows it.                      *)
(*                                                                         *)
(* Chunks are numbered as they are appended, so a buffer is the number of  *)
(* its last chunk; circular mode drops old ones and changes nothing here.  *)
(* A step is one section under m.mu, one statement, one callback or one    *)
(* frame.                                                                  *)
(***************************************************************************)
EXTENDS Naturals, Sequences

CONSTANTS
  Writer,           \* the executor's goroutines that read stdout and stderr
  Flusher,          \* goroutines of the debounce timer
  Room,             \* capacity of a stream's channel
  MaxChunks         \* bound: chunks written

VARIABLES
  prompt,           \* environment: Finalize does not overtake a flush
  status,           \* the row: pending, running or finished
  task,             \* where executeAndHandle is
  session,          \* m.sessions has the task
  written,          \* chunks appended
  timer,            \* flushTimer is set
  flusher,          \* per flush goroutine: pc and the buffer it copied
  writer,           \* per writer: the chunk whose callbacks it has to call, 0 for none
  stored,           \* the output column
  stream,           \* the WebSocket handler
  subscribed,       \* its callback is registered
  channel           \* its entries

rowVars == <<status, stored>>
bufferVars == <<session, written, timer, subscribed>>
outputVars == <<prompt, rowVars, task, bufferVars, flusher, writer, stream, channel>>

Resting == [pc |-> "idle", upto |-> 0]
Closed == [pc |-> "closed", finished |-> FALSE, upto |-> 0]
Finalized == 0    \* the entry "finalized", in a channel of chunk numbers

Init ==
  /\ prompt \in BOOLEAN
  /\ status = "pending" /\ task = "waiting"
  /\ session = FALSE /\ written = 0 /\ timer = FALSE
  /\ flusher = [f \in Flusher |-> Resting]
  /\ writer = [w \in Writer |-> 0]
  /\ stored = 0
  /\ stream = Closed /\ subscribed = FALSE /\ channel = <<>>

----------------------------------------------------------------------------
(* The task: MarkRunning, Create, its writers, Finish, Finalize *)

\* A pending row that is cancelled never has a session
CancelPending ==
  /\ task = "waiting"
  /\ task' = "over" /\ status' = "finished"
  /\ UNCHANGED <<prompt, stored, bufferVars, flusher, writer, stream, channel>>

MarkRunning ==
  /\ task = "waiting"
  /\ task' = "marked" /\ status' = "running"
  /\ UNCHANGED <<prompt, stored, bufferVars, flusher, writer, stream, channel>>

Create ==
  /\ task = "marked"
  /\ task' = "executing" /\ session' = TRUE
  /\ UNCHANGED <<prompt, rowVars, written, timer, subscribed, flusher, writer, stream,
                 channel>>

Write(w) ==
  /\ task = "executing" /\ writer[w] = 0
  /\ written < MaxChunks
  /\ written' = written + 1
  /\ writer' = [writer EXCEPT ![w] = IF subscribed THEN written' ELSE 0]
  /\ timer' = TRUE
  /\ UNCHANGED <<prompt, rowVars, task, session, subscribed, flusher, stream, channel>>

\* The callback hands over the entry, or gives up when the stream's context has ended
HandOver(entry) ==
  \/ /\ stream.pc = "closed"
     /\ UNCHANGED channel
  \/ /\ stream.pc # "closed" /\ Len(channel) < Room
     /\ channel' = Append(channel, entry)

Callback(w) ==
  /\ writer[w] # 0
  /\ HandOver(writer[w])
  /\ writer' = [writer EXCEPT ![w] = 0]
  /\ UNCHANGED <<prompt, rowVars, task, bufferVars, flusher, stream>>

\* The executor returns when its writers have; Finish is a statement of its own
Finish ==
  /\ task = "executing" /\ \A w \in Writer : writer[w] = 0
  /\ task' = "recorded" /\ status' = "finished"
  /\ UNCHANGED <<prompt, stored, bufferVars, flusher, writer, stream, channel>>

\* Finalize takes the buffer and the callbacks and drops the session
Finalize ==
  /\ task = "recorded"
  /\ prompt => \A f \in Flusher : flusher[f].pc # "holds"
  /\ task' = IF subscribed THEN "storesAndTells" ELSE "stores"
  /\ session' = FALSE /\ timer' = FALSE /\ subscribed' = FALSE
  /\ UNCHANGED <<prompt, rowVars, written, flusher, writer, stream, channel>>

\* Slip: only what no flush has stored yet
PersistedLess(upto) == IF stored # 0 THEN stored ELSE upto

Persisted(upto) == IF upto = 0 THEN stored ELSE upto

Persist ==
  /\ task \in {"stores", "storesAndTells"}
  /\ stored' = Persisted(written)
  /\ task' = IF task = "stores" THEN "over" ELSE "tells"
  /\ UNCHANGED <<prompt, status, bufferVars, flusher, writer, stream, channel>>

Tell ==
  /\ task = "tells"
  /\ HandOver(Finalized)
  /\ task' = "over"
  /\ UNCHANGED <<prompt, rowVars, bufferVars, flusher, writer, stream>>

TaskStep == Create \/ Finish \/ Finalize \/ Persist \/ Tell

----------------------------------------------------------------------------
(* flush *)

Fire(f) ==
  /\ timer /\ \A g \in Flusher : flusher[g].pc # "fired"
  /\ flusher[f].pc = "idle"
  /\ flusher' = [flusher EXCEPT ![f].pc = "fired"]
  /\ UNCHANGED <<prompt, rowVars, task, bufferVars, writer, stream, channel>>

FlushCopy(f) ==
  /\ flusher[f].pc = "fired"
  /\ timer' = (timer /\ ~session)
  /\ flusher' = [flusher EXCEPT ![f] = IF session THEN [pc |-> "holds", upto |-> written]
                                       ELSE Resting]
  /\ UNCHANGED <<prompt, rowVars, task, session, written, subscribed, writer, stream, channel>>

FlushStore(f) ==
  /\ flusher[f].pc = "holds"
  /\ stored' = Persisted(flusher[f].upto)
  /\ flusher' = [flusher EXCEPT ![f] = Resting]
  /\ UNCHANGED <<prompt, status, task, bufferVars, writer, stream, channel>>

----------------------------------------------------------------------------
(* handleTaskStream *)

Go(pc) == stream' = [stream EXCEPT !.pc = pc]

\* The row is read first, for the ticket's scope and the status.  Callbacks to an
\* earlier stream, which have nobody to wait for, have returned.
Open ==
  /\ stream.pc = "closed" /\ \A w \in Writer : writer[w] = 0
  /\ stream' = [Closed EXCEPT !.pc = "ask", !.finished = (status = "finished")]
  /\ channel' = <<>>
  /\ UNCHANGED <<prompt, rowVars, task, bufferVars, flusher, writer>>

\* GetOutput: the live buffer, or the column in a second step
GetOutput ==
  /\ stream.pc \in {"ask", "column"}
  /\ IF session /\ stream.pc = "ask"
     THEN stream' = [stream EXCEPT !.pc = "replay", !.upto = written]
     ELSE IF stream.pc = "ask" THEN Go("column")
     ELSE stream' = [stream EXCEPT !.pc = "replay", !.upto = stored]
  /\ UNCHANGED <<prompt, rowVars, task, bufferVars, flusher, writer, channel>>

\* The replay, and for a task that was finished the status frame
Replay ==
  /\ stream.pc = "replay"
  /\ IF stream.finished THEN stream' = Closed ELSE Go("subscribe")
  /\ UNCHANGED <<prompt, rowVars, task, bufferVars, flusher, writer, channel>>

\* A task without a session gets a subscription that does nothing
Subscribe ==
  /\ stream.pc = "subscribe"
  /\ subscribed' = session
  /\ Go("check")
  /\ UNCHANGED <<prompt, rowVars, task, session, written, timer, flusher, writer, channel>>

\* Slip: the status is not read again after the subscription
CheckNothing == FALSE

FinishedSince == status = "finished"

Leave(closing) ==
  /\ closing
  /\ stream' = Closed /\ subscribed' = FALSE /\ channel' = <<>>
  /\ UNCHANGED <<prompt, rowVars, task, session, written, timer, flusher, writer>>

Check ==
  /\ stream.pc = "check"
  /\ IF FinishedSince THEN Leave(TRUE)
     ELSE /\ Go("live")
          /\ UNCHANGED <<prompt, rowVars, task, bufferVars, flusher, writer, channel>>

\* An entry is sent on, "finalized" as the status frame
Live ==
  /\ stream.pc = "live" /\ channel # <<>>
  /\ IF Head(channel) = Finalized THEN Leave(TRUE)
     ELSE /\ channel' = Tail(channel)
          /\ stream' = [stream EXCEPT !.upto = Head(channel)]
          /\ UNCHANGED <<prompt, rowVars, task, bufferVars, flusher, writer>>

StreamStep == GetOutput \/ Replay \/ Subscribe \/ Check \/ Live

\* The client goes away, or a frame takes longer than its deadline
ClientLeaves == Leave(stream.pc # "closed")

Next ==
  \/ CancelPending \/ MarkRunning \/ TaskStep
  \/ \E w \in Writer : Write(w) \/ Callback(w)
  \/ \E f \in Flusher : Fire(f) \/ FlushCopy(f) \/ FlushStore(f)
  \/ Open \/ StreamStep \/ ClientLeaves

Spec == Init /\ [][Next]_outputVars

\* A task that was picked runs to its end and the goroutines with it; nobody has to
\* write, to open a stream or to leave one.
Fairness ==
  /\ WF_outputVars(TaskStep) /\ WF_outputVars(StreamStep)
  /\ \A w \in Writer : WF_outputVars(Callback(w))
  /\ \A f \in Flusher : WF_outputVars(FlushCopy(f) \/ FlushStore(f))

FairSpec == Spec /\ Fairness

----------------------------------------------------------------------------
(* Properties *)

TypeOK ==
  /\ prompt \in BOOLEAN /\ session \in BOOLEAN /\ timer \in BOOLEAN
  /\ status \in {"pending", "running", "finished"}
  /\ written \in 0 .. MaxChunks /\ stored \in 0 .. written
  /\ \A w \in Writer : writer[w] \in 0 .. written
  /\ \A f \in Flusher : flusher[f].upto \in 0 .. written
  /\ subscribed => session /\ stream.pc \in {"check", "live"}
  /\ Len(channel) <= Room

\* What is stored once the task is over is everything its executor wrote, whatever
\* the timer stored before (Finalize), if no flush is still under way.
StoredComplete ==
  prompt /\ task = "over" /\ (\A f \in Flusher : flusher[f].pc # "holds") => stored = written

\* A stream that has subscribed to a running task gets its status and ends, also
\* when the task ends while the handler subscribes (handleTaskStream).
StreamEnds == (stream.pc = "check" /\ (subscribed \/ status = "finished")) ~> stream.pc = "closed"

\* A stream, slow or gone, does not keep its task from ending: a callback waits for
\* room only as long as there is a client (handleTaskStream).
TaskNotHeld == (task = "marked") ~> (task = "over")

----------------------------------------------------------------------------
(* A claim of the documentation that the code does not keep *)

\* "streams live entries while the task runs, then sends {type: "status"...} and
\* closes" (handleTaskStream): every stream closes once its task is over.
StreamCloses == (stream.pc # "closed" /\ task = "over") ~> stream.pc = "closed"
=============================================================================
