----------------------------- MODULE StreamsProofs -----------------------------
(***************************************************************************)
(* Proofs about the streams of MCStreams: what is stored of a task's       *)
(* output, the one hub stream with its live flag, the one sampling loop,   *)
(* terminal sessions and the sockets that open, attach to and leave them.  *)
(*                                                                         *)
(* Each part has its inductive invariant and a lemma that a step of the    *)
(* part keeps it; outside its scene a part stands still.                   *)
(***************************************************************************)
EXTENDS MCStreams, TLAPS

----------------------------------------------------------------------------
(* The output of a task *)

\* The types of the task's side: the row, the buffer, its flushes and writers
BufferTypes ==
  /\ prompt \in BOOLEAN /\ session \in BOOLEAN /\ timer \in BOOLEAN
  /\ status \in {"pending", "running", "finished"}
  /\ task \in {"waiting", "marked", "executing", "recorded", "stores", "storesAndTells",
               "tells", "over"}
  /\ written \in 0 .. MaxChunks /\ stored \in 0 .. written
  /\ writer \in [Writer -> 0 .. written]
  /\ flusher \in [Flusher -> [pc : {"idle", "fired", "holds"}, upto : 0 .. written]]

\* The types of the stream's side, and when its callback is registered
FollowTypes ==
  /\ subscribed \in BOOLEAN
  /\ stream \in [pc : {"closed", "ask", "column", "replay", "subscribe", "check", "live"},
                 finished : BOOLEAN, upto : Nat]
  /\ channel \in Seq(Nat) /\ Len(channel) <= Room
  /\ subscribed => session /\ stream.pc \in {"check", "live"}

\* The session is there from Create to Finalize and nothing is written before;
\* without it no flush holds a buffer, if Finalize overtook none; what was
\* stored last is everything
BufferStored ==
  /\ session <=> task \in {"executing", "recorded"}
  /\ task \in {"waiting", "marked"} => written = 0
  /\ prompt /\ ~session => \A f \in Flusher : flusher[f].pc # "holds"
  /\ prompt /\ task \in {"tells", "over"} => stored = written

OutputInv == BufferTypes /\ FollowTypes /\ BufferStored

\* An entry is handed over to a channel with room for it, or to nobody
LEMMA HandedOver ==
  ASSUME StreamsAssumption, FollowTypes, NEW entry \in Nat, Output!HandOver(entry)
  PROVE  channel' \in Seq(Nat) /\ Len(channel') <= Room
<1>1. CASE channel' = channel
  BY <1>1 DEF FollowTypes
<1>2. CASE Len(channel) < Room /\ channel' = Append(channel, entry)
  BY <1>2 DEF FollowTypes, StreamsAssumption
<1> QED
  BY <1>1, <1>2 DEF Output!HandOver

\* A step of the task, and of its writers
LEMMA TaskSide ==
  ASSUME StreamsAssumption, OutputInv,
         \/ Output!CancelPending \/ Output!MarkRunning \/ Output!TaskStep
         \/ \E w \in Writer : Output!Write(w) \/ Output!Callback(w)
  PROVE  OutputInv'
<1> USE DEF OutputInv, BufferTypes, BufferStored, Output!rowVars, Output!bufferVars
<1>1. CASE Output!CancelPending
  BY <1>1 DEF Output!CancelPending, FollowTypes
<1>2. CASE Output!MarkRunning
  BY <1>2 DEF Output!MarkRunning, FollowTypes
<1>3. CASE Output!Create
  BY <1>3 DEF Output!Create, FollowTypes
<1>4. CASE Output!Finish
  BY <1>4 DEF Output!Finish, FollowTypes
<1>5. CASE Output!Finalize
  BY <1>5 DEF Output!Finalize, FollowTypes
<1>6. CASE Output!Persist
  <2>1. stored' = written
    BY <1>6 DEF Output!Persist, Output!Persisted
  <2>2. task' \in {"tells", "over"} /\ FollowTypes'
    BY <1>6 DEF Output!Persist, FollowTypes
  <2>3. UNCHANGED <<prompt, status, session, written, timer, flusher, writer>>
    BY <1>6 DEF Output!Persist
  <2>4. ~session
    BY <1>6 DEF Output!Persist
  <2>5. BufferTypes'
    BY <2>1, <2>2, <2>3
  <2>6. BufferStored'
    BY <2>1, <2>2, <2>3, <2>4
  <2> QED
    BY <2>2, <2>5, <2>6
<1>7. CASE Output!Tell
  <2>1. channel' \in Seq(Nat) /\ Len(channel') <= Room
    BY <1>7, HandedOver DEF Output!Tell, Output!Finalized
  <2> QED
    BY <1>7, <2>1 DEF Output!Tell, FollowTypes
<1>8. ASSUME NEW w \in Writer, Output!Write(w)
      PROVE  OutputInv'
  <2>1. FollowTypes'
    BY <1>8 DEF Output!Write, FollowTypes
  <2>2. written' \in 0 .. MaxChunks /\ 0 .. written \subseteq 0 .. written'
    BY <1>8 DEF Output!Write, StreamsAssumption
  <2> QED
    BY <1>8, <2>1, <2>2 DEF Output!Write
<1>9. ASSUME NEW w \in Writer, Output!Callback(w)
      PROVE  OutputInv'
  <2>1. Output!HandOver(writer[w]) /\ writer[w] \in Nat
    BY <1>9 DEF Output!Callback
  <2>2. channel' \in Seq(Nat) /\ Len(channel') <= Room
    BY <2>1, HandedOver
  <2>3. FollowTypes'
    BY <1>9, <2>2 DEF Output!Callback, FollowTypes
  <2> QED
    BY <1>9, <2>3 DEF Output!Callback
<1> QED
  BY <1>1, <1>2, <1>3, <1>4, <1>5, <1>6, <1>7, <1>8, <1>9 DEF Output!TaskStep

\* A step of a flush
LEMMA FlushSide ==
  ASSUME OutputInv, NEW f \in Flusher,
         Output!Fire(f) \/ Output!FlushCopy(f) \/ Output!FlushStore(f)
  PROVE  OutputInv'
<1> USE DEF OutputInv, BufferTypes, Output!rowVars, Output!bufferVars
<1>0. FollowTypes'
  BY DEF Output!Fire, Output!FlushCopy, Output!FlushStore, FollowTypes
<1>1. CASE Output!Fire(f)
  BY <1>0, <1>1 DEF Output!Fire, BufferStored
<1>2. CASE Output!FlushCopy(f)
  <2>1. UNCHANGED <<prompt, status, task, session, written, stored, writer>>
    BY <1>2 DEF Output!FlushCopy
  <2>2. timer' \in BOOLEAN
    BY <1>2 DEF Output!FlushCopy
  <2>3. CASE session
    BY <1>0, <1>2, <2>1, <2>2, <2>3 DEF Output!FlushCopy, BufferStored
  <2>4. CASE ~session
    BY <1>0, <1>2, <2>1, <2>2, <2>4 DEF Output!FlushCopy, Output!Resting, BufferStored
  <2> QED
    BY <2>3, <2>4
<1>3. CASE Output!FlushStore(f)
  <2>1. UNCHANGED <<prompt, status, task, session, written, timer, writer>>
    BY <1>3 DEF Output!FlushStore
  <2>2. stored' \in 0 .. written
    BY <1>3 DEF Output!FlushStore, Output!Persisted
  <2>3. flusher' \in [Flusher -> [pc : {"idle", "fired", "holds"}, upto : 0 .. written]]
    BY <1>3 DEF Output!FlushStore, Output!Resting
  <2>4. \A g \in Flusher : flusher[g].pc # "holds" => flusher'[g].pc # "holds"
    BY <1>3 DEF Output!FlushStore, Output!Resting
  <2>5. prompt => session
    BY <1>3 DEF Output!FlushStore, BufferStored
  <2> QED
    BY <1>0, <2>1, <2>2, <2>3, <2>4, <2>5 DEF BufferStored
<1> QED
  BY <1>1, <1>2, <1>3

\* A step of the handler that follows, and of its client, as far as it is about
\* the stream
LEMMA StreamSide ==
  ASSUME FollowTypes, Room \in Nat, written \in Nat, stored \in Nat, session \in BOOLEAN,
         Output!Open \/ Output!StreamStep \/ Output!ClientLeaves
  PROVE  FollowTypes'
<1> USE DEF Output!rowVars, Output!bufferVars, Output!Go
<1>1. ASSUME NEW STATE closing, Output!Leave(closing)
      PROVE  FollowTypes'
  <2>1. /\ stream' = [pc |-> "closed", finished |-> FALSE, upto |-> 0]
        /\ ~subscribed' /\ subscribed' \in BOOLEAN /\ channel' = <<>>
    BY <1>1 DEF Output!Leave, Output!Closed
  <2>2. channel' \in Seq(Nat) /\ Len(channel') <= Room
    BY <2>1
  <2> QED
    BY <2>1, <2>2 DEF FollowTypes
<1>2. CASE Output!Open
  <2>1. channel' = <<>> /\ UNCHANGED <<session, subscribed>> /\ ~subscribed
    BY <1>2 DEF Output!Open, FollowTypes
  <2>2. stream' = [pc |-> "ask", finished |-> (status = "finished"), upto |-> 0]
    BY <1>2 DEF Output!Open, Output!Closed
  <2> QED
    BY <2>1, <2>2 DEF FollowTypes
<1>3. CASE Output!GetOutput
  BY <1>3 DEF Output!GetOutput, FollowTypes
<1>4. CASE Output!Replay
  <2>1. UNCHANGED <<session, subscribed, channel>> /\ ~subscribed
    BY <1>4 DEF Output!Replay, FollowTypes
  <2>2. CASE stream' = [pc |-> "closed", finished |-> FALSE, upto |-> 0]
    BY <2>1, <2>2 DEF FollowTypes
  <2>3. CASE stream' = [stream EXCEPT !.pc = "subscribe"]
    BY <2>1, <2>3 DEF FollowTypes
  <2> QED
    BY <1>4, <2>2, <2>3 DEF Output!Replay, Output!Closed
<1>5. CASE Output!Subscribe
  <2>1. stream'.pc = "check" /\ subscribed' = session /\ UNCHANGED <<session, channel>>
    BY <1>5 DEF Output!Subscribe, FollowTypes
  <2>2. stream' \in [pc : {"closed", "ask", "column", "replay", "subscribe", "check", "live"},
                     finished : BOOLEAN, upto : Nat]
    BY <1>5 DEF Output!Subscribe, FollowTypes
  <2> QED
    BY <2>1, <2>2 DEF FollowTypes
<1>6. CASE Output!Check
  BY <1>1, <1>6 DEF Output!Check, FollowTypes
<1>7. CASE Output!Live
  <2>1. CASE Output!Leave(TRUE)
    BY <1>1, <2>1
  <2>2. CASE /\ channel # <<>> /\ channel' = Tail(channel)
             /\ stream' = [stream EXCEPT !.upto = Head(channel)]
             /\ UNCHANGED <<session, subscribed>>
    <3>1. channel' \in Seq(Nat) /\ Len(channel') <= Room /\ Head(channel) \in Nat
      BY <2>2 DEF FollowTypes
    <3> QED
      BY <2>2, <3>1 DEF FollowTypes
  <2> QED
    BY <1>7, <2>1, <2>2 DEF Output!Live
<1>8. CASE Output!ClientLeaves
  BY <1>1, <1>8 DEF Output!ClientLeaves
<1> QED
  BY <1>2, <1>3, <1>4, <1>5, <1>6, <1>7, <1>8 DEF Output!StreamStep

\* ... and it leaves the task's side alone
LEMMA FollowSide ==
  ASSUME StreamsAssumption, OutputInv,
         Output!Open \/ Output!StreamStep \/ Output!ClientLeaves
  PROVE  OutputInv'
<1>1. /\ UNCHANGED <<prompt, status, stored, task, session, written, timer>>
      /\ UNCHANGED <<flusher, writer>>
  BY DEF Output!Open, Output!StreamStep, Output!ClientLeaves, Output!GetOutput,
         Output!Replay, Output!Subscribe, Output!Check, Output!Live, Output!Leave,
         Output!rowVars, Output!bufferVars
<1>2. BufferTypes' /\ BufferStored'
  BY <1>1 DEF OutputInv, BufferTypes, BufferStored
<1>3. written \in Nat /\ stored \in Nat /\ session \in BOOLEAN
  BY DEF OutputInv, BufferTypes, StreamsAssumption
<1>4. FollowTypes'
  BY <1>3, StreamSide DEF OutputInv, StreamsAssumption
<1> QED
  BY <1>2, <1>4 DEF OutputInv

LEMMA OutputStep ==
  ASSUME StreamsAssumption, OutputInv, Output!Next \/ UNCHANGED outputVars
  PROVE  OutputInv'
<1>1. CASE UNCHANGED outputVars
  BY <1>1 DEF outputVars, OutputInv, BufferTypes, FollowTypes, BufferStored
<1> QED
  BY <1>1, TaskSide, FlushSide, FollowSide DEF Output!Next

----------------------------------------------------------------------------
(* The hub stream *)

RunPc == {"idle", "open", "opened", "read", "dropped", "terminated", "sleep", "end"}
Reading == {"read", "dropped", "terminated"}

RelayTypes ==
  /\ spaced \in BOOLEAN /\ signedIn \in BOOLEAN /\ live \in BOOLEAN /\ stopped \in BOOLEAN
  /\ listeners \in 0 .. MaxListeners /\ due \in Nat
  /\ cancel \in Run \cup {"none"}
  /\ run \in [Run -> [pc : RunPc, cancelled : BOOLEAN]]

\* With the runs spaced there is one at most, and the live flag is its own
Spaced ==
  spaced =>
    /\ \A q, r \in Run : run[q].pc # "idle" /\ run[r].pc # "idle" => q = r
    /\ live <=> \E r \in Run : run[r].pc \in Reading

RelayInv == RelayTypes /\ Hub!OneStream /\ Spaced

\* A subscriber, a sign-in or its end touches no run
LEMMA WantedSide ==
  ASSUME StreamsAssumption, RelayInv,
         Hub!Listen \/ Hub!Unlisten \/ Hub!SignIn \/ Hub!SignOut
  PROVE  RelayInv'
<1>1. UNCHANGED <<spaced, cancel, run, live, stopped>> /\ signedIn' \in BOOLEAN
  BY DEF Hub!Listen, Hub!Unlisten, Hub!SignIn, Hub!SignOut, RelayInv, RelayTypes
<1>2. listeners' \in 0 .. MaxListeners /\ due' \in Nat
  BY DEF Hub!Listen, Hub!Unlisten, Hub!SignIn, Hub!SignOut, Hub!Announced, RelayInv,
         RelayTypes, StreamsAssumption
<1> QED
  BY <1>1, <1>2 DEF RelayInv, RelayTypes, Hub!OneStream, Spaced

LEMMA SyncSide ==
  ASSUME StreamsAssumption, RelayInv, Hub!Sync
  PROVE  RelayInv'
<1>1. UNCHANGED <<spaced, listeners, signedIn, live, stopped>> /\ due' \in Nat
  BY DEF Hub!Sync, RelayInv, RelayTypes
<1>2. ASSUME NEW r \in Run, run[r].pc = "idle", cancel = "none", cancel' = r,
             spaced => \A q \in Run : run[q].pc = "idle",
             run' = [run EXCEPT ![r] = [pc |-> "open", cancelled |-> FALSE]]
      PROVE  RelayInv'
  <2>1. RelayTypes'
    BY <1>1, <1>2 DEF RelayInv, RelayTypes, RunPc
  <2>2. \A q \in Run : q # r => run'[q] = run[q]
    BY <1>2 DEF RelayInv, RelayTypes
  <2>3. run'[r] = [pc |-> "open", cancelled |-> FALSE]
    BY <1>2 DEF RelayInv, RelayTypes
  <2>4. Hub!OneStream'
    BY <1>2, <2>2, <2>3 DEF RelayInv, Hub!OneStream, StreamsAssumption
  <2>5. Spaced'
    BY <1>1, <1>2, <2>2, <2>3 DEF RelayInv, Spaced, Reading
  <2> QED
    BY <2>1, <2>4, <2>5 DEF RelayInv
<1>3. ASSUME cancel # "none", cancel' = "none",
             run' = [run EXCEPT ![cancel].cancelled = TRUE]
      PROVE  RelayInv'
  <2>1. cancel \in Run
    BY <1>3 DEF RelayInv, RelayTypes
  <2>2. RelayTypes'
    BY <1>1, <1>3, <2>1 DEF RelayInv, RelayTypes
  <2>3. \A q \in Run : run'[q].pc = run[q].pc
    BY <1>3, <2>1 DEF RelayInv, RelayTypes
  <2>4. run'[cancel].cancelled /\ \A q \in Run : q # cancel => run'[q] = run[q]
    BY <1>3, <2>1 DEF RelayInv, RelayTypes
  <2>5. Hub!OneStream'
    BY <1>3, <2>1, <2>3, <2>4 DEF RelayInv, Hub!OneStream, StreamsAssumption
  <2>6. Spaced'
    BY <1>1, <2>3 DEF RelayInv, Spaced
  <2> QED
    BY <2>2, <2>5, <2>6 DEF RelayInv
<1>4. CASE UNCHANGED <<run, cancel>>
  BY <1>1, <1>4 DEF RelayInv, RelayTypes, Hub!OneStream, Spaced
<1> QED
  BY <1>2, <1>3, <1>4 DEF Hub!Sync, Hub!NoRun, Hub!None

LEMMA StopSide ==
  ASSUME StreamsAssumption, RelayInv, Hub!StopAll
  PROVE  RelayInv'
<1>1. UNCHANGED <<spaced, listeners, due, signedIn, live>> /\ stopped' \in BOOLEAN
      /\ cancel' = "none"
  BY DEF Hub!StopAll, Hub!None
<1>2. ASSUME NEW q \in Run
      PROVE  /\ run'[q] \in [pc : RunPc, cancelled : BOOLEAN]
             /\ run'[q].pc = run[q].pc
             /\ run[q].pc # "idle" => run'[q].cancelled
  BY DEF Hub!StopAll, RelayInv, RelayTypes
<1>3. RelayTypes'
  BY <1>1, <1>2 DEF Hub!StopAll, RelayInv, RelayTypes
<1>4. Hub!OneStream'
  BY <1>1, <1>2 DEF Hub!OneStream, StreamsAssumption
<1>5. Spaced'
  BY <1>1, <1>2 DEF RelayInv, Spaced
<1> QED
  BY <1>3, <1>4, <1>5 DEF RelayInv

\* A run that goes on stays who it is
LEMMA RunGoes ==
  ASSUME RelayInv, NEW r \in Run, NEW pc \in RunPc \ {"idle"}, Hub!Go(r, pc),
         run[r].pc # "idle", UNCHANGED <<spaced, listeners, due, cancel, stopped>>,
         signedIn' \in BOOLEAN, live' \in BOOLEAN,
         spaced => (live' <=> IF run[r].pc \in Reading <=> pc \in Reading THEN live
                                                           ELSE pc \in Reading)
  PROVE  RelayInv'
<1>1. run'[r].pc = pc /\ run'[r].cancelled = run[r].cancelled
  BY DEF Hub!Go, RelayInv, RelayTypes
<1>2. \A q \in Run : q # r => run'[q] = run[q]
  BY DEF Hub!Go, RelayInv, RelayTypes
<1>3. RelayTypes'
  BY DEF Hub!Go, RelayInv, RelayTypes
<1>4. Hub!OneStream'
  BY <1>1, <1>2 DEF RelayInv, Hub!OneStream
<1>5. ASSUME spaced
      PROVE  /\ \A p, q \in Run : run'[p].pc # "idle" /\ run'[q].pc # "idle" => p = q
             /\ live' <=> \E q \in Run : run'[q].pc \in Reading
  <2>1. \A q \in Run : q # r => run[q].pc = "idle"
    BY <1>5 DEF RelayInv, Spaced
  <2>2. \A q \in Run : run[q].pc \in Reading <=> q = r /\ run[r].pc \in Reading
    BY <2>1 DEF Reading
  <2>3. \A q \in Run : run'[q].pc \in Reading <=> q = r /\ pc \in Reading
    BY <1>1, <1>2, <2>2
  <2>4. live <=> run[r].pc \in Reading
    BY <1>5, <2>2 DEF RelayInv, Spaced
  <2> QED
    BY <1>2, <1>5, <2>1, <2>3, <2>4
<1> QED
  BY <1>3, <1>4, <1>5 DEF RelayInv, Spaced

LEMMA RunSide ==
  ASSUME StreamsAssumption, RelayInv, NEW r \in Run, Hub!RunStep(r) \/ Hub!ReadEnds(r)
  PROVE  RelayInv'
<1> USE DEF RunPc, Reading
<1>0. live \in BOOLEAN /\ signedIn \in BOOLEAN
  BY DEF RelayInv, RelayTypes
<1>1. CASE Hub!Open(r)
  BY <1>0, <1>1, RunGoes DEF Hub!Open
<1>2. CASE Hub!SetLive(r)
  BY <1>0, <1>2, RunGoes DEF Hub!SetLive
<1>3. CASE Hub!ReadEnds(r)
  BY <1>0, <1>3, RunGoes DEF Hub!ReadEnds
<1>4. CASE Hub!UnsetLive(r)
  BY <1>0, <1>4, RunGoes DEF Hub!UnsetLive, Hub!Deferred
<1>5. CASE Hub!Wake(r)
  BY <1>0, <1>5, RunGoes DEF Hub!Wake
<1>6. CASE Hub!End(r)
  <2>1. run'[r] = [pc |-> "idle", cancelled |-> FALSE] /\ run[r].pc = "end"
    BY <1>6 DEF Hub!End, Hub!NoRun, RelayInv, RelayTypes
  <2>2. \A q \in Run : q # r => run'[q] = run[q]
    BY <1>6 DEF Hub!End, RelayInv, RelayTypes
  <2>3. UNCHANGED <<spaced, listeners, due, signedIn, live, stopped>>
    BY <1>6 DEF Hub!End
  <2>4. cancel' = IF run[r].cancelled THEN cancel ELSE "none"
    BY <1>6 DEF Hub!End, Hub!StillCurrent, Hub!None
  <2>5. RelayTypes'
    BY <1>6, <2>3, <2>4 DEF Hub!End, Hub!NoRun, RelayInv, RelayTypes
  <2>6. Hub!OneStream'
    BY <2>1, <2>2, <2>4 DEF RelayInv, Hub!OneStream, StreamsAssumption
  <2>7. Spaced'
    BY <2>1, <2>2, <2>3 DEF RelayInv, Spaced
  <2> QED
    BY <2>5, <2>6, <2>7 DEF RelayInv
<1> QED
  BY <1>1, <1>2, <1>3, <1>4, <1>5, <1>6 DEF Hub!RunStep

LEMMA RelayStep ==
  ASSUME StreamsAssumption, RelayInv, Hub!Next \/ UNCHANGED relayVars
  PROVE  RelayInv'
<1>1. CASE UNCHANGED relayVars
  BY <1>1 DEF relayVars, RelayInv, RelayTypes, Hub!OneStream, Spaced
<1> QED
  BY <1>1, WantedSide, SyncSide, StopSide, RunSide DEF Hub!Next

----------------------------------------------------------------------------
(* The sampling loop *)

SamplingTypes ==
  /\ watchers \in 0 .. MaxWatchers /\ dues \in [topic : Nat, save : Nat]
  /\ setting \in 0 .. MaxSaves
  /\ call \in [pc : {"none", "read", "start", "stop", "restart", "wait", "waitToRestart"},
               reread : BOOLEAN, interval : 0 .. MaxSaves]
  /\ sampler \in [running : BOOLEAN, interval : 0 .. MaxSaves, loop : Loop \cup {"none"}]
  /\ loop \in [Loop -> [pc : {"none", "sample", "wait"}, interval : 0 .. MaxSaves,
                        stopped : BOOLEAN]]

\* Nothing loops but the loop that was started last; it has not been told to stop as
\* long as the sampler runs, and once told it is waited for
SoleLoop ==
  /\ \A l \in Loop : loop[l].pc # "none" => sampler.loop = l
  /\ sampler.running =>
       /\ sampler.loop \in Loop
       /\ loop[sampler.loop].pc # "none" /\ ~loop[sampler.loop].stopped
  /\ call.pc \in {"wait", "waitToRestart"} => ~sampler.running /\ sampler.loop \in Loop
  /\ sampler.running \/ call.pc \in {"wait", "waitToRestart"} \/ \A l \in Loop : loop[l].pc = "none"

SamplingInv == SamplingTypes /\ SoleLoop

\* Subscribers and saves touch no loop
LEMMA WatchSide ==
  ASSUME StreamsAssumption, SamplingInv, Live!Watch \/ Live!Unwatch \/ Live!Save
  PROVE  SamplingInv'
<1>1. UNCHANGED <<call, sampler, loop>>
  BY DEF Live!Watch, Live!Unwatch, Live!Save
<1>2. watchers' \in 0 .. MaxWatchers /\ setting' \in 0 .. MaxSaves
  BY DEF Live!Watch, Live!Unwatch, Live!Save, SamplingInv, SamplingTypes, StreamsAssumption
<1>3. dues' \in [topic : Nat, save : Nat]
  BY DEF Live!Watch, Live!Unwatch, Live!Save, SamplingInv, SamplingTypes
<1> QED
  BY <1>1, <1>2, <1>3 DEF SamplingInv, SamplingTypes, SoleLoop

LEMMA CallSide ==
  ASSUME StreamsAssumption, SamplingInv, Live!CallStep
  PROVE  SamplingInv'
<1> USE DEF SamplingInv, SamplingTypes
<1>0. 0 \in 0 .. MaxSaves
  BY DEF StreamsAssumption
<1>1. ASSUME NEW from \in {"topic", "save"}, Live!Enter(from)
      PROVE  SamplingInv'
  <2>1. UNCHANGED <<watchers, setting, sampler, loop>> /\ dues' \in [topic : Nat, save : Nat]
    BY <1>1 DEF Live!Enter
  <2>2. call.pc = "none" /\ call'.pc \in {"read", "stop"}
    BY <1>1 DEF Live!Enter, Live!NoCall
  <2>3. SamplingTypes'
    BY <1>0, <1>1, <2>1 DEF Live!Enter, Live!NoCall
  <2> QED
    BY <2>1, <2>2, <2>3 DEF SoleLoop
<1>2. CASE Live!ReadInterval
  <2>1. UNCHANGED <<watchers, dues, setting, sampler, loop>>
    BY <1>2 DEF Live!ReadInterval
  <2>2. call.pc = "read" /\ call'.pc \in {"restart", "start"}
    BY <1>2 DEF Live!ReadInterval
  <2>3. SamplingTypes'
    BY <1>2, <2>1 DEF Live!ReadInterval
  <2> QED
    BY <2>1, <2>2, <2>3 DEF SoleLoop
<1>3. CASE Live!StopLoop /\ sampler.running
  <2>1. UNCHANGED <<watchers, dues, setting>> /\ sampler.loop \in Loop
    BY <1>3 DEF Live!StopLoop, SoleLoop
  <2>2. /\ sampler' = [sampler EXCEPT !.running = FALSE]
        /\ loop' = [loop EXCEPT ![sampler.loop].stopped = TRUE]
        /\ call' \in {[call EXCEPT !.pc = "wait"], [call EXCEPT !.pc = "waitToRestart"]}
    BY <1>3 DEF Live!StopLoop
  <2>3. call'.pc \in {"wait", "waitToRestart"} /\ ~sampler'.running /\ sampler'.loop = sampler.loop
    BY <2>2
  <2>4. \A l \in Loop : loop'[l].pc = loop[l].pc
    BY <2>1, <2>2
  <2>5. call' \in [pc : {"none", "read", "start", "stop", "restart", "wait", "waitToRestart"},
                   reread : BOOLEAN, interval : 0 .. MaxSaves]
    BY <2>2
  <2>6. SamplingTypes'
    <3>1. sampler' \in [running : BOOLEAN, interval : 0 .. MaxSaves, loop : Loop \cup {"none"}]
      BY <2>2
    <3>2. loop' \in [Loop -> [pc : {"none", "sample", "wait"}, interval : 0 .. MaxSaves,
                             stopped : BOOLEAN]]
      <4>1. loop[sampler.loop]
              \in [pc : {"none", "sample", "wait"}, interval : 0 .. MaxSaves, stopped : BOOLEAN]
        BY <2>1
      <4>2. [loop[sampler.loop] EXCEPT !.stopped = TRUE]
              \in [pc : {"none", "sample", "wait"}, interval : 0 .. MaxSaves, stopped : BOOLEAN]
        BY <4>1
      <4> QED
        BY <2>1, <2>2, <4>2
    <3> QED
      BY <2>1, <2>5, <3>1, <3>2
  <2>7. SoleLoop'
    <3>1. \A l \in Loop : loop'[l].pc # "none" => sampler'.loop = l
      BY <2>3, <2>4 DEF SoleLoop
    <3> QED
      BY <2>1, <2>3, <3>1 DEF SoleLoop
  <2> QED
    BY <2>6, <2>7
<1>4. CASE Live!StopLoop /\ ~sampler.running
  <2>1. UNCHANGED <<watchers, dues, setting, sampler, loop>>
    BY <1>4 DEF Live!StopLoop
  <2>2. call.pc \in {"stop", "restart"} /\ call'.pc \in {"none", "start"}
    BY <1>4 DEF Live!StopLoop, Live!NoCall
  <2>3. SamplingTypes'
    <3>1. CASE call' = [call EXCEPT !.pc = "start"]
      BY <2>1, <3>1
    <3>2. CASE call' = [pc |-> "none", reread |-> FALSE, interval |-> 0]
      BY <1>0, <2>1, <3>2
    <3> QED
      BY <1>4, <3>1, <3>2 DEF Live!StopLoop, Live!NoCall
  <2> QED
    BY <2>1, <2>2, <2>3 DEF SoleLoop
<1>5. CASE Live!StopReturns
  <2>1. UNCHANGED <<watchers, dues, setting, sampler, loop>>
    BY <1>5 DEF Live!StopReturns
  <2>2. ~sampler.running /\ \A l \in Loop : loop[l].pc = "none"
    BY <1>5 DEF Live!StopReturns, Live!Done, SoleLoop
  <2>3. call'.pc \in {"none", "start"}
    BY <1>5 DEF Live!StopReturns, Live!NoCall
  <2>4. SamplingTypes'
    BY <1>0, <1>5, <2>1 DEF Live!StopReturns, Live!NoCall
  <2> QED
    BY <2>1, <2>2, <2>3, <2>4 DEF SoleLoop
<1>6. CASE Live!StartLoop
  <2>1. UNCHANGED <<watchers, dues, setting>>
    BY <1>6 DEF Live!StartLoop
  <2>2. call' = [pc |-> "none", reread |-> FALSE, interval |-> 0] /\ call.pc = "start"
    BY <1>6 DEF Live!StartLoop, Live!NoCall
  <2>3. CASE UNCHANGED <<sampler, loop>>
    BY <1>0, <1>6, <2>1, <2>2, <2>3 DEF SoleLoop
  <2>4. ASSUME NEW l \in Loop, ~sampler.running,
               sampler' = [running |-> TRUE, interval |-> call.interval, loop |-> l],
               loop' = [loop EXCEPT ![l] = [Live!NoLoop EXCEPT !.pc = "sample",
                                                               !.interval = call.interval]]
        PROVE  SamplingInv'
    <3>1. \A k \in Loop : loop[k].pc = "none"
      BY <2>2, <2>4 DEF SoleLoop
    <3>2. loop'[l].pc = "sample" /\ ~loop'[l].stopped /\ \A k \in Loop : k # l => loop'[k] = loop[k]
      BY <2>4 DEF Live!NoLoop
    <3>3. sampler'.running /\ sampler'.loop = l
      BY <2>4
    <3>4. SamplingTypes'
      BY <1>0, <2>1, <2>2, <2>4 DEF Live!NoLoop
    <3>5. call'.pc = "none"
      BY <2>2
    <3>6. SoleLoop'
      <4>1. \A k \in Loop : loop'[k].pc # "none" => k = l
        BY <3>1, <3>2
      <4> QED
        BY <3>2, <3>3, <3>5, <4>1 DEF SoleLoop
    <3> QED
      BY <3>4, <3>6
  <2>5. CASE sampler.running
    BY <1>6, <2>3, <2>5 DEF Live!StartLoop
  <2>6. CASE ~sampler.running
    <3>1. PICK l \in Loop :
            /\ sampler' = [running |-> TRUE, interval |-> call.interval, loop |-> l]
            /\ loop' = [loop EXCEPT ![l] = [Live!NoLoop EXCEPT !.pc = "sample",
                                                              !.interval = call.interval]]
      BY <1>6, <2>6 DEF Live!StartLoop
    <3> QED
      BY <2>4, <2>6, <3>1
  <2> QED
    BY <2>5, <2>6
<1> QED
  BY <1>1, <1>2, <1>3, <1>4, <1>5, <1>6 DEF Live!CallStep

LEMMA LoopSide ==
  ASSUME StreamsAssumption, SamplingInv, NEW l \in Loop,
         Live!Sample(l) \/ Live!Tick(l) \/ Live!Return(l)
  PROVE  SamplingInv'
<1>1. UNCHANGED <<setting, call, sampler>>
  BY DEF Live!Sample, Live!Tick, Live!Return
<1>2. watchers' \in 0 .. MaxWatchers /\ dues' \in [topic : Nat, save : Nat]
  BY DEF Live!Sample, Live!Tick, Live!Return, SamplingInv, SamplingTypes, StreamsAssumption
<1>0. 0 \in 0 .. MaxSaves
  BY DEF StreamsAssumption
<1>3. /\ \A k \in Loop : k # l => loop'[k] = loop[k]
      /\ loop[l].pc # "none"
      /\ loop' \in [Loop -> [pc : {"none", "sample", "wait"}, interval : 0 .. MaxSaves,
                             stopped : BOOLEAN]]
  <2>1. \/ \E pc \in {"sample", "wait"} : loop' = [loop EXCEPT ![l].pc = pc]
        \/ loop' = [loop EXCEPT ![l] = [pc |-> "none", interval |-> 0, stopped |-> FALSE]]
    BY DEF Live!Sample, Live!Tick, Live!Return, Live!NoLoop
  <2>2. loop[l].pc # "none"
    BY DEF Live!Sample, Live!Tick, Live!Return
  <2>3. ASSUME NEW pc \in {"sample", "wait"}, loop' = [loop EXCEPT ![l].pc = pc]
        PROVE  /\ \A k \in Loop : k # l => loop'[k] = loop[k]
               /\ loop' \in [Loop -> [pc : {"none", "sample", "wait"},
                                      interval : 0 .. MaxSaves, stopped : BOOLEAN]]
    BY <2>3 DEF SamplingInv, SamplingTypes
  <2>4. CASE loop' = [loop EXCEPT ![l] = [pc |-> "none", interval |-> 0, stopped |-> FALSE]]
    BY <1>0, <2>2, <2>4 DEF SamplingInv, SamplingTypes
  <2> QED
    BY <2>1, <2>2, <2>3, <2>4
<1>4. SamplingTypes'
  BY <1>1, <1>2, <1>3 DEF SamplingInv, SamplingTypes
<1>5. CASE loop'[l].pc # "none" /\ loop'[l].stopped = loop[l].stopped
  BY <1>1, <1>3, <1>4, <1>5 DEF SamplingInv, SoleLoop
<1>6. CASE loop[l].stopped /\ loop'[l].pc = "none"
  BY <1>1, <1>3, <1>4, <1>6 DEF SamplingInv, SoleLoop
<1>7. \/ loop'[l].pc # "none" /\ loop'[l].stopped = loop[l].stopped
      \/ loop[l].stopped /\ loop'[l].pc = "none"
  BY DEF Live!Sample, Live!Tick, Live!Return, Live!NoLoop, SamplingInv, SamplingTypes
<1> QED
  BY <1>5, <1>6, <1>7

LEMMA SamplingStep ==
  ASSUME StreamsAssumption, SamplingInv, Live!Next \/ UNCHANGED samplingVars
  PROVE  SamplingInv'
<1>1. CASE UNCHANGED samplingVars
  BY <1>1 DEF samplingVars, SamplingInv, SamplingTypes, SoleLoop
<1> QED
  BY <1>1, WatchSide, CallSide, LoopSide DEF Live!Next

----------------------------------------------------------------------------
(* The terminals *)

Session == Terminal!Session
SocketPc == {"off", "enter", "dial", "dialed", "failing", "attach", "attached"}

TermRecord ==
  [status : {"absent", "connecting", "active", "closed", "failed"}, shell : BOOLEAN,
   done : BOOLEAN, latest : Socket \cup {"none"}, sends : BOOLEAN]

TermTypes ==
  /\ gentle \in BOOLEAN /\ panicked \in BOOLEAN
  /\ term \in [Session -> TermRecord]
  /\ watcher \in [Session -> {"none", "new", "waits"}]
  /\ exited \in [Session -> Nat] /\ ended \in [Session -> Nat]
  /\ socket \in [Socket -> [pc : SocketPc, of : Session \cup {"none"}]]

\* A socket opens the shell of s, under startMu; the shell it asked for failed
Dials(k, s) == socket[k].of = s /\ socket[k].pc \in {"dial", "dialed"}
Fails(k, s) == socket[k].of = s /\ socket[k].pc = "failing"

\* A socket is of a session, only a machine's needs its shell opened, and startMu
\* lets one socket do it
SocketInv ==
  /\ \A k \in Socket : socket[k].pc # "off" => socket[k].of \in Session
  /\ \A k \in Socket : socket[k].pc \in {"enter", "dial", "dialed", "failing"}
       => socket[k].of \in Ssh
  /\ \A s \in Session : \A j, k \in Socket : Dials(j, s) /\ Dials(k, s) => j = k

\* The link has a writer, and the last socket attached is it
LinkInv ==
  /\ \A s \in Session : term[s].sends => term[s].latest \in Socket
  /\ Terminal!LatestReceives

\* A session that is over was ended once and has no shell; a shell has a watcher, or
\* its end is still to be seen; while a shell is opened the session is not over
SessionInv(s) ==
  /\ term[s].done <=> term[s].status = "closed"
  /\ term[s].shell => term[s].status \notin {"absent", "closed"}
  /\ ended[s] = IF term[s].done THEN 1 ELSE 0
  /\ watcher[s] # "none" => term[s].shell /\ exited[s] = 0
  /\ exited[s] > 0 => term[s].shell \/ term[s].done
  /\ \A k \in Socket : Dials(k, s) \/ Fails(k, s) => ~term[s].done /\ exited[s] = 0
  /\ \A k \in Socket : Dials(k, s) => ~term[s].shell

TerminalInv ==
  /\ TermTypes /\ SocketInv /\ LinkInv
  /\ gentle => ~panicked /\ \A s \in Session : SessionInv(s)

\* close ends a session that is open, and leaves one that is not
LEMMA Closing ==
  ASSUME TermTypes, NEW s \in Session, Terminal!Close(s)
  PROVE  /\ panicked' \in BOOLEAN
         /\ term' \in [Session -> TermRecord]
         /\ ended' \in [Session -> Nat]
         /\ \A t \in Session : t # s => term'[t] = term[t] /\ ended'[t] = ended[t]
         /\ \A t \in Session : term'[t].sends = term[t].sends /\ term'[t].latest = term[t].latest
         /\ Terminal!Open(s) =>
              /\ term'[s].status = "closed" /\ ~term'[s].shell /\ term'[s].done
              /\ ended'[s] = ended[s] + 1 /\ panicked' = term[s].done
         /\ ~Terminal!Open(s) => UNCHANGED <<term, panicked, ended>>
<1>1. CASE Terminal!Open(s)
  <2>1. /\ term' = [term EXCEPT ![s].status = "closed", ![s].shell = FALSE, ![s].done = TRUE]
        /\ panicked' = term[s].done
        /\ ended' = [ended EXCEPT ![s] = @ + 1]
    BY <1>1 DEF Terminal!Close
  <2>2. term[s].done \in BOOLEAN
    BY DEF TermTypes, TermRecord
  <2>3. /\ ended' \in [Session -> Nat] /\ ended'[s] = ended[s] + 1
        /\ \A t \in Session : t # s => ended'[t] = ended[t]
    BY <2>1 DEF TermTypes
  <2>4. term' \in [Session -> TermRecord]
    <3>1. term[s] \in TermRecord
      BY DEF TermTypes
    <3>2. [term[s] EXCEPT !.status = "closed", !.shell = FALSE, !.done = TRUE] \in TermRecord
      BY <3>1 DEF TermRecord
    <3>3. term' = [term EXCEPT ![s] = [term[s] EXCEPT !.status = "closed", !.shell = FALSE,
                                                      !.done = TRUE]]
      BY <2>1 DEF TermTypes, TermRecord
    <3> QED
      BY <3>2, <3>3 DEF TermTypes
  <2>5. \A t \in Session : t # s => term'[t] = term[t]
    BY <2>1 DEF TermTypes
  <2>6. /\ term'[s].status = "closed" /\ term'[s].shell = FALSE /\ term'[s].done = TRUE
        /\ term'[s].sends = term[s].sends /\ term'[s].latest = term[s].latest
    BY <2>1 DEF TermTypes, TermRecord
  <2> QED
    BY <1>1, <2>1, <2>2, <2>3, <2>4, <2>5, <2>6
<1>2. CASE ~Terminal!Open(s)
  BY <1>2 DEF Terminal!Close, TermTypes
<1> QED
  BY <1>1, <1>2

\* A step that is about one session leaves the others alone
LEMMA OtherSessions ==
  ASSUME NEW s \in Session, NEW t \in Session, t # s, SessionInv(t), UNCHANGED socket,
         term'[t] = term[t], watcher'[t] = watcher[t], exited'[t] = exited[t],
         ended'[t] = ended[t]
  PROVE  SessionInv(t)'
BY DEF SessionInv, Dials, Fails

\* The links and the sockets, when neither the sockets nor the links changed
LEMMA SameLinks ==
  ASSUME SocketInv, LinkInv, UNCHANGED socket,
         \A k \in Socket : socket[k].pc # "off" => socket[k].of \in Session,
         \A t \in Session : term'[t].sends = term[t].sends /\ term'[t].latest = term[t].latest
  PROVE  SocketInv' /\ LinkInv'
<1>1. SocketInv'
  BY DEF SocketInv, Dials
<1>2. ASSUME NEW k \in Socket, socket[k].pc = "attached", term'[socket[k].of].latest = k
      PROVE  term'[socket[k].of].sends
  BY <1>2 DEF LinkInv, Terminal!LatestReceives
<1>3. LinkInv'
  BY <1>2 DEF LinkInv, Terminal!LatestReceives
<1> QED
  BY <1>1, <1>3

\* DELETE .../stop, a revoked key, the end of the agent
LEMMA StopSession ==
  ASSUME TerminalInv, NEW s \in Session, Terminal!Stop(s)
  PROVE  TerminalInv'
<1>1. UNCHANGED <<gentle, socket>> /\ Terminal!Close(s)
  BY DEF Terminal!Stop
<1>2. TermTypes
  BY DEF TerminalInv
<1>3. \/ /\ term[s].shell /\ watcher[s] = "waits"
         /\ watcher' = [watcher EXCEPT ![s] = "none"]
         /\ exited' = [exited EXCEPT ![s] = @ + 1]
      \/ ~(term[s].shell /\ watcher[s] = "waits") /\ UNCHANGED <<watcher, exited>>
  BY DEF Terminal!Stop, Terminal!ShellEnds
<1>4. /\ watcher' \in [Session -> {"none", "new", "waits"}] /\ exited' \in [Session -> Nat]
      /\ \A t \in Session : t # s => watcher'[t] = watcher[t] /\ exited'[t] = exited[t]
  BY <1>2, <1>3 DEF TermTypes
<1>5. TermTypes'
  BY <1>1, <1>2, <1>4, Closing DEF TermTypes
<1>6. SocketInv' /\ LinkInv'
  BY <1>1, <1>2, Closing, SameLinks DEF TerminalInv, SocketInv
<1>7. ASSUME gentle
      PROVE  ~panicked' /\ \A t \in Session : SessionInv(t)'
  <2>1. SessionInv(s) /\ ~panicked
    BY <1>7 DEF TerminalInv
  <2>2. watcher[s] # "new" /\ \A k \in Socket : ~Dials(k, s) /\ ~Fails(k, s)
    BY <1>7 DEF Terminal!Stop, Terminal!Opening, Terminal!At, Dials, Fails
  <2>3. term[s].shell => Terminal!Open(s)
    BY <2>1 DEF Terminal!Open, SessionInv
  <2>4. Terminal!Open(s) => ~term[s].done
    BY <2>1 DEF Terminal!Open, SessionInv
  <2>5. watcher[s] \in {"none", "new", "waits"} /\ exited[s] \in Nat /\ ended[s] \in Nat
    BY <1>2 DEF TermTypes
  <2>6. \A k \in Socket : ~Dials(k, s)' /\ ~Fails(k, s)'
    BY <1>1, <2>2 DEF Dials, Fails
  <2>7. CASE Terminal!Open(s)
    <3>1. /\ term'[s].status = "closed" /\ ~term'[s].shell /\ term'[s].done
          /\ ended'[s] = ended[s] + 1 /\ panicked' = term[s].done
      BY <1>1, <1>2, <2>7, Closing
    <3>2. ~panicked' /\ ended'[s] = 1
      BY <2>1, <2>4, <2>7, <3>1 DEF SessionInv
    <3>3. watcher'[s] = "none"
      <4>1. CASE watcher[s] = "waits"
        BY <1>2, <1>3, <2>1, <4>1 DEF SessionInv, TermTypes
      <4>2. CASE watcher[s] = "none"
        BY <1>3, <4>2
      <4> QED
        BY <2>2, <2>5, <4>1, <4>2
    <3>4. SessionInv(s)'
      BY <2>6, <3>1, <3>2, <3>3 DEF SessionInv
    <3> QED
      BY <1>1, <1>2, <1>4, <1>7, <3>2, <3>4, Closing, OtherSessions DEF TerminalInv
  <2>8. CASE ~Terminal!Open(s)
    <3>1. UNCHANGED <<term, panicked, ended>>
      BY <1>1, <1>2, <2>8, Closing
    <3>2. UNCHANGED <<watcher, exited>>
      BY <1>3, <2>3, <2>8
    <3> QED
      BY <1>1, <1>7, <2>1, <3>1, <3>2 DEF TerminalInv, SessionInv, Dials, Fails
  <2> QED
    BY <2>7, <2>8
<1> QED
  BY <1>1, <1>5, <1>6, <1>7 DEF TerminalInv

\* A session starts, its watcher begins, its shell exits
LEMMA SessionGoes ==
  ASSUME StreamsAssumption, TerminalInv, ~panicked, NEW s \in Session,
         Terminal!Start(s) \/ Terminal!WatchStart(s) \/ Terminal!ShellExits(s)
  PROVE  TerminalInv'
<1>1. UNCHANGED <<gentle, socket, ended>>
  BY DEF Terminal!Start, Terminal!WatchStart, Terminal!ShellExits, Terminal!ShellEnds
<1>2. TermTypes /\ SocketInv /\ LinkInv
  BY DEF TerminalInv
<1>3. CASE Terminal!Start(s)
  <2>1. /\ term' = [term EXCEPT ![s].status = IF s \in Ssh THEN "connecting" ELSE "active",
                                ![s].shell = s \in Host]
        /\ watcher' = [watcher EXCEPT ![s] = IF s \in Host THEN "new" ELSE "none"]
        /\ UNCHANGED <<exited, panicked>> /\ term[s].status = "absent"
    BY <1>3 DEF Terminal!Start
  <2>2. term' \in [Session -> TermRecord]
    <3>1. term[s] \in TermRecord
      BY <1>2 DEF TermTypes
    <3>2. [term[s] EXCEPT !.status = IF s \in Ssh THEN "connecting" ELSE "active",
                          !.shell = s \in Host] \in TermRecord
      <4>1. (s \in Host) \in BOOLEAN
        OBVIOUS
      <4>2. ASSUME NEW at \in {"connecting", "active"}, NEW b \in BOOLEAN
            PROVE  [term[s] EXCEPT !.status = at, !.shell = b] \in TermRecord
        BY <3>1 DEF TermRecord
      <4> QED
        BY <4>1, <4>2
    <3>3. term' = [term EXCEPT ![s] = [term[s] EXCEPT
                     !.status = IF s \in Ssh THEN "connecting" ELSE "active",
                     !.shell = s \in Host]]
      BY <1>2, <2>1 DEF TermTypes, TermRecord
    <3> QED
      BY <1>2, <3>2, <3>3 DEF TermTypes
  <2>3. \A t \in Session : t # s => term'[t] = term[t] /\ watcher'[t] = watcher[t]
    BY <1>2, <2>1 DEF TermTypes
  <2>4. /\ term'[s].status = IF s \in Ssh THEN "connecting" ELSE "active"
        /\ term'[s].shell <=> s \in Host
        /\ term'[s].done = term[s].done
        /\ term'[s].sends = term[s].sends /\ term'[s].latest = term[s].latest
        /\ watcher'[s] = IF s \in Host THEN "new" ELSE "none"
    BY <1>2, <2>1 DEF TermTypes, TermRecord
  <2>5. TermTypes'
    BY <1>1, <1>2, <2>1, <2>2 DEF TermTypes
  <2>6. SocketInv' /\ LinkInv'
    BY <1>1, <1>2, <2>3, <2>4, SameLinks DEF SocketInv
  <2>7. ASSUME gentle
        PROVE  ~panicked' /\ \A t \in Session : SessionInv(t)'
    <3>1. SessionInv(s) /\ ~panicked
      BY <2>7 DEF TerminalInv
    <3>2. s \in Host => \A k \in Socket : ~Dials(k, s)
      BY <1>2 DEF SocketInv, Dials, StreamsAssumption
    <3>3. ~term[s].done /\ ~term[s].shell /\ ~(exited[s] > 0) /\ exited[s] \in Nat
      BY <1>2, <2>1, <3>1 DEF SessionInv, TermTypes
    <3>4. SessionInv(s)'
      <4>1. exited[s] = 0 /\ exited'[s] = 0 /\ ~term'[s].done /\ ended'[s] = 0
        BY <1>1, <2>1, <2>4, <3>1, <3>3 DEF SessionInv
      <4>2. CASE s \in Host
        <5>1. term'[s].status = "active" /\ term'[s].shell /\ watcher'[s] = "new"
          BY <2>4, <4>2 DEF StreamsAssumption
        <5>2. \A k \in Socket : ~Dials(k, s)'
          BY <1>1, <3>2, <4>2 DEF Dials
        <5> QED
          BY <4>1, <5>1, <5>2 DEF SessionInv
      <4>3. CASE s \notin Host
        <5>1. term'[s].status = "connecting" /\ ~term'[s].shell /\ watcher'[s] = "none"
          BY <2>4, <4>3 DEF Session, Terminal!Session
        <5> QED
          BY <4>1, <5>1 DEF SessionInv
      <4> QED
        BY <4>2, <4>3
    <3> QED
      BY <1>1, <2>1, <2>3, <2>7, <3>1, <3>4, OtherSessions DEF TerminalInv
  <2> QED
    BY <1>1, <2>5, <2>6, <2>7 DEF TerminalInv
<1>4. CASE Terminal!WatchStart(s)
  <2>1. /\ watcher[s] = "new" /\ watcher' = [watcher EXCEPT ![s] = "waits"]
        /\ UNCHANGED <<term, exited>> /\ panicked' = ~term[s].shell
    BY <1>4 DEF Terminal!WatchStart
  <2>2. TermTypes'
    BY <1>1, <1>2, <2>1 DEF TermTypes
  <2>3. SocketInv' /\ LinkInv'
    BY <1>1, <1>2, <2>1, SameLinks DEF SocketInv
  <2>4. ASSUME gentle
        PROVE  ~panicked' /\ \A t \in Session : SessionInv(t)'
    <3>1. \A t \in Session : SessionInv(t)
      BY <2>4 DEF TerminalInv
    <3>2. \A t \in Session : t # s => watcher'[t] = watcher[t]
      BY <1>2, <2>1 DEF TermTypes
    <3>3. watcher'[s] = "waits" /\ term[s].shell
      BY <1>2, <2>1, <3>1 DEF TermTypes, SessionInv
    <3>4. SessionInv(s)'
      BY <1>1, <2>1, <3>1, <3>3 DEF SessionInv, Dials, Fails
    <3> QED
      BY <1>1, <2>1, <3>1, <3>2, <3>3, <3>4, OtherSessions
  <2> QED
    BY <1>1, <2>2, <2>3, <2>4 DEF TerminalInv
<1>5. CASE Terminal!ShellExits(s)
  <2>1. /\ watcher[s] = "waits" /\ watcher' = [watcher EXCEPT ![s] = "none"]
        /\ exited' = [exited EXCEPT ![s] = @ + 1]
        /\ UNCHANGED <<term, panicked>>
    BY <1>5 DEF Terminal!ShellExits, Terminal!ShellEnds
  <2>2. TermTypes'
    BY <1>1, <1>2, <2>1 DEF TermTypes
  <2>3. SocketInv' /\ LinkInv'
    BY <1>1, <1>2, <2>1, SameLinks DEF SocketInv
  <2>4. ASSUME gentle
        PROVE  ~panicked' /\ \A t \in Session : SessionInv(t)'
    <3>1. ~panicked /\ \A t \in Session : SessionInv(t)
      BY <2>4 DEF TerminalInv
    <3>2. \A t \in Session : t # s => watcher'[t] = watcher[t] /\ exited'[t] = exited[t]
      BY <1>2, <2>1 DEF TermTypes
    <3>3. watcher'[s] = "none" /\ exited'[s] = 1 /\ term[s].shell
      BY <1>2, <2>1, <3>1 DEF TermTypes, SessionInv
    <3>4. \A k \in Socket : ~Dials(k, s) /\ ~Fails(k, s)
      BY <1>5, <2>4 DEF Terminal!ShellExits, Terminal!Opening, Terminal!At, Dials, Fails
    <3>5. SessionInv(s)'
      BY <1>1, <2>1, <3>1, <3>3, <3>4 DEF SessionInv, Dials, Fails
    <3> QED
      BY <1>1, <2>1, <3>1, <3>2, <3>5, OtherSessions
  <2> QED
    BY <1>1, <2>2, <2>3, <2>4 DEF TerminalInv
<1> QED
  BY <1>3, <1>4, <1>5

\* The watcher of a shell that has ended
LEMMA WatchEnds ==
  ASSUME TerminalInv, NEW s \in Session, Terminal!WatchEnd(s)
  PROVE  TerminalInv'
<1>1. UNCHANGED <<gentle, socket, watcher>> /\ Terminal!Close(s)
  BY DEF Terminal!WatchEnd
<1>2. TermTypes
  BY DEF TerminalInv
<1>3. exited[s] > 0 /\ exited' = [exited EXCEPT ![s] = @ - 1]
  BY DEF Terminal!WatchEnd
<1>4. /\ exited' \in [Session -> Nat] /\ exited'[s] = exited[s] - 1
      /\ \A t \in Session : t # s => exited'[t] = exited[t]
  BY <1>2, <1>3 DEF TermTypes
<1>5. TermTypes'
  BY <1>1, <1>2, <1>4, Closing DEF TermTypes
<1>6. SocketInv' /\ LinkInv'
  BY <1>1, <1>2, Closing, SameLinks DEF TerminalInv, SocketInv
<1>7. ASSUME gentle
      PROVE  ~panicked' /\ \A t \in Session : SessionInv(t)'
  <2>1. SessionInv(s) /\ ~panicked
    BY <1>7 DEF TerminalInv
  <2>2. watcher[s] = "none" /\ \A k \in Socket : ~Dials(k, s) /\ ~Fails(k, s)
    BY <1>2, <1>3, <2>1 DEF TermTypes, SessionInv
  <2>3. \A k \in Socket : ~Dials(k, s)' /\ ~Fails(k, s)'
    BY <1>1, <2>2 DEF Dials, Fails
  <2>4. term[s].shell \/ term[s].done
    BY <1>3, <2>1 DEF SessionInv
  <2>5. Terminal!Open(s) => ~term[s].done
    BY <2>1 DEF Terminal!Open, SessionInv
  <2>6. term[s].shell => Terminal!Open(s)
    BY <2>1 DEF Terminal!Open, SessionInv
  <2>7. CASE Terminal!Open(s)
    <3>1. /\ term'[s].status = "closed" /\ ~term'[s].shell /\ term'[s].done
          /\ ended'[s] = ended[s] + 1 /\ panicked' = term[s].done
      BY <1>1, <1>2, <2>7, Closing
    <3>2. ~panicked' /\ ended'[s] = 1
      BY <2>1, <2>5, <2>7, <3>1 DEF SessionInv
    <3>3. watcher'[s] = "none"
      BY <1>1, <2>2
    <3>4. SessionInv(s)'
      BY <2>3, <3>1, <3>2, <3>3 DEF SessionInv
    <3> QED
      BY <1>1, <1>2, <1>4, <1>7, <3>2, <3>4, Closing, OtherSessions DEF TerminalInv
  <2>8. CASE ~Terminal!Open(s)
    <3>1. UNCHANGED <<term, panicked, ended>> /\ term[s].done
      BY <1>1, <1>2, <2>4, <2>6, <2>8, Closing
    <3>2. SessionInv(s)'
      BY <1>1, <2>1, <2>2, <2>3, <3>1 DEF SessionInv
    <3> QED
      BY <1>1, <1>2, <1>4, <1>7, <2>1, <3>1, <3>2, OtherSessions DEF TerminalInv
  <2> QED
    BY <2>7, <2>8
<1> QED
  BY <1>1, <1>5, <1>6, <1>7 DEF TerminalInv

\* A session that no further socket opens, and whose link alone may have changed
LEMMA SameSession ==
  ASSUME NEW t \in Session, SessionInv(t), UNCHANGED <<watcher, exited, ended>>,
         term'[t].status = term[t].status, term'[t].shell = term[t].shell,
         term'[t].done = term[t].done,
         \A j \in Socket : /\ Dials(j, t)' => Dials(j, t)
                           /\ Fails(j, t)' => Fails(j, t) \/ Dials(j, t)
  PROVE  SessionInv(t)'
BY DEF SessionInv

\* Sockets that come and go, or wait for a shell, leave the sessions as they are
LEMMA SocketGoes ==
  ASSUME StreamsAssumption, TerminalInv, ~panicked, NEW k \in Socket,
         \/ \E s \in Session : Terminal!Connect(k, s)
         \/ Terminal!Enter(k) \/ Terminal!Dial(k)
  PROVE  TerminalInv'
<1>1. UNCHANGED <<gentle, term, watcher, exited, ended, panicked>>
  BY DEF Terminal!Connect, Terminal!Enter, Terminal!Dial, Terminal!Go, Terminal!Leaves
<1>2. TermTypes /\ SocketInv /\ LinkInv
  BY DEF TerminalInv
<1>3. ASSUME NEW at \in SocketPc \ {"attached"}, NEW s \in Session,
             socket'[k] = [pc |-> at, of |-> s],
             socket' \in [Socket -> [pc : SocketPc, of : Session \cup {"none"}]],
             \A j \in Socket : j # k => socket'[j] = socket[j],
             at \in {"enter", "dial", "dialed", "failing"} => s \in Ssh,
             at \in {"dial", "dialed"} =>
               \A j \in Socket : Dials(j, s) => j = k,
             at \in {"dial", "dialed"} =>
               Dials(k, s) \/ (~term[s].shell /\ term[s].status # "closed"),
             at = "failing" => Dials(k, s) \/ Fails(k, s)
      PROVE  TerminalInv'
  <2>1. TermTypes'
    BY <1>1, <1>2, <1>3 DEF TermTypes
  <2>2. SocketInv'
    <3>1. \A t \in Session : Dials(k, t)' => t = s /\ at \in {"dial", "dialed"}
      BY <1>3 DEF Dials
    <3>2. \A t \in Session, j \in Socket : j # k => (Dials(j, t)' <=> Dials(j, t))
      BY <1>3 DEF Dials
    <3>3. \A t \in Session : \A i, j \in Socket : Dials(i, t)' /\ Dials(j, t)' => i = j
      BY <1>2, <1>3, <3>1, <3>2 DEF SocketInv
    <3> QED
      BY <1>2, <1>3, <3>3 DEF SocketInv
  <2>3. LinkInv'
    BY <1>1, <1>2, <1>3 DEF LinkInv, Terminal!LatestReceives
  <2>4. ASSUME gentle, NEW t \in Session
        PROVE  SessionInv(t)'
    <3>1. SessionInv(t)
      BY <2>4 DEF TerminalInv
    <3>2. \A j \in Socket : j # k => /\ Dials(j, t)' <=> Dials(j, t)
                                     /\ Fails(j, t)' <=> Fails(j, t)
      BY <1>3 DEF Dials, Fails
    <3>3. CASE t # s \/ Dials(k, s) \/ at \notin {"dial", "dialed"}
      <4>1. /\ Dials(k, t)' => Dials(k, t)
            /\ Fails(k, t)' => Fails(k, t) \/ Dials(k, t)
        BY <1>3, <3>3 DEF Dials, Fails
      <4>2. \A j \in Socket : /\ Dials(j, t)' => Dials(j, t)
                              /\ Fails(j, t)' => Fails(j, t) \/ Dials(j, t)
        BY <3>2, <4>1
      <4>3. /\ UNCHANGED <<watcher, exited, ended>>
            /\ term'[t].status = term[t].status /\ term'[t].shell = term[t].shell
            /\ term'[t].done = term[t].done
        BY <1>1
      <4> QED
        BY <3>1, <4>2, <4>3 DEF SessionInv
    <3>4. CASE t = s /\ ~term[s].shell /\ term[s].status # "closed"
      <4>1. ~term[t].done /\ ~term[t].shell /\ ~(exited[t] > 0) /\ exited[t] = 0
        BY <1>2, <3>1, <3>4 DEF SessionInv, TermTypes
      <4> QED
        BY <1>1, <3>1, <4>1 DEF SessionInv
    <3> QED
      BY <1>3, <3>3, <3>4
  <2> QED
    BY <1>1, <2>1, <2>2, <2>3, <2>4 DEF TerminalInv
<1>4. ASSUME NEW s \in Session, Terminal!Connect(k, s)
      PROVE  TerminalInv'
  <2>1. socket' = [socket EXCEPT ![k] = [pc |-> IF s \in Ssh THEN "enter" ELSE "attach",
                                         of |-> s]]
    BY <1>4 DEF Terminal!Connect
  <2>2. PICK at \in {"enter", "attach"} :
          (at = "enter" => s \in Ssh) /\ socket' = [socket EXCEPT ![k] = [pc |-> at, of |-> s]]
    BY <2>1
  <2>3. /\ socket' \in [Socket -> [pc : SocketPc, of : Session \cup {"none"}]]
        /\ socket'[k] = [pc |-> at, of |-> s]
        /\ \A j \in Socket : j # k => socket'[j] = socket[j]
    BY <1>2, <2>2 DEF TermTypes, SocketPc
  <2>4. at \in SocketPc \ {"attached"}
    BY DEF SocketPc
  <2> QED
    BY <1>3, <2>2, <2>3, <2>4
<1>5. ASSUME NEW at \in SocketPc \ {"attached"}, Terminal!Go(k, at), socket[k].pc # "off"
      PROVE  /\ socket[k].of \in Session
             /\ socket'[k] = [pc |-> at, of |-> socket[k].of]
             /\ socket' \in [Socket -> [pc : SocketPc, of : Session \cup {"none"}]]
             /\ \A j \in Socket : j # k => socket'[j] = socket[j]
  BY <1>2, <1>5 DEF Terminal!Go, TermTypes, SocketInv
<1>6. CASE Terminal!Enter(k)
  <2>1. socket[k].pc = "enter" /\ socket[k].of \in Session /\ socket[k].of \in Ssh
        /\ Terminal!StartMuFree(socket[k].of)
    BY <1>2, <1>6 DEF Terminal!Enter, SocketInv
  <2>2. \A j \in Socket : ~Dials(j, socket[k].of)
    BY <2>1 DEF Terminal!StartMuFree, Terminal!At, Dials
  <2>3. CASE Terminal!Go(k, "attach")
    <3>1. "attach" \in SocketPc \ {"attached"}
      BY DEF SocketPc
    <3> QED
      BY <1>3, <1>5, <2>1, <2>3, <3>1
  <2>4. CASE Terminal!Go(k, "dial") /\ ~term[socket[k].of].shell
             /\ term[socket[k].of].status # "closed"
    <3>1. "dial" \in SocketPc \ {"attached"}
      BY DEF SocketPc
    <3> QED
      BY <1>3, <1>5, <2>1, <2>2, <2>4, <3>1
  <2>5. CASE Terminal!Leaves(k)
    <3>1. /\ socket' \in [Socket -> [pc : SocketPc, of : Session \cup {"none"}]]
          /\ socket'[k].pc = "off"
          /\ \A j \in Socket : j # k => socket'[j] = socket[j]
      BY <1>2, <2>5 DEF Terminal!Leaves, Terminal!NoSocket, Terminal!None, TermTypes, SocketPc
    <3>2. \A t \in Session : \A j \in Socket : /\ Dials(j, t)' => Dials(j, t)
                                               /\ Fails(j, t)' => Fails(j, t)
      BY <3>1 DEF Dials, Fails
    <3>3. TermTypes' /\ SocketInv' /\ LinkInv'
      BY <1>1, <1>2, <3>1, <3>2 DEF TermTypes, SocketInv, LinkInv, Terminal!LatestReceives
    <3>4. gentle => \A t \in Session : SessionInv(t)'
      BY <1>1, <3>2, SameSession DEF TerminalInv
    <3> QED
      BY <1>1, <3>3, <3>4 DEF TerminalInv
  <2> QED
    BY <1>6, <2>3, <2>4, <2>5 DEF Terminal!Enter, Terminal!Refused
<1>7. CASE Terminal!Dial(k)
  <2>1. PICK at \in {"failing", "dialed"} : Terminal!Go(k, at)
    BY <1>7 DEF Terminal!Dial
  <2>2. socket[k].pc = "dial" /\ at \in SocketPc \ {"attached"}
    BY <1>7 DEF Terminal!Dial, SocketPc
  <2>3. socket[k].of \in Session /\ socket[k].of \in Ssh /\ Dials(k, socket[k].of)
    BY <1>2, <2>2 DEF SocketInv, Dials
  <2>4. \A j \in Socket : Dials(j, socket[k].of) => j = k
    BY <1>2, <2>3 DEF SocketInv
  <2> QED
    BY <1>3, <1>5, <2>1, <2>2, <2>3, <2>4
<1> QED
  BY <1>4, <1>6, <1>7

\* A session's record that changes as a record stays one, and the others are as they were
LEMMA TermChanges ==
  ASSUME TermTypes, NEW s \in Session, NEW r \in TermRecord, term' = [term EXCEPT ![s] = r]
  PROVE  /\ term' \in [Session -> TermRecord] /\ term'[s] = r
         /\ \A t \in Session : t # s => term'[t] = term[t]
BY DEF TermTypes

\* A socket moves on: it stays with its session
LEMMA SocketMoves ==
  ASSUME TermTypes, SocketInv, NEW k \in Socket, NEW at \in SocketPc, socket[k].pc # "off",
         Terminal!Go(k, at)
  PROVE  /\ socket[k].of \in Session
         /\ socket' \in [Socket -> [pc : SocketPc, of : Session \cup {"none"}]]
         /\ socket'[k].pc = at /\ socket'[k].of = socket[k].of
         /\ \A j \in Socket : j # k => socket'[j] = socket[j]
BY DEF TermTypes, SocketInv, Terminal!Go

\* A socket's handler returns
LEMMA SocketLeaves ==
  ASSUME TermTypes, NEW k \in Socket, Terminal!Leaves(k)
  PROVE  /\ socket' \in [Socket -> [pc : SocketPc, of : Session \cup {"none"}]]
         /\ socket'[k].pc = "off"
         /\ \A j \in Socket : j # k => socket'[j] = socket[j]
BY DEF TermTypes, SocketPc, Terminal!Leaves, Terminal!NoSocket, Terminal!None

\* A socket goes to a place where it opens nothing: who opens a shell did so before
LEMMA OpensNothing ==
  ASSUME SocketInv, NEW k \in Socket,
         socket'[k].pc \in {"off", "attach", "attached"},
         socket'[k].pc # "off" => socket'[k].of \in Session,
         \A j \in Socket : j # k => socket'[j] = socket[j]
  PROVE  /\ SocketInv'
         /\ \A t \in Session : \A j \in Socket : /\ Dials(j, t)' => Dials(j, t) /\ j # k
                                                 /\ Fails(j, t)' => Fails(j, t) /\ j # k
<1>1. \A t \in Session : \A j \in Socket : /\ Dials(j, t)' => Dials(j, t) /\ j # k
                                           /\ Fails(j, t)' => Fails(j, t) /\ j # k
  BY DEF Dials, Fails
<1> QED
  BY <1>1 DEF SocketInv

\* The shell a socket asked for could not be opened
LEMMA SocketFails ==
  ASSUME TerminalInv, NEW k \in Socket, Terminal!Failing(k)
  PROVE  TerminalInv'
<1> DEFINE s == socket[k].of
<1>1. /\ UNCHANGED <<gentle, watcher, exited, ended, panicked>>
      /\ socket[k].pc = "failing" /\ Terminal!Leaves(k)
      /\ term' = [term EXCEPT ![s].status = "failed"]
  BY DEF Terminal!Failing
<1>2. TermTypes /\ SocketInv /\ LinkInv
  BY DEF TerminalInv
<1>3. s \in Session /\ Fails(k, s)
  BY <1>1, <1>2 DEF SocketInv, Fails
<1> HIDE DEF s
<1> DEFINE r == [term[s] EXCEPT !.status = "failed"]
<1>4. r \in TermRecord /\ term' = [term EXCEPT ![s] = r]
  <2>1. term[s] \in TermRecord
    BY <1>2, <1>3 DEF TermTypes
  <2>2. r \in TermRecord
    BY <2>1 DEF TermRecord
  <2>3. term' = [term EXCEPT ![s] = r]
    BY <1>1
  <2> QED
    BY <2>2, <2>3
<1>5. /\ r.status = "failed" /\ r.shell = term[s].shell /\ r.done = term[s].done
      /\ r.latest = term[s].latest /\ r.sends = term[s].sends
  BY <1>2, <1>3 DEF TermTypes, TermRecord
<1> HIDE DEF r
<1>6. /\ term' \in [Session -> TermRecord] /\ term'[s] = r
      /\ \A t \in Session : t # s => term'[t] = term[t]
  BY <1>2, <1>3, <1>4, TermChanges
<1>7. /\ socket' \in [Socket -> [pc : SocketPc, of : Session \cup {"none"}]]
      /\ socket'[k].pc = "off"
      /\ \A j \in Socket : j # k => socket'[j] = socket[j]
  BY <1>1, <1>2, SocketLeaves
<1>8. TermTypes'
  BY <1>1, <1>2, <1>6, <1>7 DEF TermTypes
<1>9. /\ SocketInv'
      /\ \A t \in Session : \A j \in Socket : /\ Dials(j, t)' => Dials(j, t) /\ j # k
                                              /\ Fails(j, t)' => Fails(j, t) /\ j # k
  BY <1>2, <1>7, OpensNothing
<1>10. \A t \in Session : term'[t].sends = term[t].sends /\ term'[t].latest = term[t].latest
  BY <1>5, <1>6
<1>11. LinkInv'
  BY <1>2, <1>7, <1>10 DEF LinkInv, SocketInv, Terminal!LatestReceives
<1>12. ASSUME gentle, NEW t \in Session
       PROVE  SessionInv(t)'
  <2>1. SessionInv(t) /\ SessionInv(s)
    BY <1>3, <1>12 DEF TerminalInv
  <2>2. CASE t # s
    BY <1>1, <1>6, <1>9, <2>1, <2>2, SameSession
  <2>3. CASE t = s
    <3>1. ~term[t].done
      BY <1>3, <2>1, <2>3 DEF SessionInv
    <3> QED
      BY <1>1, <1>5, <1>6, <1>9, <2>1, <2>3, <3>1 DEF SessionInv
  <2> QED
    BY <2>2, <2>3
<1> QED
  BY <1>1, <1>8, <1>9, <1>11, <1>12 DEF TerminalInv

\* The shell a socket asked for is open
LEMMA SocketOpens ==
  ASSUME TerminalInv, NEW k \in Socket, Terminal!Opened(k)
  PROVE  TerminalInv'
<1> DEFINE s == socket[k].of
<1>1. /\ UNCHANGED <<gentle, exited, ended, panicked>>
      /\ socket[k].pc = "dialed" /\ Terminal!Go(k, "attach")
      /\ term' = [term EXCEPT ![s].shell = TRUE, ![s].status = "active"]
      /\ watcher' = [watcher EXCEPT ![s] = "waits"]
  BY DEF Terminal!Opened
<1>2. TermTypes /\ SocketInv /\ LinkInv
  BY DEF TerminalInv
<1>3. s \in Session /\ Dials(k, s)
  BY <1>1, <1>2 DEF SocketInv, Dials
<1>4. /\ socket' \in [Socket -> [pc : SocketPc, of : Session \cup {"none"}]]
      /\ socket'[k].pc = "attach" /\ socket'[k].of = s
      /\ \A j \in Socket : j # k => socket'[j] = socket[j]
  <2>1. "attach" \in SocketPc
    BY DEF SocketPc
  <2> QED
    BY <1>1, <1>2, <2>1, SocketMoves
<1> HIDE DEF s
<1> DEFINE r == [term[s] EXCEPT !.shell = TRUE, !.status = "active"]
<1>5. r \in TermRecord /\ term' = [term EXCEPT ![s] = r]
  <2>1. term[s] \in TermRecord
    BY <1>2, <1>3 DEF TermTypes
  <2>2. r \in TermRecord
    BY <2>1 DEF TermRecord
  <2>3. term' = [term EXCEPT ![s] = r]
    BY <1>1
  <2> QED
    BY <2>2, <2>3
<1>6. /\ r.status = "active" /\ r.shell = TRUE /\ r.done = term[s].done
      /\ r.latest = term[s].latest /\ r.sends = term[s].sends
  BY <1>2, <1>3 DEF TermTypes, TermRecord
<1> HIDE DEF r
<1>7. /\ term' \in [Session -> TermRecord] /\ term'[s] = r
      /\ \A t \in Session : t # s => term'[t] = term[t]
  BY <1>2, <1>3, <1>5, TermChanges
<1>8. /\ watcher' \in [Session -> {"none", "new", "waits"}] /\ watcher'[s] = "waits"
      /\ \A t \in Session : t # s => watcher'[t] = watcher[t]
  BY <1>1, <1>2, <1>3 DEF TermTypes
<1>9. TermTypes'
  BY <1>1, <1>2, <1>4, <1>7, <1>8 DEF TermTypes
<1>10. /\ SocketInv'
       /\ \A t \in Session : \A j \in Socket : /\ Dials(j, t)' => Dials(j, t) /\ j # k
                                               /\ Fails(j, t)' => Fails(j, t) /\ j # k
  BY <1>2, <1>3, <1>4, OpensNothing
<1>11. \A t \in Session : term'[t].sends = term[t].sends /\ term'[t].latest = term[t].latest
  BY <1>6, <1>7
<1>12. LinkInv'
  BY <1>2, <1>4, <1>11 DEF LinkInv, SocketInv, Terminal!LatestReceives
<1>13. ASSUME gentle, NEW t \in Session
       PROVE  SessionInv(t)'
  <2>1. SessionInv(t) /\ SessionInv(s)
    BY <1>3, <1>13 DEF TerminalInv
  <2>2. CASE t # s
    <3>1. \A j \in Socket : /\ Dials(j, t)' => Dials(j, t)
                            /\ Fails(j, t)' => Fails(j, t)
      BY <1>10
    <3> QED
      BY <1>1, <1>7, <1>8, <2>1, <2>2, <3>1 DEF SessionInv
  <2>3. CASE t = s
    <3>1. ~term[t].done /\ exited[t] = 0
      BY <1>3, <2>1, <2>3 DEF SessionInv
    <3>2. \A j \in Socket : ~Dials(j, t)'
      BY <1>2, <1>3, <1>10, <2>3 DEF SocketInv
    <3> QED
      BY <1>1, <1>6, <1>7, <1>8, <2>1, <2>3, <3>1, <3>2 DEF SessionInv
  <2> QED
    BY <2>2, <2>3
<1> QED
  BY <1>1, <1>9, <1>10, <1>12, <1>13 DEF TerminalInv

\* A socket attaches: from now on it has the output
LEMMA SocketAttaches ==
  ASSUME TerminalInv, NEW k \in Socket, Terminal!Attach(k)
  PROVE  TerminalInv'
<1> DEFINE s == socket[k].of
<1>1. /\ UNCHANGED <<gentle, watcher, exited, ended, panicked>>
      /\ socket[k].pc = "attach" /\ Terminal!Go(k, "attached")
      /\ term' = [term EXCEPT ![s].latest = k, ![s].sends = TRUE]
  BY DEF Terminal!Attach
<1>2. TermTypes /\ SocketInv /\ LinkInv
  BY DEF TerminalInv
<1>3. s \in Session
  BY <1>1, <1>2 DEF SocketInv
<1>4. /\ socket' \in [Socket -> [pc : SocketPc, of : Session \cup {"none"}]]
      /\ socket'[k].pc = "attached" /\ socket'[k].of = s
      /\ \A j \in Socket : j # k => socket'[j] = socket[j]
  <2>1. "attached" \in SocketPc
    BY DEF SocketPc
  <2> QED
    BY <1>1, <1>2, <2>1, SocketMoves
<1> HIDE DEF s
<1> DEFINE r == [term[s] EXCEPT !.latest = k, !.sends = TRUE]
<1>5. r \in TermRecord /\ term' = [term EXCEPT ![s] = r]
  <2>1. term[s] \in TermRecord
    BY <1>2, <1>3 DEF TermTypes
  <2>2. r \in TermRecord
    BY <2>1 DEF TermRecord
  <2>3. term' = [term EXCEPT ![s] = r]
    BY <1>1
  <2> QED
    BY <2>2, <2>3
<1>6. /\ r.status = term[s].status /\ r.shell = term[s].shell /\ r.done = term[s].done
      /\ r.latest = k /\ r.sends = TRUE
  BY <1>2, <1>3 DEF TermTypes, TermRecord
<1> HIDE DEF r
<1>7. /\ term' \in [Session -> TermRecord] /\ term'[s] = r
      /\ \A t \in Session : t # s => term'[t] = term[t]
  BY <1>2, <1>3, <1>5, TermChanges
<1>8. TermTypes'
  BY <1>1, <1>2, <1>4, <1>7 DEF TermTypes
<1>9. /\ SocketInv'
      /\ \A t \in Session : \A j \in Socket : /\ Dials(j, t)' => Dials(j, t) /\ j # k
                                              /\ Fails(j, t)' => Fails(j, t) /\ j # k
  BY <1>2, <1>3, <1>4, OpensNothing
<1>10. LinkInv'
  <2>1. \A t \in Session : term'[t].sends => term'[t].latest \in Socket
    BY <1>2, <1>6, <1>7 DEF LinkInv
  <2>2. ASSUME NEW j \in Socket, socket'[j].pc = "attached",
               term'[socket'[j].of].latest = j
        PROVE  term'[socket'[j].of].sends
    <3>1. CASE socket'[j].of = s
      BY <1>6, <1>7, <3>1
    <3>2. CASE socket'[j].of # s
      <4>1. socket'[j] = socket[j] /\ socket[j].of \in Session
        BY <1>2, <1>4, <2>2, <3>2 DEF SocketInv
      <4> QED
        BY <1>2, <1>7, <2>2, <3>2, <4>1 DEF LinkInv, Terminal!LatestReceives
    <3> QED
      BY <3>1, <3>2
  <2> QED
    BY <2>1, <2>2 DEF LinkInv, Terminal!LatestReceives
<1>11. ASSUME gentle, NEW t \in Session
       PROVE  SessionInv(t)'
  <2>1. SessionInv(t)
    BY <1>11 DEF TerminalInv
  <2>2. /\ term'[t].status = term[t].status /\ term'[t].shell = term[t].shell
        /\ term'[t].done = term[t].done
    BY <1>6, <1>7
  <2> QED
    BY <1>1, <1>9, <2>1, <2>2, SameSession
<1> QED
  BY <1>1, <1>8, <1>9, <1>10, <1>11 DEF TerminalInv

\* A socket leaves, because its client did or because its session is done
LEMMA SocketDetaches ==
  ASSUME TerminalInv, NEW k \in Socket, Terminal!Leave(k)
  PROVE  TerminalInv'
<1> DEFINE s == socket[k].of
<1>1. /\ UNCHANGED <<gentle, watcher, exited, ended, panicked>>
      /\ socket[k].pc = "attached" /\ Terminal!Leaves(k)
      /\ term' = [term EXCEPT ![s].sends = term[s].sends /\ term[s].latest # k]
  BY DEF Terminal!Leave, Terminal!Detach
<1>2. TermTypes /\ SocketInv /\ LinkInv
  BY DEF TerminalInv
<1>3. s \in Session
  BY <1>1, <1>2 DEF SocketInv
<1>4. /\ socket' \in [Socket -> [pc : SocketPc, of : Session \cup {"none"}]]
      /\ socket'[k].pc = "off"
      /\ \A j \in Socket : j # k => socket'[j] = socket[j]
  BY <1>1, <1>2, SocketLeaves
<1> HIDE DEF s
<1>0. PICK b \in BOOLEAN : /\ b <=> term[s].sends /\ term[s].latest # k
                           /\ term' = [term EXCEPT ![s].sends = b]
  <2>1. (term[s].sends /\ term[s].latest # k) \in BOOLEAN
    OBVIOUS
  <2> QED
    BY <1>1, <2>1
<1> DEFINE r == [term[s] EXCEPT !.sends = b]
<1>5. r \in TermRecord /\ term' = [term EXCEPT ![s] = r]
  BY <1>0, <1>2, <1>3 DEF TermTypes, TermRecord
<1>6. /\ r.status = term[s].status /\ r.shell = term[s].shell /\ r.done = term[s].done
      /\ r.latest = term[s].latest /\ r.sends = b
  BY <1>2, <1>3 DEF TermTypes, TermRecord
<1> HIDE DEF r
<1>7. /\ term' \in [Session -> TermRecord] /\ term'[s] = r
      /\ \A t \in Session : t # s => term'[t] = term[t]
  BY <1>2, <1>3, <1>5, TermChanges
<1>8. TermTypes'
  BY <1>1, <1>2, <1>4, <1>7 DEF TermTypes
<1>9. /\ SocketInv'
      /\ \A t \in Session : \A j \in Socket : /\ Dials(j, t)' => Dials(j, t) /\ j # k
                                              /\ Fails(j, t)' => Fails(j, t) /\ j # k
  BY <1>2, <1>4, OpensNothing
<1>10. LinkInv'
  <2>1. \A t \in Session : term'[t].sends => term'[t].latest \in Socket
    BY <1>0, <1>2, <1>6, <1>7 DEF LinkInv
  <2>2. ASSUME NEW j \in Socket, socket'[j].pc = "attached",
               term'[socket'[j].of].latest = j
        PROVE  term'[socket'[j].of].sends
    <3>1. j # k /\ socket'[j] = socket[j] /\ socket[j].of \in Session
      BY <1>2, <1>4, <2>2 DEF SocketInv
    <3>2. term[socket[j].of].latest = j
      BY <1>6, <1>7, <2>2, <3>1
    <3>3. term[socket[j].of].sends
      BY <1>2, <2>2, <3>1, <3>2 DEF LinkInv, Terminal!LatestReceives
    <3>4. CASE socket[j].of = s
      BY <1>0, <1>6, <1>7, <3>1, <3>2, <3>3, <3>4
    <3>5. CASE socket[j].of # s
      BY <1>7, <3>1, <3>3, <3>5
    <3> QED
      BY <3>4, <3>5
  <2> QED
    BY <2>1, <2>2 DEF LinkInv, Terminal!LatestReceives
<1>11. ASSUME gentle, NEW t \in Session
       PROVE  SessionInv(t)'
  <2>1. SessionInv(t)
    BY <1>11 DEF TerminalInv
  <2>2. /\ term'[t].status = term[t].status /\ term'[t].shell = term[t].shell
        /\ term'[t].done = term[t].done
    BY <1>6, <1>7
  <2> QED
    BY <1>1, <1>9, <2>1, <2>2, SameSession
<1> QED
  BY <1>1, <1>8, <1>9, <1>10, <1>11 DEF TerminalInv

LEMMA TerminalStep ==
  ASSUME StreamsAssumption, TerminalInv, Terminal!Next \/ UNCHANGED terminalVars
  PROVE  TerminalInv'
<1>1. CASE UNCHANGED terminalVars
  BY <1>1 DEF terminalVars, TerminalInv, TermTypes, SocketInv, LinkInv, SessionInv, Dials,
              Fails, Terminal!LatestReceives
<1>2. CASE Terminal!Next
  <2>1. ~panicked
    BY <1>2 DEF Terminal!Next
  <2>2. ASSUME NEW s \in Session,
               \/ Terminal!Start(s) \/ Terminal!Stop(s) \/ Terminal!EndIdle(s)
               \/ Terminal!WatchStart(s) \/ Terminal!ShellExits(s) \/ Terminal!WatchEnd(s)
        PROVE  TerminalInv'
    BY <2>1, <2>2, SessionGoes, StopSession, WatchEnds DEF Terminal!EndIdle
  <2>3. ASSUME NEW k \in Socket,
               \/ Terminal!Handler(k) \/ Terminal!Leave(k)
               \/ \E s \in Session : Terminal!Connect(k, s)
        PROVE  TerminalInv'
    BY <2>1, <2>3, SocketGoes, SocketFails, SocketOpens, SocketAttaches, SocketDetaches
       DEF Terminal!Handler
  <2> QED
    BY <1>2, <2>2, <2>3 DEF Terminal!Next, Session
<1> QED
  BY <1>1, <1>2

----------------------------------------------------------------------------
(* The scenes *)

\* Where each part starts
LEMMA OutputStart ==
  ASSUME StreamsAssumption, Output!Init
  PROVE  OutputInv
<1>1. /\ session = FALSE /\ timer = FALSE /\ subscribed = FALSE /\ prompt \in BOOLEAN
      /\ status = "pending" /\ task = "waiting" /\ written = 0 /\ stored = 0
      /\ writer = [w \in Writer |-> 0] /\ channel = <<>>
      /\ flusher = [f \in Flusher |-> [pc |-> "idle", upto |-> 0]]
      /\ stream = [pc |-> "closed", finished |-> FALSE, upto |-> 0]
  BY DEF Output!Init, Output!Resting, Output!Closed
<1>2. BufferTypes
  <2>1. 0 \in 0 .. MaxChunks /\ 0 \in 0 .. 0
    BY DEF StreamsAssumption
  <2>2. /\ writer \in [Writer -> 0 .. written]
        /\ flusher \in [Flusher -> [pc : {"idle", "fired", "holds"}, upto : 0 .. written]]
    BY <1>1, <2>1
  <2> QED
    BY <1>1, <2>1, <2>2 DEF BufferTypes
<1>3. channel \in Seq(Nat) /\ Len(channel) <= Room
  BY <1>1 DEF StreamsAssumption
<1>4. FollowTypes
  BY <1>1, <1>3 DEF FollowTypes
<1>5. BufferStored
  BY <1>1 DEF BufferStored
<1> QED
  BY <1>2, <1>4, <1>5 DEF OutputInv

LEMMA RelayStart ==
  ASSUME StreamsAssumption, Hub!Init
  PROVE  RelayInv
<1>1. /\ run = [r \in Run |-> [pc |-> "idle", cancelled |-> FALSE]]
      /\ spaced \in BOOLEAN /\ signedIn = FALSE /\ live = FALSE /\ stopped = FALSE
      /\ listeners = 0 /\ due = 0 /\ cancel = "none"
  BY DEF Hub!Init, Hub!NoRun, Hub!None
<1>2. RelayTypes
  <2>1. 0 \in 0 .. MaxListeners
    BY DEF StreamsAssumption
  <2>2. run \in [Run -> [pc : RunPc, cancelled : BOOLEAN]]
    BY <1>1 DEF RunPc
  <2> QED
    BY <1>1, <2>1, <2>2 DEF RelayTypes
<1>3. Hub!OneStream
  BY <1>1 DEF Hub!OneStream, StreamsAssumption
<1>4. Spaced
  BY <1>1 DEF Spaced, Reading
<1> QED
  BY <1>2, <1>3, <1>4 DEF RelayInv

LEMMA SamplingStart ==
  ASSUME StreamsAssumption, Live!Init
  PROVE  SamplingInv
<1>1. /\ loop = [l \in Loop |-> [pc |-> "none", interval |-> 0, stopped |-> FALSE]]
      /\ watchers = 0 /\ dues = [topic |-> 0, save |-> 0] /\ setting = 0
      /\ call = [pc |-> "none", reread |-> FALSE, interval |-> 0]
      /\ sampler = [running |-> FALSE, interval |-> 0, loop |-> "none"]
  BY DEF Live!Init, Live!NoLoop, Live!NoCall, Live!NotRunning, Live!None
<1>2. 0 \in 0 .. MaxSaves /\ 0 \in 0 .. MaxWatchers
  BY DEF StreamsAssumption
<1>3. SamplingTypes
  BY <1>1, <1>2 DEF SamplingTypes
<1>4. SoleLoop
  BY <1>1 DEF SoleLoop
<1> QED
  BY <1>3, <1>4 DEF SamplingInv

LEMMA TerminalStart ==
  ASSUME Terminal!Init
  PROVE  TerminalInv
<1> DEFINE none == [status |-> "absent", shell |-> FALSE, done |-> FALSE,
                    latest |-> "none", sends |-> FALSE]
<1>1. /\ gentle \in BOOLEAN /\ panicked = FALSE
      /\ term = [s \in Session |-> none]
      /\ watcher = [s \in Session |-> "none"]
      /\ exited = [s \in Session |-> 0] /\ ended = [s \in Session |-> 0]
      /\ socket = [k \in Socket |-> [pc |-> "off", of |-> "none"]]
  BY DEF Terminal!Init, Terminal!NoSession, Terminal!NoSocket, Terminal!None, Session
<1>2. none \in TermRecord
  BY DEF TermRecord
<1>3. TermTypes
  BY <1>1, <1>2 DEF TermTypes, SocketPc
<1>4. \A k \in Socket : socket[k].pc = "off"
  BY <1>1
<1>5. SocketInv
  BY <1>4 DEF SocketInv, Dials
<1>6. \A s \in Session : ~term[s].sends /\ ~term[s].done /\ ~term[s].shell
                         /\ term[s].status = "absent"
  BY <1>1
<1>7. LinkInv
  BY <1>4, <1>6 DEF LinkInv, Terminal!LatestReceives
<1>8. \A s \in Session : SessionInv(s)
  BY <1>1, <1>4, <1>6 DEF SessionInv, Dials, Fails
<1> QED
  BY <1>1, <1>3, <1>5, <1>7, <1>8 DEF TerminalInv

\* Of its output the store holds, once a task is over, everything its executor wrote,
\* unless a flush that fired earlier is still under way: see TaskOutput.StoredComplete.
THEOREM OutputKept == SceneSpec => []OutputStored
<1>1. SceneInit => OutputInv
  BY OutputStart, StreamsAssumption DEF SceneInit
<1>2. OutputInv /\ [SceneNext]_sceneVars => OutputInv'
  BY OutputStep, StreamsAssumption DEF SceneNext, sceneVars
<1>3. OutputInv => OutputStored
  BY DEF OutputInv, BufferTypes, FollowTypes, BufferStored, OutputStored, Output!TypeOK,
         Output!StoredComplete
<1> QED
  BY <1>1, <1>2, <1>3, PTL DEF SceneSpec

\* One stream of the identity provider runs uncancelled, the one the hub can cancel; with the
\* runs spaced the live flag is up just while one reads: see HubStream.OneStream and
\* SpacedLiveFollows, the safety of HubOneStream.
THEOREM HubSingle == SceneSpec => [](Hub!TypeOK /\ Hub!OneStream /\ Hub!SpacedLiveFollows)
<1>1. SceneInit => RelayInv
  BY RelayStart, StreamsAssumption DEF SceneInit
<1>2. RelayInv /\ [SceneNext]_sceneVars => RelayInv'
  BY RelayStep, StreamsAssumption DEF SceneNext, sceneVars
<1>3. RelayInv => Hub!TypeOK
  BY DEF RelayInv, RelayTypes, RunPc, Hub!TypeOK, Hub!None
<1>4. RelayInv => Hub!OneStream /\ Hub!SpacedLiveFollows
  BY DEF RelayInv, Spaced, Reading, Hub!SpacedLiveFollows, Hub!LiveFollows
<1>5. RelayInv => Hub!TypeOK /\ Hub!OneStream /\ Hub!SpacedLiveFollows
  BY <1>3, <1>4
<1> QED
  BY <1>1, <1>2, <1>5, PTL DEF SceneSpec

\* The host is sampled by one loop at a time: see LiveSampling.OneLoop, the safety of
\* LiveConverges.
THEOREM LoopSingle == SceneSpec => [](Live!TypeOK /\ Live!OneLoop)
<1>1. SceneInit => SamplingInv
  BY SamplingStart, StreamsAssumption DEF SceneInit
<1>2. SamplingInv /\ [SceneNext]_sceneVars => SamplingInv'
  BY SamplingStep, StreamsAssumption DEF SceneNext, sceneVars
<1>3. SamplingInv => Live!TypeOK
  BY DEF SamplingInv, SamplingTypes, SoleLoop, Live!TypeOK
<1>4. SamplingInv => Live!OneLoop
  BY DEF SamplingInv, SoleLoop, Live!OneLoop
<1>5. SamplingInv => Live!TypeOK /\ Live!OneLoop
  BY <1>3, <1>4
<1> QED
  BY <1>1, <1>2, <1>5, PTL DEF SceneSpec

\* A terminal session that does not end while its shell opens ends once, without a panic, and
\* no shell outlives it; the socket attached last has the output, whoever leaves; one socket
\* opens the shell: see Terminals.GentleEndedOnce, NoLostShell and LatestReceives, the safety
\* of TerminalEndsOnce.
THEOREM TerminalsEndOnce ==
  SceneSpec => [](/\ Terminal!TypeOK /\ Terminal!GentleEndedOnce /\ Terminal!NoLostShell
                  /\ Terminal!LatestReceives)
<1>1. SceneInit => TerminalInv
  BY TerminalStart DEF SceneInit
<1>2. TerminalInv /\ [SceneNext]_sceneVars => TerminalInv'
  BY TerminalStep, StreamsAssumption DEF SceneNext, sceneVars
<1>3. ASSUME TerminalInv PROVE Terminal!TypeOK
  <2>1. TermTypes /\ SocketInv /\ LinkInv
    BY <1>3 DEF TerminalInv
  <2>2. ASSUME NEW j \in Socket, NEW k \in Socket,
               {socket[j].pc, socket[k].pc} \subseteq {"dial", "dialed"},
               socket[j].of = socket[k].of
        PROVE  j = k
    <3>1. Dials(j, socket[k].of) /\ Dials(k, socket[k].of) /\ socket[k].of \in Session
      BY <2>1, <2>2 DEF Dials, SocketInv
    <3> QED
      BY <2>1, <3>1 DEF SocketInv
  <2>3. \A s \in Terminal!Session :
          /\ term[s].status \in {"absent", "connecting", "active", "closed", "failed"}
          /\ term[s].sends => term[s].latest \in Socket
          /\ watcher[s] \in {"none", "new", "waits"}
          /\ exited[s] \in Nat
          /\ ended[s] \in Nat
    BY <2>1 DEF TermTypes, TermRecord, LinkInv, Session
  <2>4. gentle \in BOOLEAN /\ panicked \in BOOLEAN
    BY <2>1 DEF TermTypes
  <2>5. \A k \in Socket : socket[k].pc # "off" => socket[k].of \in Terminal!Session
    BY <2>1 DEF SocketInv, Session
  <2> QED
    BY <2>2, <2>3, <2>4, <2>5 DEF Terminal!TypeOK
<1>4. ASSUME TerminalInv PROVE Terminal!GentleEndedOnce /\ Terminal!NoLostShell
  <2>1. ASSUME gentle, NEW s \in Session
        PROVE  ~panicked /\ ended[s] <= 1
               /\ (watcher[s] = "waits" => term[s].shell /\ ~term[s].done)
    <3>1. SessionInv(s) /\ ~panicked
      BY <1>4, <2>1 DEF TerminalInv
    <3> QED
      BY <3>1 DEF SessionInv
  <2>2. gentle => ~panicked
    BY <1>4 DEF TerminalInv
  <2> QED
    BY <2>1, <2>2 DEF Terminal!GentleEndedOnce, Terminal!EndedOnce, Terminal!NoLostShell, Session
<1>5. TerminalInv => /\ Terminal!TypeOK /\ Terminal!GentleEndedOnce /\ Terminal!NoLostShell
                     /\ Terminal!LatestReceives
  BY <1>3, <1>4 DEF TerminalInv, LinkInv
<1> QED
  BY <1>1, <1>2, <1>5, PTL DEF SceneSpec

=============================================================================
