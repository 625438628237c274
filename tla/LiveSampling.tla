----------------------------- MODULE LiveSampling -----------------------------
(***************************************************************************)
(* Live sampling (internal/monitoring/live.go, internal/server/            *)
(* monitoring_live.go): one loop samples the host while somebody listens   *)
(* to the monitoring topic, at the interval the configuration says.  Who   *)
(* comes first or leaves last, and a saved configuration, start a call of  *)
(* syncLiveSampling; its calls exclude one another (liveMu) and it waits   *)
(* for a stopped loop to end.                                              *)
(*                                                                         *)
(* A step is one section under h.mu or under the sampler's mutex.          *)
(***************************************************************************)
EXTENDS Naturals

CONSTANTS
  Loop,             \* goroutines of LiveSampler.loop
  MaxWatchers,      \* bound: subscribers of the monitoring topic at a time
  MaxSaves,         \* bound: saved intervals
  MaxArrivals       \* bound: subscriptions

None == "none"

VARIABLES
  watchers,         \* topicCounts["monitoring"]
  dues,             \* calls of syncLiveSampling under way: from a topic, from a save
  setting,          \* the interval in the configuration
  call,             \* the call that holds liveMu
  sampler,          \* running, interval, and the loop that was started last
  loop,             \* per goroutine: where it is, its interval, its stopCh
  arrivals

samplingVars == <<watchers, dues, setting, call, sampler, loop, arrivals>>

NoCall == [pc |-> "none", reread |-> FALSE, interval |-> 0]
NoLoop == [pc |-> "none", interval |-> 0, stopped |-> FALSE]
NotRunning == [running |-> FALSE, interval |-> 0, loop |-> None]

Init ==
  /\ watchers = 0
  /\ dues = [topic |-> 0, save |-> 0]
  /\ setting = 0
  /\ call = NoCall
  /\ sampler = NotRunning
  /\ loop = [l \in Loop |-> NoLoop]
  /\ arrivals = 0

----------------------------------------------------------------------------
(* What wakes it *)

Watch ==
  /\ watchers < MaxWatchers /\ arrivals < MaxArrivals
  /\ arrivals' = arrivals + 1
  /\ watchers' = watchers + 1
  /\ dues' = [dues EXCEPT !.topic = IF watchers = 0 THEN @ + 1 ELSE @]
  /\ UNCHANGED <<setting, call, sampler, loop>>

Unwatch ==
  /\ watchers > 0
  /\ watchers' = watchers - 1
  /\ dues' = [dues EXCEPT !.topic = IF watchers = 1 THEN @ + 1 ELSE @]
  /\ UNCHANGED <<setting, call, sampler, loop, arrivals>>

\* liveSamplingConfigSaved, after another interval was stored
Save ==
  /\ setting < MaxSaves
  /\ setting' = setting + 1
  /\ dues' = [dues EXCEPT !.save = @ + 1]
  /\ UNCHANGED <<watchers, call, sampler, loop, arrivals>>

----------------------------------------------------------------------------
(* syncLiveSampling *)

\* liveMu is taken and the subscribers are counted
Enter(from) ==
  /\ call.pc = "none" /\ dues[from] > 0
  /\ dues' = [dues EXCEPT ![from] = @ - 1]
  /\ call' = [NoCall EXCEPT !.pc = IF watchers > 0 THEN "read" ELSE "stop",
                            !.reread = (from = "save")]
  /\ UNCHANGED <<watchers, setting, sampler, loop, arrivals>>

\* Slip: a loop that runs is left alone
RestartNever(interval) == FALSE

Restart(interval) == call.reread /\ sampler.running /\ sampler.interval # interval

ReadInterval ==
  /\ call.pc = "read"
  /\ call' = [call EXCEPT !.interval = setting,
                          !.pc = IF Restart(setting) THEN "restart" ELSE "start"]
  /\ UNCHANGED <<watchers, dues, setting, sampler, loop, arrivals>>

\* Stop: the loop is told, and waited for
StopLoop ==
  /\ call.pc \in {"stop", "restart"}
  /\ IF sampler.running
     THEN /\ sampler' = [sampler EXCEPT !.running = FALSE]
          /\ loop' = [loop EXCEPT ![sampler.loop].stopped = TRUE]
          /\ call' = [call EXCEPT !.pc = IF @ = "stop" THEN "wait" ELSE "waitToRestart"]
     ELSE /\ call' = IF call.pc = "stop" THEN NoCall ELSE [call EXCEPT !.pc = "start"]
          /\ UNCHANGED <<sampler, loop>>
  /\ UNCHANGED <<watchers, dues, setting, arrivals>>

Done == loop[sampler.loop].pc = "none"

StopReturns ==
  /\ call.pc \in {"wait", "waitToRestart"}
  /\ Done
  /\ call' = IF call.pc = "wait" THEN NoCall ELSE [call EXCEPT !.pc = "start"]
  /\ UNCHANGED <<watchers, dues, setting, sampler, loop, arrivals>>

StartLoop ==
  /\ call.pc = "start"
  /\ IF sampler.running THEN UNCHANGED <<sampler, loop>>
     ELSE \E l \in Loop :
            /\ loop[l].pc = "none"
            /\ sampler' = [running |-> TRUE, interval |-> call.interval, loop |-> l]
            /\ loop' = [loop EXCEPT ![l] = [NoLoop EXCEPT !.pc = "sample",
                                                          !.interval = call.interval]]
  /\ call' = NoCall
  /\ UNCHANGED <<watchers, dues, setting, arrivals>>

CallStep ==
  \/ \E from \in {"topic", "save"} : Enter(from)
  \/ ReadInterval \/ StopLoop \/ StopReturns \/ StartLoop

----------------------------------------------------------------------------
(* The loop *)

\* The samples are published: a subscriber whose channel is full leaves, by a hub
\* that tells another goroutine
Sample(l) ==
  /\ loop[l].pc = "sample"
  /\ loop' = [loop EXCEPT ![l].pc = "wait"]
  /\ \/ UNCHANGED <<watchers, dues>>
     \/ /\ watchers > 0
        /\ watchers' = watchers - 1
        /\ dues' = [dues EXCEPT !.topic = IF watchers = 1 THEN @ + 1 ELSE @]
  /\ UNCHANGED <<setting, call, sampler, arrivals>>

Tick(l) ==
  /\ loop[l].pc = "wait"
  /\ loop' = [loop EXCEPT ![l].pc = "sample"]
  /\ UNCHANGED <<watchers, dues, setting, call, sampler, arrivals>>

Return(l) ==
  /\ loop[l].pc = "wait" /\ loop[l].stopped
  /\ loop' = [loop EXCEPT ![l] = NoLoop]
  /\ UNCHANGED <<watchers, dues, setting, call, sampler, arrivals>>

Next ==
  \/ Watch \/ Unwatch \/ Save \/ CallStep
  \/ \E l \in Loop : Sample(l) \/ Tick(l) \/ Return(l)

Spec == Init /\ [][Next]_samplingVars

\* Calls go on; a loop samples, and of a closed stopCh and a tick it takes the first
\* in the end.
Fairness ==
  /\ WF_samplingVars(CallStep)
  /\ \A l \in Loop : WF_samplingVars(Sample(l)) /\ SF_samplingVars(Return(l))

FairSpec == Spec /\ Fairness

----------------------------------------------------------------------------
(* Properties *)

TypeOK ==
  /\ watchers \in 0 .. MaxWatchers /\ dues \in [topic : Nat, save : Nat]
  /\ setting \in 0 .. MaxSaves
  /\ sampler.running => sampler.loop \in Loop /\ loop[sampler.loop].pc # "none"
  /\ \A l \in Loop : loop[l].interval \in 0 .. MaxSaves

\* The host is sampled by one loop at a time, through stops, restarts and both kinds of
\* calls (LiveSampler.Stop waits for the loop).
OneLoop == \A k, l \in Loop : loop[k].pc # "none" /\ loop[l].pc # "none" => k = l

\* The loop runs just while somebody watches, at the interval last saved, ...
SamplingAsWanted ==
  IF watchers > 0 THEN sampler.running /\ sampler.interval = setting ELSE ~sampler.running

\* ... in the end, however subscriptions, overflows and saves overtake one another.
Converges == <>[]SamplingAsWanted
=============================================================================
