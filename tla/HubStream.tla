------------------------------- MODULE HubStream -------------------------------
(***************************************************************************)
(* The identity provider's notification stream (internal/server/           *)
(* inbox_hub.go): relayed while somebody listens to the notifications      *)
(* topic and an account is signed in.  Who subscribes or leaves last       *)
(* (events.go) makes a goroutine that compares what is wanted with what    *)
(* runs.                                                                   *)
(*                                                                         *)
(* A step is one section under hub.mu, one answer of the provider, or the  *)
(* end of a connection or a delay.  The provider is external.              *)
(***************************************************************************)
EXTENDS Naturals

CONSTANTS
  Run,              \* goroutines of runHubStream
  MaxListeners,     \* bound: subscribers of the notifications topic at a time
  MaxChanges        \* bound: subscriptions and sign-ins

None == "none"

VARIABLES
  spaced,           \* environment: a cancelled stream ends before another starts
  listeners,        \* topicCounts["notifications"]
  due,              \* calls of syncHubStream under way
  signedIn,         \* an account is bound and has a token
  cancel,           \* hub.cancel, as the run it cancels
  run,              \* per goroutine: where it is, and its context
  live,             \* hub.live
  stopped,          \* stopAll was called
  changes

hubVars == <<spaced, listeners, due, signedIn, cancel, run, live, stopped, changes>>

NoRun == [pc |-> "idle", cancelled |-> FALSE]

Init ==
  /\ spaced \in BOOLEAN
  /\ listeners = 0 /\ due = 0
  /\ signedIn = FALSE
  /\ cancel = None
  /\ run = [r \in Run |-> NoRun]
  /\ live = FALSE /\ stopped = FALSE
  /\ changes = 0

----------------------------------------------------------------------------
(* Who wants the stream *)

\* add, its callback for a first subscriber, and the handler's own call
Listen ==
  /\ changes < MaxChanges /\ listeners < MaxListeners /\ ~stopped
  /\ changes' = changes + 1
  /\ listeners' = listeners + 1
  /\ due' = due + (IF listeners = 0 THEN 2 ELSE 1)
  /\ UNCHANGED <<spaced, signedIn, cancel, run, live, stopped>>

Announced(left) == IF left = 0 THEN 1 ELSE 0

\* remove, and its callback for a last subscriber
Unlisten ==
  /\ listeners > 0
  /\ listeners' = listeners - 1
  /\ due' = due + Announced(listeners')
  /\ UNCHANGED <<spaced, signedIn, cancel, run, live, stopped, changes>>

\* Nobody is told: the next subscriber's call sees it
SignIn ==
  /\ changes < MaxChanges /\ ~signedIn
  /\ changes' = changes + 1
  /\ signedIn' = TRUE
  /\ UNCHANGED <<spaced, listeners, due, cancel, run, live, stopped>>

SignOut ==
  /\ signedIn
  /\ signedIn' = FALSE
  /\ UNCHANGED <<spaced, listeners, due, cancel, run, live, stopped, changes>>

Wanted == listeners > 0 /\ signedIn

\* syncHubStream
Sync ==
  /\ due > 0
  /\ due' = due - 1
  /\ IF Wanted /\ cancel = None /\ ~stopped
     THEN /\ spaced => \A r \in Run : run[r].pc = "idle"
          /\ \E r \in Run : /\ run[r].pc = "idle"
                            /\ run' = [run EXCEPT ![r] = [NoRun EXCEPT !.pc = "open"]]
                            /\ cancel' = r
     ELSE IF ~Wanted /\ cancel # None
     THEN /\ run' = [run EXCEPT ![cancel].cancelled = TRUE]
          /\ cancel' = None
     ELSE UNCHANGED <<run, cancel>>
  /\ UNCHANGED <<spaced, listeners, signedIn, live, stopped, changes>>

\* stopHubStream
StopAll ==
  /\ ~stopped
  /\ stopped' = TRUE
  /\ cancel' = None
  /\ run' = [r \in Run |-> IF run[r].pc = "idle" THEN run[r]
                           ELSE [run[r] EXCEPT !.cancelled = TRUE]]
  /\ UNCHANGED <<spaced, listeners, due, signedIn, live, changes>>

----------------------------------------------------------------------------
(* runHubStream and readHubStream *)

Go(r, pc) == run' = [run EXCEPT ![r].pc = pc]

\* IssuerStream: refused, for want of a token or by the provider; not reached; opened
Open(r) ==
  /\ run[r].pc = "open"
  /\ \/ Go(r, "end")
     \/ Go(r, IF run[r].cancelled THEN "end" ELSE "sleep")
     \/ signedIn /\ Go(r, "opened")
  /\ UNCHANGED <<spaced, listeners, due, signedIn, cancel, live, stopped, changes>>

SetLive(r) ==
  /\ run[r].pc = "opened"
  /\ live' = TRUE
  /\ Go(r, "read")
  /\ UNCHANGED <<spaced, listeners, due, signedIn, cancel, stopped, changes>>

\* The scanner ends: dropped, cancelled, or told session-terminated, which ends the grant
ReadEnds(r) ==
  /\ run[r].pc = "read"
  /\ \/ Go(r, "dropped") /\ UNCHANGED signedIn
     \/ Go(r, "terminated") /\ signedIn' = FALSE
  /\ UNCHANGED <<spaced, listeners, due, cancel, live, stopped, changes>>

Deferred == FALSE

\* The deferred setHubLive(false)
UnsetLive(r) ==
  /\ run[r].pc \in {"dropped", "terminated"}
  /\ live' = Deferred
  /\ Go(r, IF run[r].pc = "terminated" \/ run[r].cancelled THEN "end" ELSE "sleep")
  /\ UNCHANGED <<spaced, listeners, due, signedIn, cancel, stopped, changes>>

Wake(r) ==
  /\ run[r].pc = "sleep"
  /\ Go(r, IF run[r].cancelled THEN "end" ELSE "open")
  /\ UNCHANGED <<spaced, listeners, due, signedIn, cancel, live, stopped, changes>>

\* Slip: a run that ends always clears the cancel of the stream
StillCurrentAlways(r) == TRUE

StillCurrent(r) == ~run[r].cancelled

\* endHubStream
End(r) ==
  /\ run[r].pc = "end"
  /\ cancel' = IF StillCurrent(r) THEN None ELSE cancel
  /\ run' = [run EXCEPT ![r] = NoRun]
  /\ UNCHANGED <<spaced, listeners, due, signedIn, live, stopped, changes>>

RunStep(r) == Open(r) \/ SetLive(r) \/ UnsetLive(r) \/ Wake(r) \/ End(r)

Next ==
  \/ Listen \/ Unlisten \/ SignIn \/ SignOut \/ Sync \/ StopAll
  \/ \E r \in Run : RunStep(r) \/ ReadEnds(r)

Spec == Init /\ [][Next]_hubVars

\* Goroutines run; a stream whose context is cancelled ends; the provider ends a
\* stream when it likes.
Fairness ==
  /\ WF_hubVars(Sync)
  /\ \A r \in Run : WF_hubVars(RunStep(r)) /\ WF_hubVars(run[r].cancelled /\ ReadEnds(r))

FairSpec == Spec /\ Fairness

----------------------------------------------------------------------------
(* Properties *)

TypeOK ==
  /\ {spaced, signedIn, live, stopped} \subseteq BOOLEAN
  /\ listeners \in 0 .. MaxListeners /\ due \in Nat
  /\ cancel \in Run \cup {None}
  /\ \A r \in Run : run[r].pc \in {"idle", "open", "opened", "read", "dropped",
                                   "terminated", "sleep", "end"}

\* One stream at a time, and hub.cancel cancels it: a cancelled goroutine that ends late
\* does not take its successor's place (endHubStream), and none runs on after the stop.
OneStream == \A r \in Run : run[r].pc # "idle" /\ ~run[r].cancelled <=> cancel = r

\* hub.live says whether a stream is read: a change in the hub's inbox is published
\* here or relayed from there, not both or neither (hubWritten) ...
LiveFollows == live <=> \E r \in Run : run[r].pc \in {"read", "dropped", "terminated"}

\* ... as long as a cancelled stream has ended before the next starts.
SpacedLiveFollows == spaced => LiveFollows

\* When the last subscriber has left and nobody comes, the stream ends.
EndsUnwanted == (listeners = 0) ~> (listeners > 0 \/ \A r \in Run : run[r].pc = "idle")
=============================================================================
