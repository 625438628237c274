------------------------------- MODULE EventHub -------------------------------
(***************************************************************************)
(* The event stream (internal/server/events.go): the hub numbers every     *)
(* frame, keeps the last events in a ring, and hands them to subscribers   *)
(* through bounded channels; a client whose connection ends comes back     *)
(* with the id of the last frame it processed and is replayed what it      *)
(* missed, or told to reset.                                               *)
(*                                                                         *)
(* A step is one section under h.mu, one frame that reaches its client, or *)
(* the end of a connection.  Ids are numbers: <epoch-ms>-<seq> only grows, *)
(* also from one process to the next.  Whom an event reaches (its topic    *)
(* and recipient against the subscription) is a set of clients, and its    *)
(* frame stands for it by its place in the log.  The client is external:   *)
(* an EventSource.                                                         *)
(***************************************************************************)
EXTENDS Naturals, Sequences, FiniteSets

CONSTANTS
  Client,
  RingMin,          \* eventRingMaxEvents: never trimmed below
  Backlog,          \* eventBacklog: capacity of a subscriber's channel
  MaxEvents,        \* bound: published events
  MaxBreaks,        \* bound: connections lost
  MaxExits          \* bound: process exits

ASSUME HubAssumption ==
  /\ IsFiniteSet(Client)
  /\ {MaxEvents, MaxBreaks, MaxExits} \subseteq Nat
  /\ {RingMin, Backlog} \subseteq Nat \ {0}

VARIABLES
  steady,           \* environment: connections are not lost while they open;
                    \* chosen at the start
  newest,           \* lastMS and seq: the last id given
  floor,            \* floorID
  log,              \* every event published, in order
  kept,             \* how many of them, the last ones, h.ring still holds
  subscribers,      \* h.subscribers
  conn,             \* per client: its connection and the handler behind it
  last,             \* per client: the id of the last frame processed, 0 at first
  owed,             \* history: the events a client has to get
  closing,          \* the HTTP server is shutting down
  breaks, exits

hubVars == <<newest, floor, log, kept>>
clientVars == <<last, owed>>
vars == <<steady, hubVars, subscribers, conn, clientVars, closing, breaks, exits>>

\* The opening that is still to be written: the ids of its ready and its reset
\* frame, 0 for none, and the events replayed, in the order of the ring
NoConn == [pc |-> "off", ready |-> 0, reset |-> 0, replay |-> {}, frames |-> <<>>,
           feed |-> "live"]

\* h.ring, by place in the log
Ring == Len(log) - kept + 1 .. Len(log)
OldestID == IF kept > 0 THEN log[Len(log) - kept + 1].id ELSE floor

\* The events that reach client c and were given an id after this one
LaterIn(events, c, id) ==
  {n \in 1 .. Len(events) : c \in events[n].to /\ events[n].id > id}

After(c, id) == LaterIn(log, c, id)

Init ==
  /\ steady \in BOOLEAN
  /\ newest = 1 /\ floor = 1
  /\ log = <<>> /\ kept = 0
  /\ subscribers = {}
  /\ conn = [c \in Client |-> NoConn]
  /\ last = [c \in Client |-> 0]
  /\ owed = [c \in Client |-> {}]
  /\ closing = FALSE
  /\ breaks = 0 /\ exits = 0

----------------------------------------------------------------------------
(* The hub *)

\* Slip: the subscriber is dropped and its channel left open
RemoveSilently(C, cs) == cs

\* remove: the subscribers C leave, cs are the connections with their channels closed
Remove(C, cs) == [c \in Client |-> IF c \in C THEN [cs[c] EXCEPT !.feed = "closed"] ELSE cs[c]]

Full(c) == Len(conn[c].frames) >= Backlog

\* publishTo, for the clients the event reaches; trim lets go of old entries
\* down to RingMin, of as many as are too old
Publish(reached) ==
  /\ Len(log) < MaxEvents
  /\ newest' = newest + 1
  /\ log' = Append(log, [id |-> newest', to |-> reached])
  /\ kept' \in {kept + 1} \cup (RingMin .. kept + 1)
  /\ LET listed == reached \cap subscribers
         slow == {c \in listed : Full(c)}
         sent == [c \in Client |->
                    IF c \in listed \ slow
                    THEN [conn[c] EXCEPT !.frames = Append(@, Len(log'))]
                    ELSE conn[c]]
     IN  /\ conn' = Remove(slow, sent)
         /\ subscribers' = subscribers \ slow
  /\ owed' = [c \in Client |-> IF c \in reached /\ last[c] # 0
                               THEN owed[c] \cup {Len(log')} ELSE owed[c]]
  /\ UNCHANGED <<steady, floor, last, closing, breaks, exits>>

\* Slip: only an id newer than the newest is out of the ring
BeyondNewest(id, new) == id > new

\* The id lies outside what the ring can replay
OutsideRing(id, new) == OldestID > id \/ id > new

\* replay: what the ring holds of the events after the client's last frame
Missed(c) == Ring \cap After(c, last[c])

\* subscribe: ready with a new id, then the replay or a reset with the next one,
\* and from here on live
Subscribe(c) ==
  /\ conn[c].pc = "asked"
  /\ LET ready == newest + 1
         lost  == last[c] # 0 /\ OutsideRing(last[c], ready)
     IN  /\ conn' = [conn EXCEPT ![c] =
                      [NoConn EXCEPT !.pc = "open", !.ready = ready,
                                     !.reset = IF lost THEN ready + 1 ELSE 0,
                                     !.replay = IF last[c] = 0 \/ lost THEN {} ELSE Missed(c)]]
         /\ newest' = IF lost THEN ready + 1 ELSE ready
  /\ subscribers' = subscribers \cup {c}
  /\ UNCHANGED <<steady, floor, log, kept, clientVars, closing, breaks, exits>>

----------------------------------------------------------------------------
(* A connection: the handler writes the opening, then what the channel holds *)

Request(c) ==
  /\ conn[c].pc = "off" /\ ~closing
  /\ conn' = [conn EXCEPT ![c].pc = "asked"]
  /\ UNCHANGED <<steady, hubVars, subscribers, clientVars, closing, breaks, exits>>

\* The client has processed the frame with this id; todo is still owed to it
Processed(c, id, todo) ==
  /\ last' = [last EXCEPT ![c] = id]
  /\ owed' = [owed EXCEPT ![c] = todo]
  /\ UNCHANGED <<steady, hubVars, subscribers, closing, breaks, exits>>

\* A first ready begins the account
WriteReady(c) ==
  /\ conn[c].ready # 0
  /\ conn' = [conn EXCEPT ![c].ready = 0]
  /\ Processed(c, conn[c].ready, IF last[c] # 0 THEN owed[c] ELSE After(c, conn[c].ready))

\* A reset makes the client read everything anew
WriteReset(c) ==
  /\ conn[c].ready = 0 /\ conn[c].reset # 0
  /\ conn' = [conn EXCEPT ![c].reset = 0]
  /\ Processed(c, conn[c].reset, {n \in owed[c] : log[n].id > conn[c].reset})

\* The next frame the handler writes is the n-th event
NextReplayed(c, n) ==
  /\ conn[c].ready = 0 /\ conn[c].reset = 0
  /\ n \in conn[c].replay /\ \A m \in conn[c].replay : n <= m

Opening(c) == conn[c].ready # 0 \/ conn[c].reset # 0 \/ conn[c].replay # {}

NextLive(c, n) ==
  ~Opening(c) /\ conn[c].frames # <<>> /\ n = Head(conn[c].frames)

WriteReplay(c) ==
  \E n \in conn[c].replay :
    /\ NextReplayed(c, n)
    /\ conn' = [conn EXCEPT ![c].replay = @ \ {n}]
    /\ Processed(c, log[n].id, owed[c] \ {n})

WriteLive(c) ==
  \E n \in 1 .. Len(log) :
    /\ NextLive(c, n)
    /\ conn' = [conn EXCEPT ![c].frames = Tail(@)]
    /\ Processed(c, log[n].id, owed[c] \ {n})

\* A closed channel is read to its end before the handler returns
HandlerReturns(c) ==
  /\ conn[c].pc = "open" /\ ~Opening(c) /\ conn[c].frames = <<>>
  /\ conn[c].feed = "closed"
  /\ conn' = [conn EXCEPT ![c] = NoConn]
  /\ UNCHANGED <<steady, hubVars, subscribers, clientVars, closing, breaks, exits>>

\* The connection is lost, with what the client had not processed: the request's
\* context ends and the handler unsubscribes
Break(c) ==
  /\ breaks < MaxBreaks
  /\ conn[c].pc = "open"
  /\ steady => ~Opening(c)
  /\ breaks' = breaks + 1
  /\ conn' = [conn EXCEPT ![c] = NoConn]
  /\ subscribers' = subscribers \ {c}
  /\ UNCHANGED <<steady, hubVars, clientVars, closing, exits>>

----------------------------------------------------------------------------
(* The end of the process, and newEventHub of the next one *)

Shutdown ==
  /\ exits < MaxExits /\ ~closing
  /\ closing' = TRUE
  /\ conn' = Remove(subscribers, conn)
  /\ subscribers' = {}
  /\ UNCHANGED <<steady, hubVars, clientVars, breaks, exits>>

Restart ==
  /\ exits < MaxExits
  /\ exits' = exits + 1
  /\ newest' = newest + 1 /\ floor' = newest'
  /\ kept' = 0
  /\ subscribers' = {}
  /\ conn' = [c \in Client |-> NoConn]
  /\ closing' = FALSE
  /\ UNCHANGED <<steady, log, clientVars, breaks>>

WriteOpening(c) == WriteReady(c) \/ WriteReset(c) \/ WriteReplay(c)

Handler(c) == Subscribe(c) \/ WriteOpening(c) \/ WriteLive(c) \/ HandlerReturns(c)

Next ==
  \/ \E reached \in SUBSET Client : Publish(reached)
  \/ \E c \in Client : Handler(c) \/ Request(c) \/ Break(c)
  \/ Shutdown \/ Restart

Spec == Init /\ [][Next]_vars

\* Handlers run and clients read and come back (the opening carries their retry
\* time); a server that shuts down is followed by the next one.
Fairness ==
  /\ \A c \in Client : WF_vars(Handler(c)) /\ WF_vars(Request(c))
  /\ WF_vars(closing /\ Restart)

FairSpec == Spec /\ Fairness

----------------------------------------------------------------------------
(* Properties *)

ConnRecord ==
  [pc : {"off", "asked", "open"}, ready : Nat, reset : Nat, replay : SUBSET Nat,
   frames : Seq(Nat), feed : {"live", "closed"}]

\* Channels hold at most Backlog frames, every id was given out, every frame is
\* of an event published, and the hub knows exactly the connections whose
\* channel is open.
TypeOK ==
  /\ steady \in BOOLEAN /\ closing \in BOOLEAN
  /\ newest \in Nat /\ floor \in 1 .. newest
  /\ log \in Seq([id : Nat, to : SUBSET Client])
  /\ \A n \in 1 .. Len(log) : log[n].id \in 1 .. newest
  /\ kept \in 0 .. Len(log)
  /\ conn \in [Client -> ConnRecord]
  /\ subscribers = {c \in Client : conn[c].pc = "open" /\ conn[c].feed = "live"}
  /\ last \in [Client -> 0 .. newest]
  /\ owed \in [Client -> SUBSET (1 .. Len(log))]
  /\ \A c \in Client :
       /\ conn[c].ready \in 0 .. newest /\ conn[c].reset \in 0 .. newest
       /\ Len(conn[c].frames) <= Backlog
       /\ conn[c].replay \subseteq 1 .. Len(log)
       /\ \A i \in 1 .. Len(conn[c].frames) : conn[c].frames[i] \in 1 .. Len(log)
  /\ breaks \in 0 .. MaxBreaks /\ exits \in 0 .. MaxExits

\* Every event a client processes is the oldest one still owed to it: across
\* overflows, lost connections, trimming, shutdown and restarts none is skipped
\* without a reset, none comes twice, none comes out of order.
OldestFirst ==
  \A c \in Client, n \in 1 .. Len(log) :
    NextReplayed(c, n) \/ NextLive(c, n) => n \in owed[c] /\ \A i \in owed[c] : n <= i

\* ... as long as no connection is lost while its opening is under way.
Gapless == steady => OldestFirst

\* What is on its way to a client is well formed and leaves nothing out.
Delivery == TypeOK /\ Gapless

\* The n-th event published has still to come to the client
Outstanding(c, n) == n \in owed[c]

\* A client gets the events owed to it, or a reset, in the end.
CaughtUp ==
  \A c \in Client, n \in 1 .. MaxEvents :
    (steady /\ Outstanding(c, n)) ~> ~Outstanding(c, n)

----------------------------------------------------------------------------
(* A claim of the documentation that the code does not keep *)

\* "a Last-Event-ID inside it replays every later event of the subscribed topics,
\* one outside it answers a reset event" (handleEvents), with the id of the last
\* frame processed: so it is wherever the connection was lost.
ReplaysEveryLater == OldestFirst
=============================================================================
