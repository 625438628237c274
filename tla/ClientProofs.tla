----------------------------- MODULE ClientProofs -----------------------------
(***************************************************************************)
(* What an event stream delivers, for every number of clients, every ring  *)
(* and backlog, and any number of events, breaks and restarts: each event  *)
(* is the oldest one owed, as long as no connection breaks while it opens. *)
(* And what sign-ins leave, for any sets of them and any incidents: one    *)
(* key each, handed over once, and nothing of a key that was removed.      *)
(***************************************************************************)
EXTENDS MCClient, FiniteSetTheorems, TLAPS

----------------------------------------------------------------------------
(* The event stream: the inductive invariant *)

\* The log is in the order of the ids, and the ring is its end
LogInv ==
  /\ \A m, n \in 1 .. Len(log) : m < n => log[m].id < log[n].id
  /\ \A n \in Ring : log[n].id > floor
  /\ kept = 0 => \A n \in 1 .. Len(log) : log[n].id < floor

Channel(c) == {conn[c].frames[i] : i \in 1 .. Len(conn[c].frames)}

\* What an open connection will still hand to its client, and what it should
Coming(c) == conn[c].replay \cup Channel(c)

Due(c) == IF conn[c].reset # 0 THEN After(c, conn[c].reset)
          ELSE IF last[c] = 0 THEN After(c, conn[c].ready)
          ELSE owed[c]

\* Only events for the client are owed to it, none before its first frame
OwedInv(c) ==
  /\ owed[c] \subseteq After(c, 0)
  /\ last[c] = 0 => owed[c] = {}

\* Without a connection, the client's last id tells all: it makes the next process
\* reset, or what is owed are the events after it
ClosedInv(c) ==
  conn[c].pc # "open" =>
    /\ conn[c] = [NoConn EXCEPT !.pc = conn[c].pc]
    /\ last[c] = 0 \/ last[c] < floor \/ owed[c] = After(c, last[c])

\* An open connection brings the oldest of what is due, all of it while it is subscribed
ComingInv(c) ==
  /\ Coming(c) \subseteq Due(c)
  /\ \A m \in Coming(c), n \in Due(c) : n < m => n \in Coming(c)
  /\ conn[c].feed = "live" => Due(c) \subseteq Coming(c)
  /\ \A i, j \in 1 .. Len(conn[c].frames) : i < j => conn[c].frames[i] < conn[c].frames[j]
  /\ \A m \in conn[c].replay, n \in Channel(c) : m < n

\* The opening: a first ready or a reset goes without a replay; what is owed has no
\* gap, and once the opening is written it is everything after the client's last id
OpeningInv(c) ==
  /\ last[c] = 0 => conn[c].ready # 0 /\ conn[c].reset = 0 /\ conn[c].replay = {}
  /\ conn[c].reset # 0 => conn[c].replay = {} /\ After(c, conn[c].reset) \subseteq owed[c]
  /\ conn[c].reset = 0 => \A n \in owed[c], m \in After(c, 0) : n < m => m \in owed[c]
  /\ conn[c].ready # 0 /\ conn[c].reset = 0 /\ last[c] # 0
       => owed[c] = conn[c].replay \cup After(c, conn[c].ready)
  /\ ~Opening(c) => owed[c] = After(c, last[c])

StreamInv(c) ==
  /\ OwedInv(c)
  /\ ClosedInv(c)
  /\ conn[c].pc = "open" => ComingInv(c) /\ OpeningInv(c)

HubInv == LogInv /\ (steady => \A c \in Client : StreamInv(c))

----------------------------------------------------------------------------
(* Type correctness                                                        *)

LogOK ==
  /\ newest \in Nat /\ floor \in 1 .. newest
  /\ log \in Seq([id : Nat, to : SUBSET Client])
  /\ \A n \in 1 .. Len(log) : log[n].id \in 1 .. newest
  /\ kept \in 0 .. Len(log)

ClientOK(c) ==
  /\ conn[c] \in ConnRecord
  /\ c \in subscribers <=> conn[c].pc = "open" /\ conn[c].feed = "live"
  /\ last[c] \in 0 .. newest
  /\ owed[c] \subseteq 1 .. Len(log)
  /\ conn[c].ready \in 0 .. newest /\ conn[c].reset \in 0 .. newest
  /\ Len(conn[c].frames) <= Backlog
  /\ conn[c].replay \subseteq 1 .. Len(log)
  /\ \A i \in 1 .. Len(conn[c].frames) : conn[c].frames[i] \in 1 .. Len(log)

RestOK ==
  /\ steady \in BOOLEAN /\ closing \in BOOLEAN
  /\ breaks \in 0 .. MaxBreaks /\ exits \in 0 .. MaxExits
  /\ conn = [c \in Client |-> conn[c]]
  /\ subscribers \subseteq Client
  /\ last = [c \in Client |-> last[c]]
  /\ owed = [c \in Client |-> owed[c]]

LEMMA TypeParts == TypeOK <=> LogOK /\ RestOK /\ \A c \in Client : ClientOK(c)
<1>1. TypeOK => LogOK /\ RestOK /\ \A c \in Client : ClientOK(c)
  BY DEF TypeOK, LogOK, RestOK, ClientOK
<1>2. ASSUME LogOK, RestOK, \A c \in Client : ClientOK(c) PROVE TypeOK
  <2>1. conn \in [Client -> ConnRecord] /\ last \in [Client -> 0 .. newest]
    BY <1>2 DEF RestOK, ClientOK
  <2>2. owed \in [Client -> SUBSET (1 .. Len(log))]
    BY <1>2 DEF RestOK, ClientOK
  <2> QED
    BY <1>2, <2>1, <2>2 DEF TypeOK, LogOK, RestOK, ClientOK
<1> QED
  BY <1>1, <1>2

LEMMA TypePartsNext == TypeOK' <=> LogOK' /\ RestOK' /\ \A c \in Client : ClientOK(c)'
<1>1. TypeOK' => LogOK' /\ RestOK' /\ \A c \in Client : ClientOK(c)'
  BY DEF TypeOK, LogOK, RestOK, ClientOK
<1>2. ASSUME LogOK', RestOK', \A c \in Client : ClientOK(c)' PROVE TypeOK'
  <2>1. conn' \in [Client -> ConnRecord] /\ last' \in [Client -> 0 .. newest']
    BY <1>2 DEF RestOK, ClientOK
  <2>2. owed' \in [Client -> SUBSET (1 .. Len(log'))]
    BY <1>2 DEF RestOK, ClientOK
  <2> QED
    BY <1>2, <2>1, <2>2 DEF TypeOK, LogOK, RestOK, ClientOK
<1> QED
  BY <1>1, <1>2

LEMMA NoFrames == Len(<<>>) = 0 /\ <<>> \in Seq(Nat)
OBVIOUS

\* Tail takes the first frame off a channel
LEMMA TailFrames ==
  ASSUME NEW q \in Seq(Nat), q # <<>>
  PROVE  /\ Tail(q) \in Seq(Nat) /\ Len(q) \in Nat \ {0} /\ Len(Tail(q)) = Len(q) - 1
         /\ \A i \in 1 .. Len(q) - 1 : Tail(q)[i] = q[i + 1]
         /\ Head(q) = q[1]
OBVIOUS

LEMMA TailIn ==
  ASSUME NEW q \in Seq(Nat), q # <<>>, NEW S, \A i \in 1 .. Len(q) : q[i] \in S
  PROVE  \A i \in 1 .. Len(Tail(q)) : Tail(q)[i] \in S
BY TailFrames

LEMMA FramesIn ==
  ASSUME NEW r \in ConnRecord, NEW q \in Seq(Nat)
  PROVE  [r EXCEPT !.frames = q] \in ConnRecord
BY DEF ConnRecord

LEMMA AppendFrames ==
  ASSUME NEW q \in Seq(Nat), NEW n \in Nat
  PROVE  /\ Append(q, n) \in Seq(Nat) /\ Len(q) \in Nat /\ Len(Append(q, n)) = Len(q) + 1
         /\ \A i \in 1 .. Len(q) : Append(q, n)[i] = q[i]
         /\ Append(q, n)[Len(q) + 1] = n
OBVIOUS

\* What Append makes of the log
LEMMA LogAppended ==
  ASSUME LogOK, NEW reached \in SUBSET Client,
         newest' = newest + 1, log' = Append(log, [id |-> newest', to |-> reached])
  PROVE  /\ log' \in Seq([id : Nat, to : SUBSET Client])
         /\ Len(log') = Len(log) + 1 /\ Len(log) \in Nat
         /\ \A n \in 1 .. Len(log) : log'[n] = log[n]
         /\ log'[Len(log) + 1] = [id |-> newest + 1, to |-> reached]
BY DEF LogOK

\* A client that a step leaves alone
LEMMA ClientKeptOK ==
  ASSUME NEW c \in Client, LogOK, ClientOK(c),
         newest' \in Nat, newest <= newest', Len(log') \in Nat, Len(log) <= Len(log'),
         conn'[c] = conn[c], last'[c] = last[c], owed'[c] = owed[c],
         c \in subscribers' <=> c \in subscribers
  PROVE  ClientOK(c)'
BY SMTT(30) DEF LogOK, ClientOK

LEMMA LogKeptOK ==
  ASSUME LogOK, UNCHANGED <<floor, log, kept>>, newest' \in Nat, newest <= newest'
  PROVE  LogOK'
BY DEF LogOK

\* A step of one client, or of its connection
LEMMA OneClientType ==
  ASSUME TypeOK, NEW c \in Client, UNCHANGED <<floor, log, kept, steady, closing, exits>>,
         newest' \in Nat, newest <= newest', breaks' \in 0 .. MaxBreaks,
         conn' = [conn EXCEPT ![c] = conn'[c]], last' = [last EXCEPT ![c] = last'[c]],
         owed' = [owed EXCEPT ![c] = owed'[c]],
         subscribers' \in {subscribers, subscribers \cup {c}, subscribers \ {c}},
         ClientOK(c)'
  PROVE  TypeOK'
<1> USE TypeParts
<1>1. LogOK'
  BY LogKeptOK
<1>2. RestOK'
  BY DEF RestOK
<1>3. ASSUME NEW d \in Client PROVE ClientOK(d)'
  <2>1. CASE d = c
    BY <2>1
  <2>2. CASE d # c
    <3>1. conn'[d] = conn[d] /\ last'[d] = last[d] /\ owed'[d] = owed[d]
      BY <2>2 DEF TypeOK
    <3>2. d \in subscribers' <=> d \in subscribers
      BY <2>2
    <3>3. Len(log) \in Nat /\ Len(log') \in Nat /\ Len(log) <= Len(log')
      BY DEF LogOK
    <3> QED
      BY <3>1, <3>2, <3>3, ClientKeptOK
  <2> QED
    BY <2>1, <2>2
<1> QED
  BY <1>1, <1>2, <1>3, TypePartsNext

LEMMA HandlerType ==
  ASSUME TypeOK, NEW c \in Client, Handler(c) \/ Request(c) \/ Break(c)
  PROVE  TypeOK'
<1> USE DEF hubVars, clientVars
<1>0. /\ ClientOK(c) /\ LogOK /\ conn \in [Client -> ConnRecord]
      /\ last = [last EXCEPT ![c] = last[c]] /\ owed = [owed EXCEPT ![c] = owed[c]]
      /\ breaks \in 0 .. MaxBreaks /\ newest \in Nat
  BY TypeParts DEF TypeOK
<1>1. CASE Request(c) \/ HandlerReturns(c) \/ Break(c)
  <2>1. UNCHANGED <<newest, floor, log, kept, steady, closing, exits, last, owed>>
    BY <1>1 DEF Request, HandlerReturns, Break
  <2>2. conn' = [conn EXCEPT ![c] = conn'[c]] /\ breaks' \in 0 .. MaxBreaks
    BY <1>0, <1>1, HubAssumption DEF Request, HandlerReturns, Break
  <2>3. /\ conn'[c].pc \in {"off", "asked"} /\ c \notin subscribers'
        /\ conn'[c] = NoConn \/ conn'[c] = [conn[c] EXCEPT !.pc = "asked"]
        /\ subscribers' \in {subscribers, subscribers \ {c}}
    <3>1. CASE Request(c)
      BY <1>0, <3>1 DEF Request, ClientOK, ConnRecord
    <3>2. CASE HandlerReturns(c)
      BY <1>0, <3>2 DEF HandlerReturns, ClientOK, NoConn
    <3>3. CASE Break(c)
      BY <1>0, <3>3 DEF Break, NoConn
    <3> QED
      BY <1>1, <3>1, <3>2, <3>3
  <2>4. ClientOK(c)'
    <3>1. CASE conn'[c] = NoConn
      BY <1>0, <2>1, <2>3, <3>1, NoFrames, HubAssumption DEF ClientOK, NoConn, ConnRecord
    <3>2. CASE conn'[c] = [conn[c] EXCEPT !.pc = "asked"]
      BY <1>0, <2>1, <2>3, <3>2 DEF ClientOK, ConnRecord
    <3> QED
      BY <2>3, <3>1, <3>2
  <2> QED
    BY <1>0, <2>1, <2>2, <2>3, <2>4, OneClientType
<1>2. CASE Subscribe(c)
  <2>1. UNCHANGED <<floor, log, kept, steady, closing, exits, last, owed, breaks>>
    BY <1>2 DEF Subscribe
  <2>2. newest' \in {newest + 1, newest + 2} /\ subscribers' = subscribers \cup {c}
    BY <1>0, <1>2 DEF Subscribe
  <2>3. /\ conn'[c] \in ConnRecord /\ conn'[c].pc = "open" /\ conn'[c].frames = <<>>
        /\ conn'[c].feed = "live" /\ conn'[c].replay \subseteq 1 .. Len(log)
        /\ conn'[c].ready \in 0 .. newest' /\ conn'[c].reset \in 0 .. newest'
        /\ conn' = [conn EXCEPT ![c] = conn'[c]]
    <3> DEFINE ready  == newest + 1
               lost   == last[c] # 0 /\ OutsideRing(last[c], ready)
               reset  == IF lost THEN ready + 1 ELSE 0
               replay == IF last[c] = 0 \/ lost THEN {} ELSE Missed(c)
    <3>1. /\ conn' = [conn EXCEPT ![c] = [NoConn EXCEPT !.pc = "open", !.ready = ready,
                                                        !.reset = reset, !.replay = replay]]
          /\ newest' = IF lost THEN ready + 1 ELSE ready
      BY <1>0, <1>2 DEF Subscribe
    <3> HIDE DEF lost
    <3>2. conn'[c] = [pc |-> "open", ready |-> ready, reset |-> reset, replay |-> replay,
                      frames |-> <<>>, feed |-> "live"]
      BY <1>0, <3>1 DEF NoConn
    <3>3. replay \subseteq 1 .. Len(log)
      BY <3>1 DEF Missed, After, LaterIn
    <3>4. reset \in 0 .. newest' /\ ready \in 0 .. newest'
      BY <1>0, <3>1
    <3>5. reset \in Nat /\ ready \in Nat /\ replay \in SUBSET Nat
      BY <1>0, <3>3
    <3> HIDE DEF ready, reset, replay
    <3>6. conn'[c] \in ConnRecord
      BY <3>2, <3>5, NoFrames DEF ConnRecord
    <3>7. conn' = [conn EXCEPT ![c] = conn'[c]]
      BY <1>0, <3>1
    <3> QED
      BY <3>2, <3>3, <3>4, <3>6, <3>7
  <2>4. ClientOK(c)'
    <3>2. newest <= newest' /\ newest' \in Nat
      BY <1>0, <2>2
    <3> QED
      BY <1>0, <2>1, <2>2, <2>3, <3>2, NoFrames, HubAssumption, SMTT(30) DEF ClientOK
  <2> QED
    BY <1>0, <2>1, <2>2, <2>3, <2>4, OneClientType
<1>3. CASE WriteOpening(c) \/ WriteLive(c)
  <2>1. UNCHANGED <<newest, floor, log, kept, steady, closing, exits, breaks, subscribers>>
    BY <1>3 DEF WriteOpening, WriteReady, WriteReset, WriteReplay, WriteLive, Processed
  <2>2. /\ last' = [last EXCEPT ![c] = last'[c]] /\ owed' = [owed EXCEPT ![c] = owed'[c]]
        /\ conn' = [conn EXCEPT ![c] = conn'[c]]
    BY <1>0, <1>3 DEF WriteOpening, WriteReady, WriteReset, WriteReplay, WriteLive, Processed,
                      TypeOK
  <2>3. last'[c] \in 0 .. newest /\ owed'[c] \subseteq 1 .. Len(log)
    <3>1. CASE WriteReady(c) \/ WriteReset(c)
      BY <1>0, <3>1 DEF WriteReady, WriteReset, Processed, TypeOK, ClientOK, After, LaterIn
    <3>2. CASE WriteReplay(c)
      <4>1. PICK n \in conn[c].replay : Processed(c, log[n].id, owed[c] \ {n})
        BY <3>2 DEF WriteReplay
      <4>2. n \in 1 .. Len(log)
        BY <1>0, <4>1 DEF ClientOK
      <4> QED
        BY <1>0, <4>1, <4>2 DEF Processed, TypeOK, ClientOK, LogOK
    <3>3. CASE WriteLive(c)
      BY <1>0, <3>3 DEF WriteLive, Processed, TypeOK, ClientOK, LogOK
    <3> QED
      BY <1>3, <3>1, <3>2, <3>3 DEF WriteOpening
  <2>4. /\ conn'[c] \in ConnRecord /\ conn'[c].pc = conn[c].pc
        /\ conn'[c].feed = conn[c].feed
        /\ conn'[c].ready \in 0 .. newest /\ conn'[c].reset \in 0 .. newest
        /\ conn'[c].replay \subseteq conn[c].replay
        /\ \/ conn'[c].frames = conn[c].frames
           \/ conn'[c].frames = Tail(conn[c].frames) /\ conn[c].frames # <<>>
    <3>0. /\ conn[c] \in ConnRecord /\ 0 \in 0 .. newest
          /\ conn[c].ready \in 0 .. newest /\ conn[c].reset \in 0 .. newest
      BY <1>0 DEF ClientOK
    <3>1. CASE WriteReady(c) \/ WriteReset(c)
      <4>1. CASE conn'[c] = [conn[c] EXCEPT !.ready = 0]
        BY <3>0, <4>1, SMTT(30) DEF ConnRecord
      <4>2. CASE conn'[c] = [conn[c] EXCEPT !.reset = 0]
        BY <3>0, <4>2 DEF ConnRecord
      <4> QED
        BY <1>0, <3>1, <4>1, <4>2 DEF WriteReady, WriteReset
    <3>2. CASE WriteReplay(c)
      <4>1. PICK n : conn'[c] = [conn[c] EXCEPT !.replay = @ \ {n}]
        BY <1>0, <3>2 DEF WriteReplay
      <4> QED
        BY <3>0, <4>1 DEF ConnRecord
    <3>3. CASE WriteLive(c)
      <4>1. conn'[c] = [conn[c] EXCEPT !.frames = Tail(@)] /\ conn[c].frames # <<>>
        BY <1>0, <3>3 DEF WriteLive, NextLive
      <4>2. Tail(conn[c].frames) \in Seq(Nat)
        BY <3>0, <4>1, TailFrames DEF ConnRecord
      <4> QED
        BY <3>0, <4>1, <4>2 DEF ConnRecord
    <3> QED
      BY <1>3, <3>1, <3>2, <3>3 DEF WriteOpening
  <2>5. /\ Len(conn'[c].frames) <= Backlog
        /\ \A i \in 1 .. Len(conn'[c].frames) : conn'[c].frames[i] \in 1 .. Len(log)
    <3>1. CASE conn'[c].frames = conn[c].frames
      BY <1>0, <3>1 DEF ClientOK
    <3>2. CASE conn'[c].frames = Tail(conn[c].frames) /\ conn[c].frames # <<>>
      <4>0. /\ conn[c].frames \in Seq(Nat) /\ Len(conn[c].frames) <= Backlog /\ Backlog \in Nat
            /\ \A i \in 1 .. Len(conn[c].frames) : conn[c].frames[i] \in 1 .. Len(log)
        BY <1>0, HubAssumption DEF ClientOK, ConnRecord
      <4>1. Len(conn'[c].frames) <= Backlog
        BY <3>2, <4>0, TailFrames
      <4> QED
        BY <3>2, <4>0, <4>1, TailIn
    <3> QED
      BY <2>4, <3>1, <3>2
  <2>6. ClientOK(c)'
    BY <1>0, <2>1, <2>3, <2>4, <2>5 DEF ClientOK
  <2> QED
    BY <1>0, <2>1, <2>2, <2>6, OneClientType
<1> QED
  BY <1>1, <1>2, <1>3 DEF Handler

LEMMA PublishType ==
  ASSUME TypeOK, NEW reached \in SUBSET Client, Publish(reached)
  PROVE  TypeOK'
<1>0. /\ LogOK /\ RestOK /\ conn \in [Client -> ConnRecord] /\ owed \in [Client -> SUBSET Nat]
      /\ \A c \in Client : ClientOK(c)
  <2>1. LogOK /\ RestOK /\ \A c \in Client : ClientOK(c)
    BY TypeParts
  <2>2. conn \in [Client -> ConnRecord] /\ owed \in [Client -> SUBSET (1 .. Len(log))]
    BY DEF TypeOK
  <2> QED
    BY <2>1, <2>2
<1>1. newest' = newest + 1 /\ log' = Append(log, [id |-> newest', to |-> reached])
  BY DEF Publish
<1>2. /\ log' \in Seq([id : Nat, to : SUBSET Client]) /\ Len(log') = Len(log) + 1
      /\ Len(log) \in Nat /\ \A n \in 1 .. Len(log) : log'[n] = log[n]
      /\ log'[Len(log) + 1] = [id |-> newest + 1, to |-> reached]
  BY <1>0, <1>1, LogAppended
<1>3. LogOK'
  <2>1. kept' \in 0 .. Len(log')
    BY <1>0, <1>2, HubAssumption DEF Publish, LogOK
  <2>2. \A n \in 1 .. Len(log') : log'[n].id \in 1 .. newest'
    BY <1>0, <1>1, <1>2 DEF LogOK
  <2>3. newest' \in Nat /\ floor' \in 1 .. newest'
    BY <1>0, <1>1 DEF Publish, LogOK
  <2> QED
    BY <1>2, <2>1, <2>2, <2>3 DEF LogOK
<1> DEFINE listed == reached \cap subscribers
           slow == {c \in listed : Full(c)}
           sent == [c \in Client |->
                      IF c \in listed \ slow
                      THEN [conn[c] EXCEPT !.frames = Append(@, Len(log'))]
                      ELSE conn[c]]
<1>4. RestOK'
  BY <1>0 DEF Publish, RestOK, Remove
<1>5. ASSUME NEW c \in Client PROVE ClientOK(c)'
  <2>0. ClientOK(c) /\ conn[c].frames \in Seq(Nat)
    BY <1>0 DEF ClientOK, ConnRecord
  <2>1. UNCHANGED last /\ owed'[c] \in {owed[c], owed[c] \cup {Len(log')}}
    BY <1>0 DEF Publish
  <2>2. last'[c] \in 0 .. newest' /\ owed'[c] \subseteq 1 .. Len(log')
    BY <1>0, <1>1, <1>2, <2>0, <2>1 DEF ClientOK, LogOK
  <2>3. CASE c \in listed \ slow
    <3>1. conn'[c] = [conn[c] EXCEPT !.frames = Append(@, Len(log'))]
      BY <1>0, <2>3 DEF Publish, Remove
    <3>2. c \in subscribers /\ c \in subscribers' /\ ~Full(c)
      BY <2>3 DEF Publish
    <3>3. Len(conn[c].frames) + 1 <= Backlog
      BY <2>0, <3>2, HubAssumption DEF Full
    <3>4. /\ conn'[c] \in ConnRecord /\ Len(conn'[c].frames) <= Backlog
          /\ \A i \in 1 .. Len(conn'[c].frames) : conn'[c].frames[i] \in 1 .. Len(log')
      <4> DEFINE q == conn[c].frames
      <4>1. /\ Append(q, Len(log')) \in Seq(Nat) /\ Len(q) \in Nat
            /\ Len(Append(q, Len(log'))) = Len(q) + 1
            /\ \A i \in 1 .. Len(q) : Append(q, Len(log'))[i] = q[i]
            /\ Append(q, Len(log'))[Len(q) + 1] = Len(log')
        BY <1>2, <2>0, AppendFrames
      <4>2. conn'[c].frames = Append(q, Len(log')) /\ conn[c] \in ConnRecord
        BY <2>0, <3>1 DEF ClientOK, ConnRecord
      <4>3. conn'[c] \in ConnRecord
        BY <3>1, <4>1, <4>2, FramesIn
      <4>4. \A i \in 1 .. Len(q) : q[i] \in 1 .. Len(log')
        BY <1>2, <2>0, SMTT(30) DEF ClientOK
      <4> HIDE DEF q
      <4>5. \A i \in 1 .. Len(q) + 1 : conn'[c].frames[i] \in 1 .. Len(log')
        BY <1>2, <4>1, <4>2, <4>4
      <4> QED
        BY <3>3, <4>1, <4>2, <4>3, <4>5 DEF q
    <3>5. /\ conn'[c].pc = conn[c].pc /\ conn'[c].feed = conn[c].feed
          /\ conn'[c].ready = conn[c].ready /\ conn'[c].reset = conn[c].reset
          /\ conn'[c].replay = conn[c].replay
      BY <2>0, <3>1 DEF ClientOK, ConnRecord
    <3> QED
      BY <1>0, <1>1, <1>2, <2>0, <2>2, <3>2, <3>4, <3>5, SMTT(30) DEF ClientOK, LogOK
  <2>4. CASE c \in slow
    <3>1. conn'[c] = [conn[c] EXCEPT !.feed = "closed"] /\ c \notin subscribers'
      BY <1>0, <2>4 DEF Publish, Remove
    <3>2. /\ conn'[c] \in ConnRecord /\ conn'[c].feed = "closed"
          /\ conn'[c].ready = conn[c].ready /\ conn'[c].reset = conn[c].reset
          /\ conn'[c].replay = conn[c].replay /\ conn'[c].frames = conn[c].frames
      BY <2>0, <3>1 DEF ClientOK, ConnRecord
    <3> QED
      BY SMTT(30), <1>0, <1>1, <1>2, <2>0, <2>2, <3>1, <3>2 DEF ClientOK, LogOK
  <2>5. CASE c \notin listed
    <3>1. conn'[c] = conn[c] /\ (c \in subscribers' <=> c \in subscribers)
      BY <1>0, <2>5 DEF Publish, Remove
    <3> QED
      BY <1>0, <1>1, <1>2, <2>0, <2>2, <3>1 DEF ClientOK, ConnRecord, LogOK
  <2> QED
    BY <2>3, <2>4, <2>5
<1> QED
  BY <1>3, <1>4, <1>5, TypePartsNext

LEMMA ProcessType ==
  ASSUME TypeOK, Shutdown \/ Restart
  PROVE  TypeOK'
<1> USE DEF hubVars, clientVars
<1>0. /\ LogOK /\ RestOK /\ conn \in [Client -> ConnRecord]
      /\ \A c \in Client : ClientOK(c)
  BY TypeParts DEF TypeOK
<1>1. LogOK'
  <2>1. CASE Shutdown
    BY <1>0, <2>1 DEF Shutdown, LogOK
  <2>2. CASE Restart
    BY <1>0, <2>2 DEF Restart, LogOK
  <2> QED
    BY <2>1, <2>2
<1>2. RestOK'
  <2>1. CASE Shutdown
    BY <1>0, <2>1 DEF Shutdown, RestOK, Remove
  <2>2. CASE Restart
    <3>1. exits' \in 0 .. MaxExits /\ breaks' \in 0 .. MaxBreaks
      BY <1>0, <2>2, HubAssumption DEF Restart, RestOK
    <3>2. conn' = [c \in Client |-> conn'[c]]
      BY <2>2 DEF Restart
    <3>3. closing' \in BOOLEAN /\ steady' \in BOOLEAN
      BY <1>0, <2>2 DEF Restart, RestOK
    <3>4. subscribers' \subseteq Client /\ UNCHANGED <<last, owed>>
      BY <2>2 DEF Restart
    <3> QED
      BY <1>0, <3>1, <3>2, <3>3, <3>4 DEF RestOK
  <2> QED
    BY <2>1, <2>2
<1>3. ASSUME NEW c \in Client PROVE ClientOK(c)'
  <2>0. ClientOK(c) /\ UNCHANGED <<log, last, owed>> /\ newest <= newest' /\ newest' \in Nat
    <3>1. CASE Shutdown
      BY <1>0, <3>1 DEF Shutdown, LogOK
    <3>2. CASE Restart
      BY <1>0, <3>2 DEF Restart, LogOK
    <3> QED
      BY <3>1, <3>2
  <2>1. CASE Shutdown
    <3>1. subscribers' = {} /\ newest' = newest
      BY <2>1 DEF Shutdown
    <3>2. CASE c \in subscribers
      <4>1. conn'[c] = [conn[c] EXCEPT !.feed = "closed"]
        BY <2>1, <3>2 DEF Shutdown, Remove
      <4> QED
        BY <2>0, <3>1, <4>1 DEF ClientOK, ConnRecord
    <3>3. CASE c \notin subscribers
      <4>1. conn'[c] = conn[c]
        BY <2>1, <3>3 DEF Shutdown, Remove
      <4> QED
        BY <2>0, <3>1, <3>3, <4>1 DEF ClientOK
    <3> QED
      BY <3>2, <3>3
  <2>2. CASE Restart
    <3>1. subscribers' = {} /\ conn'[c] = NoConn
      BY <2>2 DEF Restart
    <3> QED
      BY <1>0, <2>0, <3>1, NoFrames, HubAssumption DEF ClientOK, ConnRecord, LogOK, NoConn
  <2> QED
    BY <2>1, <2>2
<1> QED
  BY <1>1, <1>2, <1>3, TypePartsNext

\* Every variable of the stream keeps its type, and no channel overflows: see TypeOK.
THEOREM StreamTypes == Spec => []TypeOK
<1>1. Init => TypeOK
  <2> SUFFICES ASSUME Init PROVE TypeOK
    OBVIOUS
  <2>1. conn \in [Client -> ConnRecord] /\ \A c \in Client : conn[c] = NoConn
    BY NoFrames DEF Init, NoConn, ConnRecord
  <2>2. log = <<>> /\ Len(log) = 0 /\ log \in Seq([id : Nat, to : SUBSET Client])
    BY DEF Init
  <2> QED
    <3>1. steady \in BOOLEAN /\ closing \in BOOLEAN
      BY DEF Init
    <3>2. breaks \in 0 .. MaxBreaks /\ exits \in 0 .. MaxExits
      BY HubAssumption DEF Init
    <3>3. /\ newest \in Nat /\ floor \in 1 .. newest /\ kept \in 0 .. Len(log)
          /\ last \in [Client -> 0 .. newest] /\ owed \in [Client -> SUBSET (1 .. Len(log))]
          /\ subscribers = {c \in Client : conn[c].pc = "open" /\ conn[c].feed = "live"}
      BY <2>1, <2>2 DEF Init, NoConn
    <3>4. \A c \in Client :
            /\ conn[c].ready \in 0 .. newest /\ conn[c].reset \in 0 .. newest
            /\ Len(conn[c].frames) <= Backlog
            /\ conn[c].replay \subseteq 1 .. Len(log)
            /\ \A i \in 1 .. Len(conn[c].frames) : conn[c].frames[i] \in 1 .. Len(log)
      BY <2>1, <3>3, NoFrames, HubAssumption DEF NoConn
    <3> QED
      BY <2>1, <2>2, <3>1, <3>2, <3>3, <3>4 DEF TypeOK
<1>2. TypeOK /\ [Next]_vars => TypeOK'
  <2> SUFFICES ASSUME TypeOK, [Next]_vars PROVE TypeOK'
    OBVIOUS
  <2>1. CASE UNCHANGED vars
    BY <2>1 DEF vars, hubVars, clientVars, TypeOK
  <2> QED
    BY <2>1, HandlerType, PublishType, ProcessType DEF Next
<1> QED
  BY <1>1, <1>2, PTL DEF Spec

----------------------------------------------------------------------------
(* The log                                                                 *)

LEMMA LogInvStep ==
  ASSUME TypeOK, LogInv, [Next]_vars
  PROVE  LogInv'
<1> USE DEF hubVars, clientVars
<1>0. LogOK /\ Len(log) \in Nat /\ \A n \in 1 .. Len(log) : log[n].id \in Nat
  BY TypeParts DEF LogOK
<1>1. CASE \E reached \in SUBSET Client : Publish(reached)
  <2>1. PICK reached \in SUBSET Client : Publish(reached)
    BY <1>1
  <2>2. /\ newest' = newest + 1 /\ floor' = floor /\ kept' \in 1 .. kept + 1
        /\ log' = Append(log, [id |-> newest', to |-> reached])
    BY SMTT(30), <1>0, <2>1, HubAssumption DEF Publish, LogOK
  <2>3. /\ Len(log') = Len(log) + 1
        /\ \A n \in 1 .. Len(log) : log'[n] = log[n]
        /\ log'[Len(log) + 1].id = newest + 1
    BY <1>0, <2>2, LogAppended
  <2>4. \A m, n \in 1 .. Len(log') : m < n => log'[m].id < log'[n].id
    <3> SUFFICES ASSUME NEW m \in 1 .. Len(log'), NEW n \in 1 .. Len(log'), m < n
                 PROVE  log'[m].id < log'[n].id
      OBVIOUS
    <3>1. m \in 1 .. Len(log) /\ log[m].id <= newest /\ log[m].id \in Nat /\ newest \in Nat
      BY <1>0, <2>3 DEF LogOK
    <3>2. CASE n = Len(log) + 1
      BY <2>3, <3>1, <3>2
    <3>3. CASE n \in 1 .. Len(log)
      BY <2>3, <3>1, <3>3 DEF LogInv
    <3>4. n \in 1 .. Len(log) \/ n = Len(log) + 1
      <4>1. n \in 1 .. Len(log) + 1
        BY <2>3
      <4> QED
        BY <1>0, <4>1
    <3> QED
      BY <3>2, <3>3, <3>4
  <2>5. \A n \in Ring' : log'[n].id > floor
    <3>1. newest + 1 > floor /\ kept \in Nat /\ kept <= Len(log) /\ kept' \in Nat /\ kept' <= kept + 1
      BY <1>0, <2>2 DEF LogOK
    <3>2. \A n \in Ring' : n = Len(log) + 1 \/ (n \in Ring /\ n \in 1 .. Len(log))
      BY <1>0, <2>3, <3>1 DEF Ring
    <3> QED
      BY <2>3, <3>1, <3>2 DEF LogInv
  <2>6. kept' # 0
    BY <1>0, <2>2 DEF LogOK
  <2> QED
    BY <2>2, <2>4, <2>5, <2>6 DEF LogInv
<1>2. CASE Restart
  <2>1. UNCHANGED log /\ kept' = 0 /\ floor' = newest + 1
    BY <1>2 DEF Restart
  <2>2. Ring' = {}
    BY <1>0, <2>1 DEF Ring
  <2>3. \A n \in 1 .. Len(log) : log[n].id < floor'
    BY <1>0, <2>1 DEF LogOK
  <2> QED
    BY <2>1, <2>2, <2>3 DEF LogInv
<1>3. CASE UNCHANGED <<floor, log, kept>>
  BY <1>3 DEF LogInv, Ring
<1> QED
  BY <1>1, <1>2, <1>3
     DEF Next, Handler, Subscribe, WriteOpening, WriteReady, WriteReset, WriteReplay, WriteLive,
         HandlerReturns, Request, Break, Shutdown, Processed, vars

\* The events after an id are events of the log, in the order of their ids
LEMMA LaterFacts ==
  ASSUME TypeOK, LogInv, NEW c, NEW x \in Nat
  PROVE  /\ LaterIn(log, c, x) \subseteq LaterIn(log, c, 0)
         /\ LaterIn(log, c, 0) \subseteq 1 .. Len(log) /\ Len(log) \in Nat
         /\ \A n \in LaterIn(log, c, x), m \in LaterIn(log, c, 0) : n < m => m \in LaterIn(log, c, x)
         /\ x >= newest => LaterIn(log, c, x) = {}
<1>1. Len(log) \in Nat /\ newest \in Nat /\ \A n \in 1 .. Len(log) : log[n].id \in 1 .. newest
  BY DEF TypeOK
<1>2. \A n \in 1 .. Len(log) : n \in LaterIn(log, c, x) <=> c \in log[n].to /\ log[n].id > x
  BY DEF LaterIn
<1>3. \A n \in 1 .. Len(log) : n \in LaterIn(log, c, 0) <=> c \in log[n].to
  BY <1>1 DEF LaterIn
<1>4. LaterIn(log, c, x) \subseteq 1 .. Len(log) /\ LaterIn(log, c, 0) \subseteq 1 .. Len(log)
  BY DEF LaterIn
<1>5. \A n \in LaterIn(log, c, x), m \in LaterIn(log, c, 0) : n < m => m \in LaterIn(log, c, x)
  <2> SUFFICES ASSUME NEW n \in LaterIn(log, c, x), NEW m \in LaterIn(log, c, 0), n < m
               PROVE  m \in LaterIn(log, c, x)
    OBVIOUS
  <2>1. log[n].id < log[m].id /\ log[n].id > x /\ c \in log[m].to
    BY <1>2, <1>3, <1>4 DEF LogInv
  <2> QED
    BY <1>1, <1>2, <1>4, <2>1
<1>6. x >= newest => LaterIn(log, c, x) = {}
  BY <1>1, <1>2, <1>4
<1> QED
  BY <1>1, <1>2, <1>3, <1>4, <1>5, <1>6

\* ... so those after the id of an event are those after it
LEMMA LaterThan ==
  ASSUME TypeOK, LogInv, NEW c, NEW n \in 1 .. Len(log)
  PROVE  LaterIn(log, c, log[n].id) = {m \in LaterIn(log, c, 0) : m > n}
<1>1. Len(log) \in Nat /\ newest \in Nat /\ \A m \in 1 .. Len(log) : log[m].id \in 1 .. newest
  BY DEF TypeOK
<1>2. \A m \in 1 .. Len(log) : m > n <=> log[m].id > log[n].id
  <2> SUFFICES ASSUME NEW m \in 1 .. Len(log) PROVE m > n <=> log[m].id > log[n].id
    OBVIOUS
  <2>1. (m < n => log[m].id < log[n].id) /\ (n < m => log[n].id < log[m].id)
    BY DEF LogInv
  <2>2. log[m].id \in Nat /\ log[n].id \in Nat /\ m \in Nat /\ n \in Nat
    BY <1>1
  <2>3. CASE m = n
    BY <2>2, <2>3
  <2>4. CASE m # n
    BY <2>1, <2>2, <2>4
  <2> QED
    BY <2>3, <2>4
<1> QED
  BY <1>1, <1>2 DEF LaterIn

LEMMA LaterPublished ==
  ASSUME TypeOK, NEW reached \in SUBSET Client, Publish(reached), NEW c, NEW x \in Nat
  PROVE  LaterIn(log', c, x) = IF c \in reached /\ x <= newest
                               THEN LaterIn(log, c, x) \cup {Len(log')} ELSE LaterIn(log, c, x)
<1>1. LogOK /\ newest \in Nat
  BY TypeParts DEF LogOK
<1>2. /\ Len(log') = Len(log) + 1 /\ Len(log) \in Nat
      /\ \A n \in 1 .. Len(log) : log'[n] = log[n]
      /\ log'[Len(log) + 1] = [id |-> newest + 1, to |-> reached]
  BY <1>1, LogAppended DEF Publish
<1>3. log'[Len(log')].id > x <=> x <= newest
  BY <1>1, <1>2
<1>4. LaterIn(log', c, x) = LaterIn(log, c, x) \cup (IF c \in reached /\ x <= newest THEN {Len(log')} ELSE {})
  BY <1>2, <1>3 DEF LaterIn
<1> QED
  BY <1>4

----------------------------------------------------------------------------
(* The clients                                                             *)

\* A client of which a step changes nothing, or closes the channel
LEMMA StreamKept ==
  ASSUME NEW c \in Client, ClientOK(c), StreamInv(c), UNCHANGED <<log, floor>>,
         \/ conn'[c] = conn[c]
         \/ conn[c].pc = "open" /\ conn'[c] = [conn[c] EXCEPT !.feed = "closed"],
         last'[c] = last[c], owed'[c] = owed[c]
  PROVE  StreamInv(c)'
<1>1. /\ conn'[c].pc = conn[c].pc /\ conn'[c].feed \in {"closed", conn[c].feed}
      /\ conn'[c].ready = conn[c].ready /\ conn'[c].reset = conn[c].reset
      /\ conn'[c].replay = conn[c].replay /\ conn'[c].frames = conn[c].frames
  BY DEF ClientOK, ConnRecord
<1>2. OwedInv(c)'
  BY DEF StreamInv, OwedInv, After
<1>3. ClosedInv(c)'
  BY <1>1 DEF StreamInv, ClosedInv, After
<1>4. Due(c)' = Due(c) /\ Channel(c)' = Channel(c) /\ Coming(c)' = Coming(c)
  BY <1>1 DEF Due, Channel, Coming, After
<1>5. ComingInv(c) => ComingInv(c)'
  BY <1>1, <1>4 DEF ComingInv
<1>6. OpeningInv(c) => OpeningInv(c)'
  BY <1>1 DEF OpeningInv, Opening, After
<1> QED
  BY <1>1, <1>2, <1>3, <1>5, <1>6 DEF StreamInv

\* The connection ends, or is asked for
LEMMA ConnStream ==
  ASSUME TypeOK, NEW c \in Client, StreamInv(c),
         Request(c) \/ HandlerReturns(c) \/ (Break(c) /\ ~Opening(c))
  PROVE  StreamInv(c)'
<1>0. ClientOK(c) /\ conn \in [Client -> ConnRecord]
  BY TypeParts DEF TypeOK
<1>1. UNCHANGED <<log, floor, last, owed>>
  BY DEF Request, HandlerReturns, Break, hubVars, clientVars
<1>2. OwedInv(c)'
  BY <1>1 DEF StreamInv, OwedInv, After
<1>3. conn'[c].pc # "open" /\ conn'[c] = [NoConn EXCEPT !.pc = conn'[c].pc]
  <2>1. CASE Request(c)
    <3>1. conn[c] = [NoConn EXCEPT !.pc = "off"] /\ conn'[c] = [conn[c] EXCEPT !.pc = "asked"]
      BY <1>0, <2>1 DEF Request, StreamInv, ClosedInv
    <3> QED
      BY <3>1 DEF NoConn
  <2>2. CASE ~Request(c)
    <3>1. conn'[c] = NoConn
      BY <1>0, <2>2 DEF HandlerReturns, Break
    <3> QED
      BY <3>1 DEF NoConn
  <2> QED
    BY <2>1, <2>2
<1>4. last[c] = 0 \/ last[c] < floor \/ owed[c] = After(c, last[c])
  <2>1. CASE Request(c)
    BY <2>1 DEF Request, StreamInv, ClosedInv
  <2>2. CASE ~Request(c)
    BY <2>2 DEF HandlerReturns, Break, StreamInv, OpeningInv
  <2> QED
    BY <2>1, <2>2
<1> QED
  BY <1>1, <1>2, <1>3, <1>4 DEF StreamInv, ClosedInv, After

\* What the ring holds after an id that it still covers is all there is after it
LEMMA RingReplays ==
  ASSUME TypeOK, LogInv, NEW c \in Client, OldestID <= last[c]
  PROVE  floor <= last[c] /\ Missed(c) = After(c, last[c])
<1>1. /\ Len(log) \in Nat /\ kept \in 0 .. Len(log) /\ floor \in Nat /\ last[c] \in Nat
      /\ \A n \in 1 .. Len(log) : log[n].id \in Nat
  BY DEF TypeOK
<1>2. CASE kept = 0
  BY <1>1, <1>2 DEF LogInv, OldestID, Missed, After, LaterIn
<1>3. CASE kept # 0
  <2> DEFINE o == Len(log) - kept + 1
  <2>1. o \in 1 .. Len(log) /\ o \in Ring /\ OldestID = log[o].id
    BY <1>1, <1>3 DEF Ring, OldestID
  <2>2. floor < log[o].id
    BY <2>1 DEF LogInv
  <2>3. \A n \in 1 .. Len(log) : log[n].id > last[c] => n \in Ring
    <3> SUFFICES ASSUME NEW n \in 1 .. Len(log), log[n].id > last[c], n \notin Ring PROVE FALSE
      OBVIOUS
    <3>1. n < o
      BY <1>1 DEF Ring
    <3>2. log[n].id < log[o].id
      BY <2>1, <3>1 DEF LogInv
    <3>3. log[n].id \in Nat /\ log[o].id \in Nat /\ log[o].id <= last[c]
      BY <1>1, <2>1
    <3> QED
      BY <1>1, <3>2, <3>3
  <2>4. floor <= last[c]
    BY <1>1, <2>1, <2>2
  <2> QED
    BY <2>3, <2>4 DEF Missed, After, LaterIn
<1> QED
  BY <1>2, <1>3

\* subscribe replays what is owed, or resets
LEMMA SubscribeStream ==
  ASSUME TypeOK, LogInv, NEW c \in Client, StreamInv(c), Subscribe(c)
  PROVE  StreamInv(c)'
<1> DEFINE ready  == newest + 1
           lost   == last[c] # 0 /\ OutsideRing(last[c], ready)
           reset  == IF lost THEN ready + 1 ELSE 0
           replay == IF last[c] = 0 \/ lost THEN {} ELSE Missed(c)
<1>0. /\ ClientOK(c) /\ conn \in [Client -> ConnRecord]
      /\ newest \in Nat /\ floor \in Nat /\ last[c] \in 0 .. newest /\ OldestID \in Nat
  BY SMTT(30), TypeParts DEF TypeOK, OldestID
<1>1. /\ conn[c].pc = "asked" /\ UNCHANGED <<log, floor, last, owed>>
      /\ conn'[c] = [NoConn EXCEPT !.pc = "open", !.ready = ready,
                                   !.reset = reset, !.replay = replay]
  BY <1>0 DEF Subscribe, hubVars, clientVars
<1>2. OwedInv(c)'
  BY <1>1 DEF StreamInv, OwedInv, After
<1>3. last[c] = 0 \/ last[c] < floor \/ owed[c] = After(c, last[c])
  BY <1>1 DEF StreamInv, ClosedInv
<1>4. last[c] # 0 /\ ~lost => replay = owed[c] /\ owed[c] = After(c, last[c])
  BY <1>0, <1>3, RingReplays DEF OutsideRing
<1>5. After(c, ready) = {} /\ After(c, ready + 1) = {}
  BY <1>0, LaterFacts DEF After
<1>6. ready # 0 /\ ready + 1 # 0
  BY <1>0
<1>7. last[c] = 0 => owed[c] = {}
  BY DEF StreamInv, OwedInv
<1>8. \A n \in owed[c], m \in After(c, 0) : (last[c] # 0 /\ ~lost /\ n < m) => m \in owed[c]
  BY <1>0, <1>4, LaterFacts DEF After
<1> HIDE DEF ready, lost
<1>9. /\ conn'[c].pc = "open" /\ conn'[c].ready = ready /\ conn'[c].reset = reset
      /\ conn'[c].replay = replay /\ conn'[c].frames = <<>> /\ conn'[c].feed = "live"
  BY <1>1 DEF NoConn
<1>10. Channel(c)' = {} /\ Coming(c)' = replay
  BY <1>9, NoFrames DEF Channel, Coming
<1>11. Due(c)' = replay
  BY <1>1, <1>4, <1>5, <1>6, <1>7, <1>9 DEF Due, After
<1>12. ComingInv(c)'
  BY <1>9, <1>10, <1>11, NoFrames DEF ComingInv
<1>13. OpeningInv(c)'
  <2>1. /\ LaterIn(log', c, ready) = {} /\ LaterIn(log', c, ready + 1) = {}
        /\ LaterIn(log', c, 0) = After(c, 0)
    BY <1>1, <1>5 DEF After
  <2>2. CASE last[c] = 0
    BY <1>1, <1>6, <1>7, <1>9, <2>1, <2>2 DEF OpeningInv, Opening, After, lost
  <2>3. CASE lost
    BY <1>1, <1>6, <1>9, <2>1, <2>3 DEF OpeningInv, Opening, After, lost
  <2>4. CASE last[c] # 0 /\ ~lost
    BY <1>1, <1>4, <1>6, <1>8, <1>9, <2>1, <2>4 DEF OpeningInv, Opening, After
  <2> QED
    BY <2>2, <2>3, <2>4
<1> QED
  BY <1>2, <1>9, <1>12, <1>13 DEF StreamInv, ClosedInv

\* The next event that a client processes is the oldest one owed to it, and what is
\* owed after it are the events after it
LEMMA NextOldest ==
  ASSUME TypeOK, LogInv, NEW c \in Client, StreamInv(c), NEW n,
         NextReplayed(c, n) \/ NextLive(c, n)
  PROVE  /\ conn[c].pc = "open" /\ conn[c].ready = 0 /\ conn[c].reset = 0 /\ last[c] # 0
         /\ n \in owed[c] /\ n \in 1 .. Len(log) /\ \A i \in owed[c] : n <= i
         /\ n \in Coming(c) /\ Due(c) = owed[c]
         /\ owed[c] \ {n} = After(c, log[n].id)
<1>0. ClientOK(c) /\ Len(log) \in Nat
  BY TypeParts DEF LogOK
<1>1. conn[c].ready = 0 /\ conn[c].reset = 0
  BY DEF NextReplayed, NextLive, Opening
<1>2. conn[c].pc = "open"
  <2> SUFFICES ASSUME conn[c] = [NoConn EXCEPT !.pc = conn[c].pc] PROVE FALSE
    BY DEF StreamInv, ClosedInv
  <2>1. conn[c].replay = {} /\ conn[c].frames = <<>>
    BY DEF NoConn
  <2> QED
    BY <2>1 DEF NextReplayed, NextLive
<1>3. ComingInv(c) /\ OpeningInv(c) /\ OwedInv(c)
  BY <1>2 DEF StreamInv
<1>4. last[c] # 0 /\ Due(c) = owed[c]
  BY <1>1, <1>3 DEF OpeningInv, Due
<1>5. n \in Coming(c) /\ \A m \in Coming(c) : n <= m
  <2>1. CASE NextReplayed(c, n)
    <3>1. n \in conn[c].replay /\ \A m \in conn[c].replay : n <= m
      BY <2>1 DEF NextReplayed
    <3>2. \A m \in Channel(c) : n < m
      BY <1>3, <3>1 DEF ComingInv
    <3>3. n \in Nat /\ \A m \in Channel(c) : m \in Nat
      BY <1>0, <3>1 DEF ClientOK, Channel
    <3> QED
      BY <3>1, <3>2, <3>3 DEF Coming
  <2>2. CASE NextLive(c, n)
    <3>1. conn[c].replay = {} /\ conn[c].frames # <<>> /\ n = Head(conn[c].frames)
      BY <2>2 DEF NextLive, Opening
    <3>2. conn[c].frames \in Seq(Nat)
      BY <1>0 DEF ClientOK, ConnRecord
    <3>3. n = conn[c].frames[1] /\ Len(conn[c].frames) \in Nat \ {0}
      BY <3>1, <3>2, TailFrames
    <3>4. 1 \in 1 .. Len(conn[c].frames) /\ n \in Nat
      BY <3>2, <3>3
    <3>5. \A i \in 1 .. Len(conn[c].frames) : n <= conn[c].frames[i]
      <4> SUFFICES ASSUME NEW i \in 1 .. Len(conn[c].frames) PROVE n <= conn[c].frames[i]
        OBVIOUS
      <4>1. CASE i = 1
        BY <3>3, <3>4, <4>1
      <4>2. CASE i # 1
        <5>1. 1 < i
          BY <3>3, <4>2
        <5>2. conn[c].frames[i] \in Nat
          BY <3>2
        <5>3. conn[c].frames[1] < conn[c].frames[i]
          BY <1>3, <3>4, <5>1 DEF ComingInv
        <5> QED
          BY <3>3, <3>4, <5>2, <5>3
      <4> QED
        BY <4>1, <4>2
    <3> QED
      BY <3>1, <3>3, <3>4, <3>5 DEF Coming, Channel
  <2> QED
    BY <2>1, <2>2
<1>6. owed[c] \subseteq After(c, 0) /\ After(c, 0) \subseteq 1 .. Len(log)
  BY <1>3, LaterFacts DEF OwedInv, After
<1>7. n \in owed[c] /\ n \in 1 .. Len(log)
  BY <1>3, <1>4, <1>5, <1>6 DEF ComingInv
<1>8. \A i \in owed[c] : n <= i
  <2> SUFFICES ASSUME NEW i \in owed[c], i < n PROVE FALSE
    BY <1>0, <1>6, <1>7
  <2>1. i \in Coming(c)
    BY <1>3, <1>4, <1>5 DEF ComingInv
  <2> QED
    BY <1>0, <1>5, <1>6, <1>7, <2>1
<1>9. owed[c] \ {n} = {m \in After(c, 0) : m > n}
  <2>1. \A m \in After(c, 0) : m > n => m \in owed[c]
    BY <1>1, <1>3, <1>7 DEF OpeningInv
  <2> QED
    BY <1>0, <1>6, <1>7, <1>8, <2>1
<1> QED
  BY <1>1, <1>2, <1>4, <1>5, <1>7, <1>8, <1>9, LaterThan DEF After

\* The ready frame
LEMMA ReadyStream ==
  ASSUME TypeOK, LogInv, NEW c \in Client, StreamInv(c), WriteReady(c)
  PROVE  StreamInv(c)'
<1> DEFINE r == conn[c].ready
<1>0. /\ ClientOK(c) /\ conn \in [Client -> ConnRecord]
      /\ r \in Nat /\ r # 0 /\ UNCHANGED <<log, floor>>
      /\ last \in [Client -> 0 .. newest] /\ owed \in [Client -> SUBSET (1 .. Len(log))]
  BY SMTT(30), TypeParts DEF TypeOK, ClientOK, WriteReady, Processed, hubVars
<1>1. conn[c].pc = "open"
  <2> SUFFICES ASSUME conn[c] = [NoConn EXCEPT !.pc = conn[c].pc] PROVE FALSE
    BY DEF StreamInv, ClosedInv
  <2> QED
    BY <1>0 DEF NoConn
<1>2. ComingInv(c) /\ OpeningInv(c) /\ OwedInv(c)
  BY <1>1 DEF StreamInv
<1>3. /\ conn'[c].pc = "open" /\ conn'[c].feed = conn[c].feed
      /\ conn'[c].ready = 0 /\ conn'[c].reset = conn[c].reset
      /\ conn'[c].replay = conn[c].replay /\ conn'[c].frames = conn[c].frames
  <2>1. conn'[c] = [conn[c] EXCEPT !.ready = 0]
    BY <1>0 DEF WriteReady
  <2> QED
    BY <1>0, <1>1, <2>1 DEF ClientOK, ConnRecord
<1>4. last'[c] = r /\ owed'[c] = IF last[c] # 0 THEN owed[c] ELSE After(c, r)
  BY <1>0 DEF WriteReady, Processed
<1> HIDE DEF r
<1>5. /\ After(c, r) \subseteq After(c, 0)
      /\ \A n \in After(c, r), m \in After(c, 0) : n < m => m \in After(c, r)
  BY <1>0, LaterFacts DEF After
<1>6. \A x \in Nat : After(c, x)' = After(c, x)
  BY <1>0 DEF After
<1>7. OwedInv(c)'
  BY <1>0, <1>2, <1>4, <1>5, <1>6 DEF OwedInv
<1>8. Channel(c)' = Channel(c) /\ Coming(c)' = Coming(c)
  BY <1>3 DEF Channel, Coming
<1>9. Due(c)' = Due(c)
  BY <1>0, <1>2, <1>3, <1>4 DEF Due, OpeningInv, After, r
<1>10. ComingInv(c)'
  BY <1>2, <1>3, <1>8, <1>9 DEF ComingInv
<1>11. OpeningInv(c)'
  <2>1. LaterIn(log', c, 0) = After(c, 0) /\ LaterIn(log', c, last'[c]) = After(c, r)
        /\ LaterIn(log', c, conn'[c].reset) = After(c, conn[c].reset)
    BY <1>0, <1>3, <1>4 DEF After
  <2>2. CASE last[c] = 0
    BY <1>0, <1>2, <1>3, <1>4, <1>5, <2>1, <2>2 DEF OpeningInv, Opening, After
  <2>3. CASE last[c] # 0
    <3>1. conn[c].reset = 0 => owed[c] = conn[c].replay \cup After(c, r)
      BY <1>0, <1>2, <2>3 DEF OpeningInv, r
    <3>2. /\ conn[c].reset # 0 => conn[c].replay = {} /\ After(c, conn[c].reset) \subseteq owed[c]
          /\ conn[c].reset = 0 => \A n \in owed[c], m \in After(c, 0) : n < m => m \in owed[c]
      BY <1>2 DEF OpeningInv
    <3> QED
      BY <1>0, <1>3, <1>4, <2>1, <2>3, <3>1, <3>2 DEF OpeningInv, Opening, After
  <2> QED
    BY <2>2, <2>3
<1> QED
  BY <1>3, <1>7, <1>10, <1>11, SMTT(30) DEF StreamInv, ClosedInv

\* The reset frame
LEMMA ResetStream ==
  ASSUME TypeOK, LogInv, NEW c \in Client, StreamInv(c), WriteReset(c)
  PROVE  StreamInv(c)'
<1> DEFINE r == conn[c].reset
<1>0. /\ ClientOK(c) /\ conn \in [Client -> ConnRecord] /\ conn[c].ready = 0
      /\ r \in Nat /\ r # 0 /\ UNCHANGED <<log, floor>>
      /\ last \in [Client -> 0 .. newest] /\ owed \in [Client -> SUBSET (1 .. Len(log))]
  BY TypeParts DEF TypeOK, ClientOK, WriteReset, Processed, hubVars
<1>1. conn[c].pc = "open"
  <2> SUFFICES ASSUME conn[c] = [NoConn EXCEPT !.pc = conn[c].pc] PROVE FALSE
    BY DEF StreamInv, ClosedInv
  <2> QED
    BY <1>0 DEF NoConn
<1>2. ComingInv(c) /\ OpeningInv(c) /\ OwedInv(c)
  BY <1>1 DEF StreamInv
<1>3. /\ conn'[c].pc = "open" /\ conn'[c].feed = conn[c].feed
      /\ conn'[c].ready = 0 /\ conn'[c].reset = 0
      /\ conn'[c].replay = conn[c].replay /\ conn'[c].frames = conn[c].frames
  <2>1. conn'[c] = [conn[c] EXCEPT !.reset = 0]
    BY <1>0 DEF WriteReset
  <2> QED
    BY <1>0, <1>1, <2>1 DEF ClientOK, ConnRecord
<1>4. conn[c].replay = {} /\ After(c, r) \subseteq owed[c] /\ owed[c] \subseteq After(c, 0)
  BY <1>0, <1>2 DEF OpeningInv, OwedInv
<1>5. last'[c] = r /\ owed'[c] = After(c, r)
  <2>1. owed'[c] = {n \in owed[c] : log[n].id > r}
    BY <1>0 DEF WriteReset, Processed
  <2> QED
    BY <1>0, <1>4, <2>1 DEF WriteReset, Processed, After, LaterIn
<1> HIDE DEF r
<1>6. /\ After(c, r) \subseteq After(c, 0)
      /\ \A n \in After(c, r), m \in After(c, 0) : n < m => m \in After(c, r)
  BY <1>0, LaterFacts DEF After
<1>7. LaterIn(log', c, 0) = After(c, 0) /\ LaterIn(log', c, last'[c]) = After(c, r)
  BY <1>0, <1>5 DEF After
<1>8. OwedInv(c)'
  BY <1>0, <1>5, <1>6, <1>7 DEF OwedInv, After
<1>9. Channel(c)' = Channel(c) /\ Coming(c)' = Coming(c)
  BY <1>3 DEF Channel, Coming
<1>10. Due(c)' = Due(c)
  BY <1>0, <1>3, <1>5 DEF Due, r
<1>11. ComingInv(c)'
  BY <1>2, <1>3, <1>9, <1>10 DEF ComingInv
<1>12. OpeningInv(c)'
  BY <1>0, <1>3, <1>4, <1>5, <1>6, <1>7 DEF OpeningInv, Opening, After
<1> QED
  BY <1>3, <1>8, <1>11, <1>12 DEF StreamInv, ClosedInv

\* What a channel still holds when its first frame is taken
LEMMA ChannelTail ==
  ASSUME NEW q \in Seq(Nat), q # <<>>,
         \A i, j \in 1 .. Len(q) : i < j => q[i] < q[j]
  PROVE  /\ {Tail(q)[i] : i \in 1 .. Len(Tail(q))} = {q[i] : i \in 1 .. Len(q)} \ {Head(q)}
         /\ \A i, j \in 1 .. Len(Tail(q)) : i < j => Tail(q)[i] < Tail(q)[j]
<1> DEFINE t == Tail(q)
<1>1. /\ Len(q) \in Nat \ {0} /\ Len(t) = Len(q) - 1 /\ Head(q) = q[1]
      /\ \A i \in 1 .. Len(q) - 1 : t[i] = q[i + 1]
  BY TailFrames
<1> HIDE DEF t
<1>2. \A i \in 1 .. Len(q) : q[i] \in Nat
  OBVIOUS
<1>3. \A i \in 1 .. Len(t) : i + 1 \in 1 .. Len(q) /\ t[i] = q[i + 1] /\ q[1] < q[i + 1]
  BY SMTT(30), <1>1
<1>4. \A i \in 1 .. Len(q) : i # 1 => i - 1 \in 1 .. Len(t) /\ t[i - 1] = q[i]
  BY <1>1
<1>5. {t[i] : i \in 1 .. Len(t)} \subseteq {q[i] : i \in 1 .. Len(q)} \ {q[1]}
  <2> SUFFICES ASSUME NEW i \in 1 .. Len(t) PROVE t[i] \in {q[j] : j \in 1 .. Len(q)} \ {q[1]}
    OBVIOUS
  <2>1. i + 1 \in 1 .. Len(q) /\ t[i] = q[i + 1] /\ q[1] < q[i + 1] /\ q[1] \in Nat
    BY <1>1, <1>2, <1>3
  <2> QED
    BY <1>2, <2>1
<1>6. {q[i] : i \in 1 .. Len(q)} \ {q[1]} \subseteq {t[i] : i \in 1 .. Len(t)}
  BY <1>4
<1>7. \A i, j \in 1 .. Len(t) : i < j => t[i] < t[j]
  <2> SUFFICES ASSUME NEW i \in 1 .. Len(t), NEW j \in 1 .. Len(t), i < j PROVE t[i] < t[j]
    OBVIOUS
  <2>1. i + 1 < j + 1
    BY <1>1
  <2> QED
    BY <1>3, <2>1
<1> QED
  BY <1>1, <1>5, <1>6, <1>7 DEF t

\* A frame with an event
LEMMA FrameStream ==
  ASSUME TypeOK, LogInv, NEW c \in Client, StreamInv(c), WriteReplay(c) \/ WriteLive(c)
  PROVE  StreamInv(c)'
<1>0. /\ ClientOK(c) /\ conn \in [Client -> ConnRecord] /\ UNCHANGED <<log, floor>>
      /\ last \in [Client -> 0 .. newest] /\ owed \in [Client -> SUBSET (1 .. Len(log))]
      /\ \A m \in 1 .. Len(log) : log[m].id \in Nat \ {0}
  BY SMTT(30), TypeParts DEF TypeOK, WriteReplay, WriteLive, Processed, hubVars
<1>1. \E n : /\ last'[c] = log[n].id /\ owed'[c] = owed[c] \ {n}
             /\ \/ NextReplayed(c, n) /\ conn'[c] = [conn[c] EXCEPT !.replay = @ \ {n}]
                \/ NextLive(c, n) /\ conn'[c] = [conn[c] EXCEPT !.frames = Tail(@)]
  BY <1>0 DEF WriteReplay, WriteLive, Processed
<1>2. PICK n : /\ last'[c] = log[n].id /\ owed'[c] = owed[c] \ {n}
               /\ \/ NextReplayed(c, n) /\ conn'[c] = [conn[c] EXCEPT !.replay = @ \ {n}]
                  \/ NextLive(c, n) /\ conn'[c] = [conn[c] EXCEPT !.frames = Tail(@)]
  BY <1>1
<1>3. /\ conn[c].pc = "open" /\ conn[c].ready = 0 /\ conn[c].reset = 0 /\ last[c] # 0
      /\ n \in owed[c] /\ n \in 1 .. Len(log) /\ \A i \in owed[c] : n <= i
      /\ n \in Coming(c) /\ Due(c) = owed[c]
      /\ owed[c] \ {n} = After(c, log[n].id)
  BY <1>2, NextOldest
<1>4. ComingInv(c) /\ OpeningInv(c) /\ OwedInv(c)
  BY <1>3 DEF StreamInv
<1>5. /\ conn'[c].pc = "open" /\ conn'[c].feed = conn[c].feed
      /\ conn'[c].ready = 0 /\ conn'[c].reset = 0
      /\ Coming(c)' = Coming(c) \ {n}
      /\ \A i, j \in 1 .. Len(conn'[c].frames) : i < j => conn'[c].frames[i] < conn'[c].frames[j]
      /\ \A m \in conn'[c].replay, k \in Channel(c)' : m < k
  <2>0. conn[c] \in ConnRecord /\ conn[c].frames \in Seq(Nat)
    BY <1>0 DEF ClientOK, ConnRecord
  <2>1. CASE NextReplayed(c, n) /\ conn'[c] = [conn[c] EXCEPT !.replay = @ \ {n}]
    <3>1. /\ conn'[c].pc = "open" /\ conn'[c].feed = conn[c].feed
          /\ conn'[c].ready = 0 /\ conn'[c].reset = 0
          /\ conn'[c].replay = conn[c].replay \ {n} /\ conn'[c].frames = conn[c].frames
      BY <1>3, <2>0, <2>1 DEF ConnRecord
    <3>2. Channel(c)' = Channel(c)
      BY <3>1 DEF Channel
    <3>3. n \notin Channel(c)
      <4>1. n \in conn[c].replay /\ n \in Nat
        BY <1>3, <2>1 DEF NextReplayed
      <4>2. \A m \in Channel(c) : n < m
        BY <1>4, <4>1 DEF ComingInv
      <4> QED
        BY <4>1, <4>2
    <3> QED
      BY <1>4, <3>1, <3>2, <3>3 DEF ComingInv, Coming
  <2>2. CASE NextLive(c, n) /\ conn'[c] = [conn[c] EXCEPT !.frames = Tail(@)]
    <3>0. conn[c].frames # <<>> /\ n = Head(conn[c].frames) /\ conn[c].replay = {}
      BY <2>2 DEF NextLive, Opening
    <3>1. /\ conn'[c].pc = "open" /\ conn'[c].feed = conn[c].feed
          /\ conn'[c].ready = 0 /\ conn'[c].reset = 0
          /\ conn'[c].replay = {} /\ conn'[c].frames = Tail(conn[c].frames)
      BY <1>3, <2>0, <2>2, <3>0 DEF ConnRecord
    <3>2. \A i, j \in 1 .. Len(conn[c].frames) : i < j => conn[c].frames[i] < conn[c].frames[j]
      BY <1>4 DEF ComingInv
    <3>3. Channel(c)' = Channel(c) \ {n}
      <4>1. PICK q : q = conn[c].frames /\ q \in Seq(Nat) /\ q # <<>>
        BY <2>0, <3>0
      <4>2. {Tail(q)[i] : i \in 1 .. Len(Tail(q))} = {q[i] : i \in 1 .. Len(q)} \ {Head(q)}
        BY <3>2, <4>1, ChannelTail
      <4>3. Channel(c)' = {Tail(q)[i] : i \in 1 .. Len(Tail(q))}
        BY <3>1, <4>1 DEF Channel
      <4>4. Channel(c) = {q[i] : i \in 1 .. Len(q)} /\ n = Head(q)
        BY <3>0, <4>1 DEF Channel
      <4> QED
        BY <4>2, <4>3, <4>4
    <3>4. \A i, j \in 1 .. Len(conn'[c].frames) : i < j => conn'[c].frames[i] < conn'[c].frames[j]
      BY <2>0, <3>0, <3>1, <3>2, ChannelTail
    <3> QED
      BY <3>0, <3>1, <3>3, <3>4 DEF Coming
  <2> QED
    BY <1>2, <2>1, <2>2
<1>6. last'[c] # 0 /\ last'[c] \in Nat /\ owed'[c] = After(c, last'[c])
  BY <1>0, <1>2, <1>3
<1>7. /\ After(c, last'[c]) \subseteq After(c, 0)
      /\ \A k \in After(c, last'[c]), m \in After(c, 0) : k < m => m \in After(c, last'[c])
  BY <1>6, LaterFacts DEF After
<1>8. LaterIn(log', c, 0) = After(c, 0) /\ LaterIn(log', c, last'[c]) = After(c, last'[c])
  BY <1>0 DEF After
<1>9. Due(c)' = Due(c) \ {n}
  BY <1>2, <1>3, <1>5, <1>6 DEF Due
<1>10. ComingInv(c)'
  <2>1. /\ Coming(c)' \subseteq Due(c)'
        /\ \A m \in Coming(c)', k \in Due(c)' : k < m => k \in Coming(c)'
        /\ conn'[c].feed = "live" => Due(c)' \subseteq Coming(c)'
    BY <1>4, <1>5, <1>9 DEF ComingInv
  <2> QED
    BY <1>5, <2>1 DEF ComingInv
<1>11. OpeningInv(c)'
  BY <1>5, <1>6, <1>7, <1>8 DEF OpeningInv, Opening, After
<1>12. OwedInv(c)'
  BY <1>6, <1>7, <1>8 DEF OwedInv, After
<1> QED
  BY <1>5, <1>10, <1>11, <1>12 DEF StreamInv, ClosedInv

\* What a publication leaves on the way to a client
LEMMA PublishedTo ==
  ASSUME TypeOK, NEW reached \in SUBSET Client, Publish(reached), NEW c \in Client
  PROVE  \/ conn'[c] = conn[c] /\ (c \in reached => conn[c].pc # "open" \/ conn[c].feed = "closed")
         \/ conn[c].pc = "open" /\ conn'[c] = [conn[c] EXCEPT !.feed = "closed"]
         \/ /\ c \in reached /\ conn[c].pc = "open" /\ conn[c].feed = "live"
            /\ conn'[c] = [conn[c] EXCEPT !.frames = Append(@, Len(log) + 1)]
<1> DEFINE listed == reached \cap subscribers
           slow   == {d \in listed : Full(d)}
           sent   == [d \in Client |-> IF d \in listed \ slow
                                       THEN [conn[d] EXCEPT !.frames = Append(@, Len(log'))]
                                       ELSE conn[d]]
<1>0. ClientOK(c) /\ LogOK
  BY TypeParts
<1>1. conn' = Remove(slow, sent)
  BY DEF Publish
<1>2. Len(log') = Len(log) + 1
  BY <1>0, LogAppended DEF Publish
<1>3. conn'[c] = IF c \in slow THEN [sent[c] EXCEPT !.feed = "closed"] ELSE sent[c]
  BY <1>1 DEF Remove
<1>4. c \in subscribers <=> conn[c].pc = "open" /\ conn[c].feed = "live"
  BY <1>0 DEF ClientOK
<1>5. conn[c].feed \in {"live", "closed"}
  BY <1>0 DEF ClientOK, ConnRecord
<1>6. CASE c \in slow
  BY <1>3, <1>4, <1>6
<1>7. CASE c \in listed \ slow
  BY <1>2, <1>3, <1>4, <1>7
<1>8. CASE c \notin listed
  BY <1>3, <1>4, <1>5, <1>8
<1> QED
  BY <1>6, <1>7, <1>8

\* A publication, as the clients see it
LEMMA PublishStream ==
  ASSUME TypeOK, LogInv, NEW reached \in SUBSET Client, Publish(reached),
         NEW c \in Client, StreamInv(c)
  PROVE  StreamInv(c)'
<1> DEFINE p == Len(log) + 1
           New == IF c \in reached THEN {p} ELSE {}
<1>0. /\ ClientOK(c) /\ LogOK /\ Len(log) \in Nat /\ newest \in Nat /\ floor' = floor
      /\ last' = last /\ last[c] \in 0 .. newest
      /\ conn[c].ready \in 0 .. newest /\ conn[c].reset \in 0 .. newest
  BY TypeParts DEF LogOK, ClientOK, Publish
<1>1. Len(log') = p
  BY <1>0, LogAppended DEF Publish
<1>2. \A x \in 0 .. newest : LaterIn(log', c, x) = After(c, x) \cup New
  BY <1>0, <1>1, LaterPublished DEF After
<1>3. owed'[c] = IF last[c] # 0 THEN owed[c] \cup New ELSE owed[c]
  BY <1>1 DEF Publish
<1>4. \A x \in 0 .. newest : After(c, x) \subseteq 1 .. Len(log)
  BY DEF After, LaterIn
<1> HIDE DEF New
<1>5. /\ New \subseteq {p} /\ \A m \in 1 .. Len(log) : m < p /\ m \in Nat
      /\ \A n \in New, m \in 1 .. Len(log) : ~(n < m)
  BY <1>0 DEF New
<1>6. OwedInv(c)'
  BY <1>0, <1>2, <1>3 DEF StreamInv, OwedInv, After
<1>7. CASE conn[c].pc # "open"
  <2>1. conn'[c] = conn[c]
    BY <1>7, PublishedTo
  <2>2. ClosedInv(c)'
    BY <1>0, <1>2, <1>3, <1>7, <2>1 DEF StreamInv, ClosedInv, After
  <2> QED
    BY <1>6, <1>7, <2>1, <2>2 DEF StreamInv
<1>8. CASE conn[c].pc = "open"
  <2>0. ComingInv(c) /\ OpeningInv(c) /\ OwedInv(c)
    BY <1>8 DEF StreamInv
  <2>1. /\ conn'[c].pc = "open" /\ conn'[c].ready = conn[c].ready
        /\ conn'[c].reset = conn[c].reset /\ conn'[c].replay = conn[c].replay
    <3>0. conn[c] \in ConnRecord
      BY <1>0 DEF ClientOK
    <3>1. CASE conn'[c] = conn[c]
      BY <1>8, <3>1
    <3>2. CASE conn'[c] = [conn[c] EXCEPT !.feed = "closed"]
      BY <1>8, <3>0, <3>2 DEF ConnRecord
    <3>3. CASE conn'[c] = [conn[c] EXCEPT !.frames = Append(@, Len(log) + 1)]
      BY <1>8, <3>0, <3>3 DEF ConnRecord
    <3> QED
      BY <3>1, <3>2, <3>3, PublishedTo
  <2>2. Due(c)' = Due(c) \cup New
    BY <1>0, <1>2, <1>3, <2>1 DEF Due, After
  <2>3. Due(c) \subseteq 1 .. Len(log) /\ Coming(c) \subseteq 1 .. Len(log)
    BY <1>0, <1>4 DEF Due, Coming, Channel, ClientOK
  <2>4. OpeningInv(c)'
    <3>1. /\ last[c] = 0 => conn[c].ready # 0 /\ conn[c].reset = 0 /\ conn[c].replay = {}
          /\ last[c] = 0 => owed[c] = {}
      BY <2>0 DEF OpeningInv, OwedInv
    <3>2. /\ LaterIn(log', c, 0) = After(c, 0) \cup New
          /\ LaterIn(log', c, conn[c].ready) = After(c, conn[c].ready) \cup New
          /\ LaterIn(log', c, conn[c].reset) = After(c, conn[c].reset) \cup New
          /\ LaterIn(log', c, last[c]) = After(c, last[c]) \cup New
      BY <1>0, <1>2
    <3>3. owed[c] \subseteq 1 .. Len(log) /\ After(c, 0) \subseteq 1 .. Len(log)
      BY <1>0, <1>4 DEF ClientOK
    <3>4. conn[c].reset = 0 =>
            \A n \in owed'[c], m \in LaterIn(log', c, 0) : n < m => m \in owed'[c]
      <4> SUFFICES ASSUME conn[c].reset = 0, NEW n \in owed'[c], NEW m \in LaterIn(log', c, 0), n < m
                   PROVE  m \in owed'[c]
        OBVIOUS
      <4>1. last[c] # 0 /\ owed'[c] = owed[c] \cup New
        BY <1>3, <3>1
      <4>2. CASE m \in New
        BY <4>1, <4>2
      <4>3. CASE m \in After(c, 0)
        <5>1. n \in owed[c]
          <6>1. n \notin New
            BY <1>5, <3>3, <4>3
          <6> QED
            BY <4>1, <6>1
        <5> QED
          BY <2>0, <4>1, <4>3, <5>1 DEF OpeningInv
      <4> QED
        BY <3>2, <4>2, <4>3
    <3>5. conn[c].reset # 0 => conn[c].replay = {} /\ LaterIn(log', c, conn[c].reset) \subseteq owed'[c]
      BY <1>3, <2>0, <3>1, <3>2 DEF OpeningInv
    <3>6. conn[c].ready # 0 /\ conn[c].reset = 0 /\ last[c] # 0
            => owed'[c] = conn[c].replay \cup LaterIn(log', c, conn[c].ready)
      BY <1>3, <2>0, <3>2 DEF OpeningInv
    <3>7. ~Opening(c) => owed'[c] = LaterIn(log', c, last[c])
      BY <1>3, <2>0, <3>1, <3>2 DEF OpeningInv, Opening
    <3> QED
      BY <1>0, <2>1, <3>1, <3>4, <3>5, <3>6, <3>7 DEF OpeningInv, Opening, After
  <2>5. ComingInv(c)'
    <3>1. CASE conn'[c].frames = conn[c].frames
      <4>1. conn'[c].feed = "live" => New = {} /\ conn[c].feed = "live"
        <5>1. CASE conn'[c] = conn[c] /\ (c \in reached => conn[c].pc # "open" \/ conn[c].feed = "closed")
          BY <1>8, <5>1 DEF New
        <5>2. CASE conn'[c] = [conn[c] EXCEPT !.feed = "closed"]
          BY <1>0, <5>2 DEF ClientOK, ConnRecord
        <5>3. CASE conn'[c] = [conn[c] EXCEPT !.frames = Append(@, Len(log) + 1)]
          <6>1. conn'[c].frames = Append(conn[c].frames, p) /\ conn[c].frames \in Seq(Nat)
            BY <1>0, <5>3 DEF ClientOK, ConnRecord
          <6>2. Len(conn'[c].frames) = Len(conn[c].frames) + 1 /\ Len(conn[c].frames) \in Nat
            BY <1>0, <6>1, AppendFrames
          <6> QED
            BY <3>1, <6>2
        <5> QED
          BY <5>1, <5>2, <5>3, PublishedTo
      <4>2. Channel(c)' = Channel(c) /\ Coming(c)' = Coming(c)
        BY <2>1, <3>1 DEF Channel, Coming
      <4>3. \A m \in Coming(c), n \in Due(c)' : n < m => n \in Coming(c)
        <5> SUFFICES ASSUME NEW m \in Coming(c), NEW n \in Due(c)', n < m PROVE n \in Coming(c)
          OBVIOUS
        <5>1. n \in Due(c)
          <6>1. n \notin New
            BY <1>5, <2>3
          <6> QED
            BY <2>2, <6>1
        <5> QED
          BY <2>0, <5>1 DEF ComingInv
      <4>4. /\ Coming(c) \subseteq Due(c)'
            /\ conn'[c].feed = "live" => Due(c)' \subseteq Coming(c)
        BY <2>0, <2>2, <4>1 DEF ComingInv
      <4>5. /\ \A i, j \in 1 .. Len(conn'[c].frames) : i < j => conn'[c].frames[i] < conn'[c].frames[j]
            /\ \A m \in conn'[c].replay, n \in Channel(c)' : m < n
        BY <2>0, <2>1, <3>1, <4>2 DEF ComingInv
      <4> QED
        BY <4>2, <4>3, <4>4, <4>5 DEF ComingInv
    <3>2. CASE /\ c \in reached /\ conn[c].feed = "live"
               /\ conn'[c] = [conn[c] EXCEPT !.frames = Append(@, Len(log) + 1)]
      <4> DEFINE q == conn[c].frames
      <4>1. q \in Seq(Nat) /\ conn'[c].frames = Append(q, p)
        BY <1>0, <3>2 DEF ClientOK, ConnRecord
      <4> HIDE DEF q
      <4>2. /\ Len(q) \in Nat /\ Len(conn'[c].frames) = Len(q) + 1
            /\ \A i \in 1 .. Len(q) : conn'[c].frames[i] = q[i]
            /\ conn'[c].frames[Len(q) + 1] = p
        BY <1>0, <4>1, AppendFrames
      <4>3. \A i \in 1 .. Len(conn'[c].frames) : i \in 1 .. Len(q) \/ i = Len(q) + 1
        BY <4>2
      <4>4. Channel(c)' = Channel(c) \cup {p}
        <5>1. Channel(c) = {q[i] : i \in 1 .. Len(q)}
          BY DEF Channel, q
        <5>2. Channel(c)' = {conn'[c].frames[i] : i \in 1 .. Len(conn'[c].frames)}
          BY DEF Channel
        <5>3. Channel(c)' \subseteq {q[i] : i \in 1 .. Len(q)} \cup {p}
          BY <4>2, <4>3, <5>2
        <5>4. \A i \in 1 .. Len(q) : i \in 1 .. Len(conn'[c].frames)
          BY <4>2
        <5>5. Len(q) + 1 \in 1 .. Len(conn'[c].frames)
          BY <4>2
        <5>6. {q[i] : i \in 1 .. Len(q)} \cup {p} \subseteq Channel(c)'
          BY <4>2, <5>2, <5>4, <5>5
        <5> QED
          BY <5>1, <5>3, <5>6
      <4>5. New = {p} /\ Coming(c)' = Coming(c) \cup {p}
        BY <2>1, <3>2, <4>4 DEF New, Coming
      <4>6. Due(c) = Coming(c)
        BY <2>0, <3>2 DEF ComingInv
      <4>7. \A i, j \in 1 .. Len(conn'[c].frames) : i < j => conn'[c].frames[i] < conn'[c].frames[j]
        <5> SUFFICES ASSUME NEW i \in 1 .. Len(conn'[c].frames), NEW j \in 1 .. Len(conn'[c].frames), i < j
                     PROVE  conn'[c].frames[i] < conn'[c].frames[j]
          OBVIOUS
        <5>1. i \in 1 .. Len(q)
          BY <4>2
        <5>2. conn'[c].frames[i] = q[i] /\ q[i] < p
          BY <1>0, <1>5, <4>2, <5>1 DEF ClientOK, q
        <5>3. CASE j \in 1 .. Len(q)
          BY <2>0, <4>2, <5>1, <5>3 DEF ComingInv, q
        <5>4. CASE j = Len(q) + 1
          BY <4>2, <5>2, <5>4
        <5> QED
          BY <4>3, <5>3, <5>4
      <4>8. \A m \in conn'[c].replay, n \in Channel(c)' : m < n
        <5>1. \A m \in conn[c].replay : m < p
          BY <1>0, <1>5 DEF ClientOK
        <5>2. \A m \in conn[c].replay, n \in Channel(c) : m < n
          BY <2>0 DEF ComingInv
        <5> QED
          BY <2>1, <4>4, <5>1, <5>2
      <4> QED
        BY <2>2, <4>5, <4>6, <4>7, <4>8 DEF ComingInv
    <3>3. \/ conn'[c].frames = conn[c].frames
          \/ /\ c \in reached /\ conn[c].feed = "live"
             /\ conn'[c] = [conn[c] EXCEPT !.frames = Append(@, Len(log) + 1)]
      <4>1. conn'[c] = [conn[c] EXCEPT !.feed = "closed"] => conn'[c].frames = conn[c].frames
        BY <1>0 DEF ClientOK, ConnRecord
      <4> QED
        BY <4>1, PublishedTo
    <3> QED
      BY <3>1, <3>2, <3>3
  <2> QED
    BY <1>6, <2>1, <2>4, <2>5 DEF StreamInv, ClosedInv
<1> QED
  BY <1>7, <1>8

\* The end of the process: the ids that the next one gives start above every client's
LEMMA ProcessStream ==
  ASSUME TypeOK, NEW c \in Client, StreamInv(c), Shutdown \/ Restart
  PROVE  StreamInv(c)'
<1>0. ClientOK(c) /\ newest \in Nat
  BY TypeParts DEF TypeOK
<1>1. CASE Shutdown
  <2>1. \/ conn'[c] = conn[c]
        \/ conn[c].pc = "open" /\ conn'[c] = [conn[c] EXCEPT !.feed = "closed"]
    BY <1>0, <1>1 DEF Shutdown, Remove, ClientOK
  <2>2. UNCHANGED <<log, floor>> /\ last'[c] = last[c] /\ owed'[c] = owed[c]
    BY <1>1 DEF Shutdown, hubVars, clientVars
  <2> QED
    BY <1>0, <2>1, <2>2, StreamKept
<1>2. CASE Restart
  <2>1. /\ conn'[c] = NoConn /\ UNCHANGED <<log, last, owed>> /\ floor' = newest + 1
    BY <1>2 DEF Restart, clientVars
  <2>2. conn'[c].pc # "open" /\ conn'[c] = [NoConn EXCEPT !.pc = conn'[c].pc]
    BY <2>1 DEF NoConn
  <2>3. last'[c] < floor'
    BY <1>0, <2>1 DEF ClientOK
  <2>4. OwedInv(c)'
    BY <2>1 DEF StreamInv, OwedInv, After
  <2> QED
    BY <2>2, <2>3, <2>4 DEF StreamInv, ClosedInv
<1> QED
  BY <1>1, <1>2

\* A step of one client's connection keeps every client's stream
LEMMA HandlerStream ==
  ASSUME TypeOK, LogInv, \A d \in Client : StreamInv(d),
         NEW c \in Client, steady, Handler(c) \/ Request(c) \/ Break(c), NEW d \in Client
  PROVE  StreamInv(d)'
<1>1. CASE d = c
  <2>1. CASE Request(c) \/ HandlerReturns(c) \/ Break(c)
    <3>1. Break(c) => ~Opening(c)
      BY DEF Break
    <3> QED
      BY <1>1, <2>1, <3>1, ConnStream
  <2>2. CASE Subscribe(c) \/ WriteOpening(c) \/ WriteLive(c)
    BY <1>1, <2>2, SubscribeStream, ReadyStream, ResetStream, FrameStream DEF WriteOpening
  <2> QED
    BY <2>1, <2>2 DEF Handler
<1>2. CASE d # c
  <2>0. ClientOK(d) /\ StreamInv(d)
    BY TypeParts
  <2>1. UNCHANGED <<log, floor>>
    BY DEF Handler, Subscribe, WriteOpening, WriteReady, WriteReset, WriteReplay, WriteLive,
           HandlerReturns, Request, Break, Processed, hubVars
  <2>2. conn'[d] = conn[d] /\ last'[d] = last[d] /\ owed'[d] = owed[d]
    BY <1>2 DEF TypeOK, Handler, Subscribe, WriteOpening, WriteReady, WriteReset, WriteReplay,
           WriteLive, HandlerReturns, Request, Break, Processed, clientVars
  <2> QED
    BY <2>0, <2>1, <2>2, StreamKept
<1> QED
  BY <1>1, <1>2

\* The inductive invariant: what the ring, the channels and the openings hold of the
\* events is what the clients have still to get
THEOREM HubCorrect == Spec => []HubInv
<1>1. Init => HubInv
  <2> SUFFICES ASSUME Init PROVE HubInv
    OBVIOUS
  <2>1. log = <<>> /\ Len(log) = 0 /\ kept = 0
    BY DEF Init
  <2>2. LogInv
    BY <2>1 DEF LogInv, Ring
  <2>3. ASSUME NEW c \in Client PROVE StreamInv(c)
    <3>1. conn[c] = NoConn /\ last[c] = 0 /\ owed[c] = {}
      BY DEF Init
    <3>2. conn[c].pc # "open" /\ conn[c] = [NoConn EXCEPT !.pc = conn[c].pc]
      BY <3>1 DEF NoConn
    <3> QED
      BY <3>1, <3>2 DEF StreamInv, OwedInv, ClosedInv
  <2> QED
    BY <2>2, <2>3 DEF HubInv
<1>2. TypeOK /\ HubInv /\ [Next]_vars => HubInv'
  <2> SUFFICES ASSUME TypeOK, HubInv, [Next]_vars PROVE HubInv'
    OBVIOUS
  <2>1. LogInv'
    BY LogInvStep DEF HubInv
  <2>2. steady' = steady
    BY DEF Next, Publish, Handler, Subscribe, WriteOpening, WriteReady, WriteReset, WriteReplay,
           WriteLive, HandlerReturns, Request, Break, Processed, Shutdown, Restart, vars
  <2>3. ASSUME steady, NEW d \in Client PROVE StreamInv(d)'
    <3>0. LogInv /\ \A c \in Client : StreamInv(c)
      BY <2>3 DEF HubInv
    <3>1. CASE UNCHANGED vars
      <4>1. ClientOK(d)
        BY TypeParts
      <4> QED
        BY <3>0, <3>1, <4>1, StreamKept DEF vars, hubVars, clientVars
    <3>2. CASE \E reached \in SUBSET Client : Publish(reached)
      BY <3>0, <3>2, PublishStream
    <3>3. CASE \E c \in Client : Handler(c) \/ Request(c) \/ Break(c)
      BY <2>3, <3>0, <3>3, HandlerStream
    <3>4. CASE Shutdown \/ Restart
      BY <3>0, <3>4, ProcessStream
    <3> QED
      BY <3>1, <3>2, <3>3, <3>4 DEF Next
  <2> QED
    BY <2>1, <2>2, <2>3 DEF HubInv
<1> QED
  BY <1>1, <1>2, StreamTypes, PTL DEF Spec

\* What is on its way to a client is well formed, and every event that it processes is
\* the oldest one owed to it, whatever the hub trimmed, dropped or lost in between, as
\* long as no connection is lost while its opening is under way: see Delivery.
THEOREM EventsDelivered == Spec => []Delivery
<1>1. TypeOK /\ HubInv => Delivery
  <2> SUFFICES ASSUME TypeOK, HubInv, steady, NEW c \in Client, NEW n \in 1 .. Len(log),
                      NextReplayed(c, n) \/ NextLive(c, n)
               PROVE  n \in owed[c] /\ \A i \in owed[c] : n <= i
    BY DEF Delivery, Gapless, OldestFirst
  <2>1. LogInv /\ StreamInv(c)
    BY DEF HubInv
  <2> QED
    BY <2>1, NextOldest
<1> QED
  BY <1>1, StreamTypes, HubCorrect, PTL

----------------------------------------------------------------------------
(* The sign-ins: the inductive invariant *)

Keyed == {"prune", "record", "forget", "tokens", "persist"}
Undecided == {"poll", "exchange", "create"}

FlowStatus == {"none", "pending", "approved", "denied", "expired", "failed", "gone"}

Workers == [flow : begun, pc : SignIn!Pc, account : Account \cup {Nobody}, id : Nat,
            result : {"", "approved", "denied", "expired", "failed"}]

Minted == UNION {minted[f] : f \in SignIn!Flow}

SignInState ==
  /\ begun \subseteq SignIn!Flow /\ late \subseteq begun /\ codes \subseteq begun \ Device
  /\ entry \in [SignIn!Flow -> FlowStatus]
  /\ work \subseteq Workers
  /\ minted \in [SignIn!Flow -> SUBSET Nat] /\ delivered \in [SignIn!Flow -> Nat]
  /\ subject \in Account \cup {Nobody} /\ incidents \in 0 .. MaxIncidents

\* A flow has its unused state or its one worker, and no key before its worker mints one
OneWorker ==
  /\ \A v, w \in work : v.flow = w.flow => v = w
  /\ \A w \in work : w.flow \notin codes
  /\ \A f \in SignIn!Flow \ begun : minted[f] = {} /\ delivered[f] = 0 /\ entry[f] = "none"
  /\ \A f \in codes : minted[f] = {}
  /\ \A w \in work : /\ w.pc \in Undecided => minted[w.flow] = {}
                     /\ w.pc \in Keyed <=> w.id # 0
                     /\ w.pc = "settle" => w.result # ""
                     /\ w.id # 0 => w.id \in minted[w.flow]

\* A flow minted nothing or one key; what was handed over is forgotten
OneEach ==
  /\ \A f \in SignIn!Flow : minted[f] = {} \/ \E id \in Nat : minted[f] = {id}
  /\ \A f \in SignIn!Flow : delivered[f] = 0 \/ (delivered[f] = 1 /\ entry[f] = "gone")

\* The status of a flow that is still being completed stays pending while there is time
OnTime ==
  /\ missed \subseteq late
  /\ \A f \in SignIn!Flow \ Silent :
       f \in codes \/ (\E w \in work : w.flow = f) => entry[f] = "pending" \/ f \in late

\* The ids of the keys count up, and no token is stored before its key
Numbered == (\E k \in Nat : Minted = 1 .. k) /\ onDisk \cup refreshes \subseteq Minted

\* Every key has its account on record, or its worker on the way to that, or a restart
\* ended its worker
Recorded ==
  /\ \A id \in held : \/ id \in identity
                      \/ \E f \in cutOff \cap SignIn!Flow : id \in minted[f]
                      \/ \E w \in work : w.id = id /\ w.pc \in {"prune", "record"}
  /\ \A w \in work : w.pc \in {"forget", "tokens", "persist"} /\ w.id \in held => w.id \in identity
  /\ (onDisk \cup refreshes) \cap held \subseteq identity

\* What is left of a key that was removed has a worker on its way to drop it
Dropping ==
  /\ \A id \in identity \cup onDisk :
       id \notin held \cup excused => id \in identity /\ \E w \in work : w.pc = "record"
  /\ \A id \in sources :
       id \notin held \cup excused => \E w \in work : w.pc \in {"record", "forget"}

FlowInv == SignInState /\ OneWorker /\ OneEach /\ OnTime
KeyInv == Numbered /\ Recorded /\ Dropping
SignInInv == FlowInv /\ KeyInv

----------------------------------------------------------------------------
(* What a step does to the workers *)

LEMMA WorkerOK ==
  ASSUME SignInState, NEW w \in work
  PROVE  /\ w \in Workers /\ w.flow \in begun /\ w.flow \in SignIn!Flow /\ w.pc \in SignIn!Pc
         /\ w.account \in Account \cup {Nobody} /\ w.id \in Nat
         /\ w.result \in {"", "approved", "denied", "expired", "failed"}
BY DEF SignInState, Workers

\* A worker that comes into being or settles has no key
LEMMA NewWorker ==
  ASSUME NEW f \in begun, NEW pc \in SignIn!Pc,
         NEW result \in {"", "approved", "denied", "expired", "failed"}
  PROVE  LET v == SignIn!Worker(f, pc, result)
         IN  v \in Workers /\ v.flow = f /\ v.pc = pc /\ v.id = 0 /\ v.result = result
BY DEF SignIn!Worker, Workers

\* A worker that goes on keeps what it has
LEMMA NextWorker ==
  ASSUME SignInState, NEW w \in work, NEW pc \in SignIn!Pc
  PROVE  LET v == [w EXCEPT !.pc = pc]
         IN  v \in Workers /\ v.flow = w.flow /\ v.pc = pc /\ v.id = w.id /\ v.result = w.result
<1>1. w \in Workers
  BY WorkerOK
<1> QED
  BY <1>1 DEF Workers

\* One worker in another's place, nothing else of the flows changed
LEMMA FlowKept ==
  ASSUME FlowInv, NEW w \in work, NEW v \in Workers, v.flow = w.flow, SignIn!Becomes(w, v),
         UNCHANGED <<begun, late, entry, codes, minted, delivered, missed>>,
         subject' \in Account \cup {Nobody}, incidents' = incidents,
         v.id \in {0, w.id}, v.pc \in Keyed <=> v.id # 0, v.pc = "settle" => v.result # "",
         v.pc \in Undecided => w.pc \in Undecided
  PROVE  FlowInv'
<1>0. SignInState /\ OneWorker /\ OneEach /\ OnTime
  BY DEF FlowInv
<1>w. work' = (work \ {w}) \cup {v}
  BY DEF SignIn!Becomes
<1>1. SignInState'
  <2>1. Workers' = Workers
    BY DEF Workers
  <2> QED
    BY <1>0, <1>w, <2>1 DEF SignInState
<1>2. OneWorker'
  <2>1. \A u \in work' : \E x \in work : x.flow = u.flow /\ (u = x \/ (u = v /\ x = w))
    BY <1>w
  <2>2. \A u, x \in work' : u.flow = x.flow => u = x
    <3> SUFFICES ASSUME NEW u \in work', NEW x \in work', u.flow = x.flow PROVE u = x
      OBVIOUS
    <3>1. \A y \in work : y.flow = w.flow => y = w
      BY <1>0 DEF OneWorker
    <3>2. CASE u = v
      BY <1>w, <3>1, <3>2
    <3>3. CASE x = v
      BY <1>w, <3>1, <3>3
    <3>4. CASE u \in work /\ x \in work
      BY <1>0, <3>4 DEF OneWorker
    <3> QED
      BY <1>w, <3>2, <3>3, <3>4
  <2>3. \A u \in work' : u.flow \notin codes
    BY <1>0, <2>1 DEF OneWorker
  <2>4. \A u \in work' : /\ u.pc \in Undecided => minted[u.flow] = {}
                         /\ u.pc \in Keyed <=> u.id # 0
                         /\ u.pc = "settle" => u.result # ""
                         /\ u.id # 0 => u.id \in minted[u.flow]
    <3> SUFFICES ASSUME NEW u \in work'
                 PROVE  /\ u.pc \in Undecided => minted[u.flow] = {}
                        /\ u.pc \in Keyed <=> u.id # 0
                        /\ u.pc = "settle" => u.result # ""
                        /\ u.id # 0 => u.id \in minted[u.flow]
      OBVIOUS
    <3>1. CASE u = v
      BY <1>0, <3>1 DEF OneWorker
    <3>2. CASE u \in work
      BY <1>0, <3>2 DEF OneWorker
    <3> QED
      BY <3>1, <3>2, <1>w
  <2> QED
    BY <1>0, <2>2, <2>3, <2>4 DEF OneWorker
<1>3. OneEach'
  BY <1>0 DEF OneEach
<1>4. OnTime'
  BY <1>0, <1>w DEF OnTime
<1> QED
  BY <1>1, <1>2, <1>3, <1>4 DEF FlowInv

\* No worker with a key comes, goes or moves, and nothing is written of a key
LEMMA KeysKept ==
  ASSUME KeyInv,
         UNCHANGED <<held, identity, sources, onDisk, refreshes, minted, excused, cutOff>>,
         \A w \in work : w.pc \in Keyed => w \in work',
         \A w \in work' : w.pc \in Keyed => w \in work
  PROVE  KeyInv'
<1>0. Numbered /\ Recorded /\ Dropping
  BY DEF KeyInv
<1>1. Numbered'
  BY <1>0 DEF Numbered, Minted
<1>2. Recorded'
  BY <1>0 DEF Recorded, Keyed
<1>3. Dropping'
  BY <1>0 DEF Dropping, Keyed
<1> QED
  BY <1>1, <1>2, <1>3 DEF KeyInv

----------------------------------------------------------------------------
(* The flows and their handles *)

\* A new worker takes the place of its flow's state, or begins with the flow
LEMMA WorkerComes ==
  ASSUME FlowInv, NEW f \in SignIn!Flow, NEW v \in Workers', v.flow = f, v.id = 0,
         v.pc \in {"poll", "exchange", "settle"}, v.pc = "settle" => v.result # "",
         work' \in {work, work \cup {v}}, f \in codes \/ f \notin begun,
         begun \subseteq begun', begun' \subseteq begun \cup {f},
         codes' \subseteq (codes \ {f}) \cup {g \in {f} : f \notin begun /\ work' = work},
         UNCHANGED <<minted, delivered>>,
         \A g \in SignIn!Flow \ begun' : entry'[g] = entry[g]
  PROVE  OneWorker'
<1>0. SignInState /\ OneWorker
  BY DEF FlowInv
<1>1. \A w \in work : w.flow # f /\ w.flow \in begun
  <2>1. \A w \in work : w.flow \in begun
    BY <1>0, WorkerOK
  <2>2. \A w \in work : w.flow \notin codes
    BY <1>0 DEF OneWorker
  <2> QED
    BY <2>1, <2>2
<1>2. minted[f] = {}
  BY <1>0 DEF OneWorker
<1>3. \A u, x \in work' : u.flow = x.flow => u = x
  <2> SUFFICES ASSUME NEW u \in work', NEW x \in work', u.flow = x.flow PROVE u = x
    OBVIOUS
  <2>1. CASE u \in work /\ x \in work
    BY <1>0, <2>1 DEF OneWorker
  <2>2. u \in work => u.flow # f
    BY <1>1
  <2>3. x \in work => x.flow # f
    BY <1>1
  <2>4. (u \in work \/ u = v) /\ (x \in work \/ x = v)
    OBVIOUS
  <2> QED
    BY <2>1, <2>2, <2>3, <2>4
<1>4. \A u \in work' : u.flow \notin codes'
  <2> SUFFICES ASSUME NEW u \in work', u.flow \in codes' PROVE FALSE
    OBVIOUS
  <2>1. CASE u \in work
    <3>1. u.flow \notin codes
      BY <1>0, <2>1 DEF OneWorker
    <3> QED
      BY <1>1, <2>1, <3>1
  <2>2. CASE u = v /\ work' # work
    BY <2>2
  <2> QED
    BY <2>1, <2>2
<1>5. \A g \in SignIn!Flow \ begun' : minted[g] = {} /\ delivered[g] = 0 /\ entry'[g] = "none"
  BY <1>0 DEF OneWorker
<1>6. \A g \in codes' : minted[g] = {}
  BY <1>0, <1>2 DEF OneWorker
<1>7. \A u \in work' : /\ u.pc \in Undecided => minted[u.flow] = {}
                       /\ u.pc \in Keyed <=> u.id # 0
                       /\ u.pc = "settle" => u.result # ""
                       /\ u.id # 0 => u.id \in minted[u.flow]
  <2> SUFFICES ASSUME NEW u \in work'
               PROVE  /\ u.pc \in Undecided => minted[u.flow] = {}
                      /\ u.pc \in Keyed <=> u.id # 0
                      /\ u.pc = "settle" => u.result # ""
                      /\ u.id # 0 => u.id \in minted[u.flow]
    OBVIOUS
  <2>1. CASE u = v
    BY <1>2, <2>1 DEF Keyed
  <2>2. CASE u \in work
    BY <1>0, <2>2 DEF OneWorker
  <2> QED
    BY <2>1, <2>2
<1> QED
  BY <1>3, <1>4, <1>5, <1>6, <1>7 DEF OneWorker

LEMMA BeginStep ==
  ASSUME SignInInv, NEW f \in SignIn!Flow, SignIn!Begin(f)
  PROVE  SignInInv'
<1>0. SignInState /\ OneWorker /\ OneEach /\ OnTime /\ KeyInv
  BY DEF SignInInv, FlowInv
<1>1. f \notin begun /\ begun' = begun \cup {f} /\ UNCHANGED <<late, minted, delivered>>
  BY DEF SignIn!Begin
<1>2. PICK gone \in SUBSET late :
        /\ \A g \in gone : f \notin Silent /\ g \notin Silent
        /\ entry' = SignIn!Sweep(gone, IF f \in Silent THEN entry
                                       ELSE [entry EXCEPT ![f] = "pending"])
        /\ missed' = missed \cup {g \in gone : entry[g] = "approved"}
  BY DEF SignIn!Begin
<1>3. f \notin gone
  BY <1>0, <1>1, <1>2 DEF SignInState
<1>4. PICK start : start = [entry EXCEPT ![f] = "pending"]
  OBVIOUS
<1>5. /\ start \in [SignIn!Flow -> FlowStatus]
      /\ start[f] = "pending" /\ \A g \in SignIn!Flow : g # f => start[g] = entry[g]
  BY <1>0, <1>4 DEF SignInState, FlowStatus
<1>6. /\ entry' \in [SignIn!Flow -> FlowStatus]
      /\ \A g \in SignIn!Flow : g # f => entry'[g] = entry[g] \/ (g \in gone /\ entry'[g] = "gone")
      /\ f \notin Silent => entry'[f] = "pending"
  BY <1>0, <1>2, <1>3, <1>4, <1>5 DEF SignIn!Sweep, SignInState, FlowStatus
<1>7. PICK v : v = SignIn!Worker(f, "poll", "")
  OBVIOUS
<1>8. v \in Workers' /\ v.flow = f /\ v.pc = "poll" /\ v.id = 0 /\ Workers \subseteq Workers'
  BY <1>1, <1>7 DEF SignIn!Worker, Workers, SignIn!Pc
<1>9. \/ f \in Device /\ codes' = codes /\ work' = work \cup {v}
      \/ f \notin Device /\ codes' \subseteq codes \cup {f} /\ work' = work
  BY <1>7 DEF SignIn!Begin
<1>10. SignInState'
  <2>1. work' \subseteq Workers'
    BY <1>0, <1>8, <1>9 DEF SignInState
  <2>2. codes' \subseteq begun' \ Device
    BY <1>0, <1>1, <1>9 DEF SignInState
  <2>3. subject' = subject /\ incidents' = incidents
    BY DEF SignIn!Begin, SignIn!keyVars
  <2> QED
    BY <1>0, <1>1, <1>6, <2>1, <2>2, <2>3 DEF SignInState
<1>11. OneWorker'
  <2>1. f \notin codes
    BY <1>0, <1>1 DEF SignInState
  <2>2. codes' \subseteq (codes \ {f}) \cup {g \in {f} : f \notin begun /\ work' = work}
    BY <1>1, <1>9, <2>1
  <2>3. \A g \in SignIn!Flow \ begun' : entry'[g] = entry[g]
    BY <1>0, <1>1, <1>6 DEF SignInState
  <2> QED
    BY <1>1, <1>8, <1>9, <2>2, <2>3, WorkerComes DEF SignInInv
<1>12. OneEach'
  <2>1. delivered[f] = 0
    BY <1>0, <1>1 DEF OneWorker
  <2> QED
    BY <1>0, <1>1, <1>6, <2>1 DEF OneEach
<1>13. OnTime'
  <2>1. \A g \in SignIn!Flow \ Silent :
          g \in codes' \/ (\E w \in work' : w.flow = g) => entry'[g] = "pending" \/ g \in late
    BY <1>0, <1>2, <1>6, <1>8, <1>9 DEF OnTime
  <2> QED
    BY <1>0, <1>1, <1>2, <2>1 DEF OnTime
<1>14. KeyInv'
  <2>1. UNCHANGED <<held, identity, sources, onDisk, refreshes, minted, excused, cutOff>>
    BY DEF SignIn!Begin, SignIn!keyVars
  <2> QED
    BY <1>0, <1>8, <1>9, <2>1, KeysKept DEF Keyed
<1> QED
  BY <1>10, <1>11, <1>12, <1>13, <1>14 DEF SignInInv, FlowInv

LEMMA EntryStep ==
  ASSUME SignInInv, NEW f \in SignIn!Flow, SignIn!Expire(f) \/ SignIn!DeviceStatus(f)
  PROVE  SignInInv'
<1>0. SignInState /\ OneWorker /\ OneEach /\ OnTime /\ KeyInv
  BY DEF SignInInv, FlowInv
<1>1. /\ UNCHANGED <<begun, codes, work, minted, missed, subject, incidents>>
      /\ UNCHANGED <<held, identity, sources, onDisk, refreshes, excused, cutOff>>
  BY DEF SignIn!Expire, SignIn!DeviceStatus, SignIn!keyVars, SignIn!historyVars
<1>2. KeyInv'
  BY <1>0, <1>1, KeysKept
<1>3. Workers' = Workers
  BY <1>1 DEF Workers
<1>4. CASE SignIn!Expire(f)
  <2>1. late' = late \cup {f} /\ UNCHANGED <<entry, delivered>>
    BY <1>4 DEF SignIn!Expire, SignIn!historyVars
  <2>2. f \in begun
    <3>1. f \in codes \/ entry[f] \in {"pending", "approved"}
      BY <1>4 DEF SignIn!Expire
    <3> QED
      BY <1>0, <3>1 DEF SignInState, OneWorker
  <2>3. FlowInv'
    BY <1>0, <1>1, <1>3, <2>1, <2>2 DEF FlowInv, SignInState, OneWorker, OneEach, OnTime
  <2> QED
    BY <1>2, <2>3 DEF SignInInv
<1>5. CASE SignIn!DeviceStatus(f)
  <2>1. /\ late' = late /\ entry' = [entry EXCEPT ![f] = "gone"]
        /\ entry[f] \in {"approved", "expired"} \/ (entry[f] = "pending" /\ f \in late)
        /\ delivered' = IF entry[f] = "approved" THEN [delivered EXCEPT ![f] = @ + 1] ELSE delivered
    BY <1>5 DEF SignIn!DeviceStatus
  <2>2. delivered[f] = 0
    BY <1>0, <2>1 DEF OneEach
  <2>3. /\ entry' \in [SignIn!Flow -> FlowStatus]
        /\ entry'[f] = "gone" /\ \A g \in SignIn!Flow : g # f => entry'[g] = entry[g]
    BY <1>0, <2>1 DEF SignInState, FlowStatus
  <2>4. /\ delivered' \in [SignIn!Flow -> Nat] /\ delivered'[f] \in {0, 1}
        /\ \A g \in SignIn!Flow : g # f => delivered'[g] = delivered[g]
    BY <1>0, <2>1, <2>2 DEF SignInState
  <2>5. SignInState'
    BY <1>0, <1>1, <1>3, <2>1, <2>3, <2>4 DEF SignInState
  <2>6. f \in begun
    BY <1>0, <2>1 DEF OneWorker
  <2>7. OneWorker'
    BY <1>0, <1>1, <2>3, <2>4, <2>6 DEF OneWorker
  <2>8. OneEach'
    <3>1. \A g \in SignIn!Flow : delivered'[g] = 0 \/ (delivered'[g] = 1 /\ entry'[g] = "gone")
      BY <1>0, <2>3, <2>4 DEF OneEach
    <3> QED
      BY <1>0, <1>1, <3>1 DEF OneEach
  <2>9. OnTime'
    BY <1>0, <1>1, <2>1, <2>3 DEF OnTime
  <2> QED
    BY <1>2, <2>5, <2>7, <2>8, <2>9 DEF SignInInv, FlowInv
<1> QED
  BY <1>4, <1>5

\* The callback or the paste that takes a state out
LEMMA StateUsed ==
  ASSUME SignInInv, NEW f \in SignIn!Flow, SignIn!Callback(f) \/ SignIn!Paste(f)
  PROVE  SignInInv'
<1>0. SignInState /\ OneWorker /\ OneEach /\ OnTime /\ KeyInv
  BY DEF SignInInv, FlowInv
<1>1. /\ UNCHANGED <<begun, late, entry, minted, delivered, missed, subject, incidents>>
      /\ UNCHANGED <<held, identity, sources, onDisk, refreshes, excused, cutOff>>
      /\ f \in codes /\ codes' = codes \ {f}
  BY DEF SignIn!Callback, SignIn!Paste, SignIn!Take, SignIn!CodesLeft, SignIn!keyVars,
         SignIn!historyVars
<1>2. Workers' = Workers /\ f \in begun
  BY <1>0, <1>1 DEF Workers, SignInState
<1>3. PICK v \in Workers :
        /\ v.flow = f /\ v.id = 0 /\ v.pc \in {"poll", "exchange", "settle"}
        /\ v.pc = "settle" => v.result # ""
        /\ work' \in {work, work \cup {v}}
  <2>1. CASE \E result \in {"denied", "failed"} :
               work' = work \cup {SignIn!Worker(f, "settle", result)}
    <3>1. PICK result \in {"denied", "failed"} :
            work' = work \cup {SignIn!Worker(f, "settle", result)}
      BY <2>1
    <3>2. PICK v : v = SignIn!Worker(f, "settle", result)
      OBVIOUS
    <3>3. v \in Workers /\ v.flow = f /\ v.pc = "settle" /\ v.id = 0 /\ v.result = result
      BY <1>2, <3>2 DEF SignIn!Worker, Workers, SignIn!Pc
    <3> QED
      BY <3>1, <3>2, <3>3
  <2>2. CASE work' \in {work, work \cup {SignIn!Worker(f, "exchange", "")}}
    <3>1. PICK v : v = SignIn!Worker(f, "exchange", "")
      OBVIOUS
    <3>2. v \in Workers /\ v.flow = f /\ v.pc = "exchange" /\ v.id = 0
      BY <1>2, <3>1 DEF SignIn!Worker, Workers, SignIn!Pc
    <3> QED
      BY <2>2, <3>1, <3>2
  <2> QED
    BY <2>1, <2>2 DEF SignIn!Callback, SignIn!Paste
<1>4. SignInState'
  BY <1>0, <1>1, <1>2, <1>3 DEF SignInState
<1>5. OneWorker'
  BY <1>1, <1>2, <1>3, WorkerComes DEF SignInInv
<1>6. OneEach'
  BY <1>0, <1>1 DEF OneEach
<1>7. OnTime'
  <2>1. \A g \in SignIn!Flow \ Silent :
          g \in codes' \/ (\E w \in work' : w.flow = g) => entry[g] = "pending" \/ g \in late
    BY <1>0, <1>1, <1>3 DEF OnTime
  <2> QED
    BY <1>0, <1>1, <2>1 DEF OnTime
<1>8. KeyInv'
  BY <1>0, <1>1, <1>3, KeysKept DEF Keyed
<1> QED
  BY <1>4, <1>5, <1>6, <1>7, <1>8 DEF SignInInv, FlowInv

\* The end of a sign-in without a key
LEMMA EndsFlow ==
  ASSUME SignInInv, NEW w \in work, NEW result \in {"approved", "denied", "expired", "failed"},
         SignIn!Ends(w, result),
         UNCHANGED <<begun, late, entry, codes, minted, delivered, missed>>,
         subject' \in Account \cup {Nobody}, incidents' = incidents
  PROVE  /\ FlowInv'
         /\ \E v \in Workers : v.pc = "settle" /\ v.id = 0 /\ work' = (work \ {w}) \cup {v}
<1>0. SignInState /\ FlowInv
  BY DEF SignInInv, FlowInv
<1>1. PICK v : v = SignIn!Worker(w.flow, "settle", result)
  OBVIOUS
<1>2. w.flow \in begun
  BY <1>0, WorkerOK
<1>3. v \in Workers /\ v.flow = w.flow /\ v.pc = "settle" /\ v.id = 0 /\ v.result = result
  BY <1>1, <1>2 DEF SignIn!Worker, Workers, SignIn!Pc
<1>4. SignIn!Becomes(w, v)
  BY <1>1 DEF SignIn!Ends
<1>5. FlowInv'
  BY <1>0, <1>3, <1>4, FlowKept DEF Keyed, Undecided
<1> QED
  BY <1>3, <1>4, <1>5 DEF SignIn!Becomes

\* An answer of the provider
LEMMA Answered ==
  ASSUME SignInInv, NEW w \in work, SignIn!Watch(w) \/ SignIn!Exchange(w)
  PROVE  SignInInv'
<1>0. SignInState /\ FlowInv /\ KeyInv
  BY DEF SignInInv, FlowInv
<1>1. /\ UNCHANGED <<begun, late, entry, codes, minted, delivered, missed, subject, incidents>>
      /\ UNCHANGED <<held, identity, sources, onDisk, refreshes, excused, cutOff>>
  BY DEF SignIn!Watch, SignIn!Exchange, SignIn!WorkOnly, SignIn!flowVars, SignIn!keyVars,
         SignIn!historyVars
<1>2. w.pc \in {"poll", "exchange"} /\ w.pc \notin Keyed
  BY DEF SignIn!Watch, SignIn!Exchange, Keyed
<1>3. w.id = 0
  BY <1>0, <1>2 DEF FlowInv, OneWorker
<1>4. \/ \E a \in Account : SignIn!Becomes(w, [w EXCEPT !.pc = "create", !.account = a])
      \/ \E result \in {"denied", "expired", "failed"} : SignIn!Ends(w, result)
  BY DEF SignIn!Watch, SignIn!Exchange, SignIn!Decide
<1>5. subject' \in Account \cup {Nobody}
  BY <1>0, <1>1 DEF SignInState
<1>6. /\ FlowInv'
      /\ \E v \in Workers : v.pc \notin Keyed /\ work' = (work \ {w}) \cup {v}
  <2>1. CASE \E a \in Account : SignIn!Becomes(w, [w EXCEPT !.pc = "create", !.account = a])
    <3>1. PICK a \in Account : SignIn!Becomes(w, [w EXCEPT !.pc = "create", !.account = a])
      BY <2>1
    <3>2. PICK v : v = [w EXCEPT !.pc = "create", !.account = a]
      OBVIOUS
    <3>3. w \in Workers
      BY <1>0, WorkerOK
    <3>4. v \in Workers /\ v.flow = w.flow /\ v.pc = "create" /\ v.id = w.id
      BY <3>2, <3>3 DEF Workers, SignIn!Pc
    <3>5. SignIn!Becomes(w, v)
      BY <3>1, <3>2
    <3>6. FlowInv'
      BY <1>0, <1>1, <1>2, <1>3, <1>5, <3>4, <3>5, FlowKept DEF Keyed, Undecided
    <3> QED
      BY <3>4, <3>5, <3>6 DEF SignIn!Becomes, Keyed
  <2>2. CASE \E result \in {"denied", "expired", "failed"} : SignIn!Ends(w, result)
    <3>1. PICK result \in {"denied", "expired", "failed"} : SignIn!Ends(w, result)
      BY <2>2
    <3> QED
      BY <1>1, <1>5, <3>1, EndsFlow DEF Keyed
  <2> QED
    BY <1>4, <2>1, <2>2
<1>7. KeyInv'
  BY <1>0, <1>1, <1>2, <1>6, KeysKept
<1> QED
  BY <1>6, <1>7 DEF SignInInv

\* The end of a sign-in
LEMMA Settled ==
  ASSUME SignInInv, NEW w \in work, SignIn!Settle(w)
  PROVE  SignInInv'
<1>0. SignInState /\ OneWorker /\ OneEach /\ OnTime /\ KeyInv
  BY DEF SignInInv, FlowInv
<1>1. /\ UNCHANGED <<begun, late, codes, minted, delivered, subject, incidents>>
      /\ UNCHANGED <<held, identity, sources, onDisk, refreshes, excused, cutOff>>
      /\ w.pc = "settle" /\ work' = work \ {w}
  BY DEF SignIn!Settle, SignIn!keyVars
<1>2. /\ entry' = IF entry[w.flow] = "pending" THEN [entry EXCEPT ![w.flow] = w.result] ELSE entry
      /\ \/ missed' = missed
         \/ missed' = missed \cup {w.flow} /\ entry[w.flow] # "pending" /\ w.flow \notin Silent
  BY DEF SignIn!Settle
<1>3. /\ w.flow \in SignIn!Flow /\ w.flow \in begun
      /\ w.result \in {"approved", "denied", "expired", "failed"}
  BY <1>0, <1>1, WorkerOK DEF OneWorker
<1>4. Workers' = Workers
  BY <1>1 DEF Workers
<1>5. /\ entry' \in [SignIn!Flow -> FlowStatus]
      /\ \A g \in SignIn!Flow : g # w.flow \/ entry[g] # "pending" => entry'[g] = entry[g]
  BY <1>0, <1>2, <1>3 DEF SignInState, FlowStatus
<1>6. SignInState'
  BY <1>0, <1>1, <1>4, <1>5 DEF SignInState
<1>7. OneWorker'
  BY <1>0, <1>1, <1>3, <1>5 DEF OneWorker
<1>8. OneEach'
  BY <1>0, <1>1, <1>5 DEF OneEach
<1>9. OnTime'
  <2>1. missed' \subseteq late
    BY <1>0, <1>2, <1>3 DEF OnTime
  <2>2. \A u \in work' : u.flow # w.flow
    BY <1>0, <1>1 DEF OneWorker
  <2>3. w.flow \notin codes
    BY <1>0 DEF OneWorker
  <2>4. \A g \in SignIn!Flow \ Silent :
          g \in codes \/ (\E u \in work' : u.flow = g) => entry'[g] = "pending" \/ g \in late
    BY <1>0, <1>1, <1>5, <2>2, <2>3 DEF OnTime
  <2> QED
    BY <1>1, <2>1, <2>4 DEF OnTime
<1>10. KeyInv'
  BY <1>0, <1>1, KeysKept DEF Keyed
<1> QED
  BY <1>6, <1>7, <1>8, <1>9, <1>10 DEF SignInInv, FlowInv

----------------------------------------------------------------------------
(* The key of a sign-in, its account and its tokens *)

\* The sign-ins count with their own instance of the standard operator
LEMMA SignInCount ==
  ASSUME NEW S
  PROVE  SignIn!Cardinality(S) = Cardinality(S)
BY DEF SignIn!Cardinality, Cardinality

\* A new key has the next id
LEMMA FreshKey ==
  ASSUME SignInState, Numbered
  PROVE  \A id : id = Cardinality(Minted) + 1 =>
           id \in Nat /\ id # 0 /\ id \notin Minted /\ Minted \cup {id} = 1 .. id
<1>1. PICK k \in Nat : Minted = 1 .. k
  BY DEF Numbered
<1>2. Cardinality(Minted) = k
  BY <1>1, FS_Interval
<1>3. k + 1 \in Nat /\ k + 1 # 0 /\ k + 1 \notin 1 .. k /\ (1 .. k) \cup {k + 1} = 1 .. (k + 1)
  OBVIOUS
<1>4. Cardinality(Minted) + 1 = k + 1
  BY <1>2
<1> QED
  BY <1>1, <1>3, <1>4

LEMMA KeyCreated ==
  ASSUME SignInInv, NEW w \in work, SignIn!CreateKey(w)
  PROVE  SignInInv'
<1>0. SignInState /\ OneWorker /\ OneEach /\ OnTime /\ Numbered /\ Recorded /\ Dropping
  BY DEF SignInInv, FlowInv, KeyInv
<1>1. /\ UNCHANGED <<begun, late, entry, codes, delivered, missed, subject, incidents>>
      /\ UNCHANGED <<identity, sources, onDisk, refreshes, excused, cutOff>>
      /\ w.pc = "create"
  BY DEF SignIn!CreateKey, SignIn!flowVars
<1>2. /\ w.flow \in SignIn!Flow /\ w.id = 0 /\ minted[w.flow] = {}
      /\ w \in Workers /\ w.pc \notin Keyed
  BY <1>0, <1>1, WorkerOK DEF OneWorker, Undecided, Keyed
<1>3. CASE SignIn!Ends(w, "failed") /\ UNCHANGED <<held, minted>>
  <2>1. FlowInv' /\ \E v \in Workers : v.pc = "settle" /\ v.id = 0 /\ work' = (work \ {w}) \cup {v}
    BY <1>0, <1>1, <1>3, EndsFlow DEF SignInState
  <2>2. KeyInv'
    BY <1>1, <1>2, <1>3, <2>1, KeysKept DEF Keyed, SignInInv
  <2> QED
    BY <2>1, <2>2 DEF SignInInv
<1>4. CASE ~(SignIn!Ends(w, "failed") /\ UNCHANGED <<held, minted>>)
  <2>1. PICK id : id = Cardinality(Minted) + 1
    OBVIOUS
  <2>2. PICK v : v = [w EXCEPT !.pc = "prune", !.id = id]
    OBVIOUS
  <2>3. /\ held' = held \cup {id} /\ minted' = [minted EXCEPT ![w.flow] = @ \cup {id}]
        /\ work' = (work \ {w}) \cup {v}
    <3>1. id = SignIn!Cardinality(UNION {minted[f] : f \in SignIn!Flow}) + 1
      BY <2>1, SignInCount DEF Minted
    <3> QED
      BY <1>4, <2>2, <3>1 DEF SignIn!CreateKey, SignIn!Becomes
  <2>4. id \in Nat /\ id # 0 /\ id \notin Minted /\ Minted \cup {id} = 1 .. id
    BY <1>0, <2>1, FreshKey
  <2>5. v \in Workers /\ v.flow = w.flow /\ v.pc = "prune" /\ v.id = id
    BY <1>2, <2>2, <2>4 DEF Workers, SignIn!Pc
  <2>6. /\ minted' \in [SignIn!Flow -> SUBSET Nat] /\ minted'[w.flow] = {id}
        /\ \A f \in SignIn!Flow : f # w.flow => minted'[f] = minted[f]
    BY <1>0, <1>2, <2>3, <2>4 DEF SignInState
  <2>7. Minted' = Minted \cup {id}
    BY <1>2, <2>6 DEF Minted
  <2>8. \A u \in work : u.id # id
    <3>1. \A u \in work : u.id # 0 => u.id \in Minted
      BY <1>0, WorkerOK DEF OneWorker, Minted
    <3> QED
      BY <2>4, <3>1
  <2>9. \A u \in work : u.flow = w.flow => u = w
    BY <1>0 DEF OneWorker
  <2>10. SignInState'
    <3>1. Workers' = Workers
      BY <1>1 DEF Workers
    <3> QED
      BY <1>0, <1>1, <2>3, <2>5, <2>6, <3>1 DEF SignInState
  <2>11. OneWorker'
    <3>1. \A u, x \in work' : u.flow = x.flow => u = x
      <4> SUFFICES ASSUME NEW u \in work', NEW x \in work', u.flow = x.flow PROVE u = x
        OBVIOUS
      <4>1. CASE u = v \/ x = v
        BY <2>3, <2>5, <2>9, <4>1
      <4>2. CASE u \in work /\ x \in work
        BY <1>0, <4>2 DEF OneWorker
      <4> QED
        BY <2>3, <4>1, <4>2
    <3>2. \A u \in work' : u.flow \notin codes /\ u.flow \in begun
      BY <1>0, <2>3, <2>5, WorkerOK DEF OneWorker
    <3>3. w.flow \in begun /\ w.flow \notin codes
      BY <1>0, WorkerOK DEF OneWorker
    <3>4. \A f \in SignIn!Flow \ begun : minted'[f] = {} /\ delivered[f] = 0 /\ entry[f] = "none"
      BY <1>0, <2>6, <3>3 DEF OneWorker
    <3>5. \A f \in codes : minted'[f] = {}
      BY <1>0, <2>6, <3>3 DEF OneWorker, SignInState
    <3>6. \A u \in work' : /\ u.pc \in Undecided => minted'[u.flow] = {}
                           /\ u.pc \in Keyed <=> u.id # 0
                           /\ u.pc = "settle" => u.result # ""
                           /\ u.id # 0 => u.id \in minted'[u.flow]
      <4> SUFFICES ASSUME NEW u \in work'
                   PROVE  /\ u.pc \in Undecided => minted'[u.flow] = {}
                          /\ u.pc \in Keyed <=> u.id # 0
                          /\ u.pc = "settle" => u.result # ""
                          /\ u.id # 0 => u.id \in minted'[u.flow]
        OBVIOUS
      <4>1. CASE u = v
        BY <2>4, <2>5, <2>6, <4>1 DEF Keyed, Undecided
      <4>2. CASE u \in work /\ u # w
        <5>1. u.flow # w.flow /\ u.flow \in SignIn!Flow
          BY <1>0, <2>9, <4>2, WorkerOK
        <5>2. minted'[u.flow] = minted[u.flow]
          BY <2>6, <5>1
        <5> QED
          BY <1>0, <4>2, <5>2 DEF OneWorker
      <4> QED
        BY <2>3, <4>1, <4>2
    <3> QED
      BY <1>1, <3>1, <3>2, <3>4, <3>5, <3>6 DEF OneWorker
  <2>12. OneEach'
    <3>1. \A f \in SignIn!Flow : minted'[f] = {} \/ \E n \in Nat : minted'[f] = {n}
      BY <1>0, <2>4, <2>6 DEF OneEach
    <3> QED
      BY <1>0, <1>1, <3>1 DEF OneEach
  <2>13. OnTime'
    <3>1. \A u \in work' : \E x \in work : x.flow = u.flow
      BY <2>3, <2>5
    <3> QED
      BY <1>0, <1>1, <3>1 DEF OnTime
  <2>14. Numbered'
    <3>1. onDisk \cup refreshes \subseteq Minted \cup {id}
      BY <1>0 DEF Numbered
    <3> QED
      BY <1>1, <2>4, <2>7, <3>1 DEF Numbered
  <2>15. Recorded'
    <3>1. \A n \in held' : \/ n \in identity
                           \/ \E f \in cutOff \cap SignIn!Flow : n \in minted'[f]
                           \/ \E u \in work' : u.id = n /\ u.pc \in {"prune", "record"}
      <4> SUFFICES ASSUME NEW n \in held', n \notin identity,
                          ~ \E f \in cutOff \cap SignIn!Flow : n \in minted'[f]
                   PROVE  \E u \in work' : u.id = n /\ u.pc \in {"prune", "record"}
        OBVIOUS
      <4>1. CASE n = id
        BY <2>3, <2>5, <4>1
      <4>2. CASE n # id
        <5>1. n \in held /\ ~ \E f \in cutOff \cap SignIn!Flow : n \in minted[f]
          BY <1>2, <2>3, <2>6, <4>2
        <5>2. PICK u \in work : u.id = n /\ u.pc \in {"prune", "record"}
          BY <1>0, <5>1 DEF Recorded
        <5> QED
          BY <1>1, <2>3, <5>2
      <4> QED
        BY <4>1, <4>2
    <3>2. \A u \in work' : 
            u.pc \in {"forget", "tokens", "persist"} /\ u.id \in held' => u.id \in identity
      <4> SUFFICES ASSUME NEW u \in work', u.pc \in {"forget", "tokens", "persist"}, u.id \in held'
                   PROVE  u.id \in identity
        OBVIOUS
      <4>1. u \in work /\ u.id \in held
        BY <2>3, <2>5, <2>8
      <4> QED
        BY <1>0, <4>1 DEF Recorded
    <3>3. (onDisk \cup refreshes) \cap held' \subseteq identity
      BY <1>0, <2>3, <2>4 DEF Recorded, Numbered
    <3> QED
      BY <1>1, <3>1, <3>2, <3>3 DEF Recorded
  <2>16. Dropping'
    <3>1. \A u \in work : u.pc \in {"record", "forget"} => u \in work'
      BY <1>1, <2>3
    <3> QED
      BY <1>0, <1>1, <2>3, <3>1 DEF Dropping
  <2> QED
    BY <2>10, <2>11, <2>12, <2>13, <2>14, <2>15, <2>16 DEF SignInInv, FlowInv, KeyInv
<1> QED
  BY <1>3, <1>4

\* A step of a worker that has its key: it moves, and the flows stay as they are
LEMMA WorkerMoves ==
  ASSUME SignInInv, NEW w \in work, w.pc \in Keyed, NEW pc \in Keyed,
         SignIn!Becomes(w, [w EXCEPT !.pc = pc]),
         UNCHANGED <<begun, late, entry, codes, minted, delivered, missed>>,
         subject' \in Account \cup {Nobody}, incidents' = incidents
  PROVE  /\ FlowInv'
         /\ \E v : v.pc = pc /\ v.id = w.id /\ work' = (work \ {w}) \cup {v}
<1>0. SignInState /\ FlowInv /\ OneWorker
  BY DEF SignInInv, FlowInv
<1>1. PICK v : v = [w EXCEPT !.pc = pc]
  OBVIOUS
<1>2. pc \in SignIn!Pc
  BY DEF Keyed, SignIn!Pc
<1>3. v \in Workers /\ v.flow = w.flow /\ v.pc = pc /\ v.id = w.id /\ v.result = w.result
  BY <1>0, <1>1, <1>2, NextWorker
<1>4. SignIn!Becomes(w, v)
  BY <1>1
<1>5. w.id # 0
  BY <1>0 DEF OneWorker
<1>6. FlowInv'
  BY <1>0, <1>3, <1>4, <1>5, FlowKept DEF Keyed, Undecided
<1> QED
  BY <1>3, <1>4, <1>6 DEF SignIn!Becomes

LEMMA Pruned ==
  ASSUME SignInInv, NEW w \in work, SignIn!PruneKeys(w)
  PROVE  SignInInv'
<1>0. SignInState /\ Numbered /\ Recorded /\ Dropping
  BY DEF SignInInv, FlowInv, KeyInv
<1>1. /\ UNCHANGED <<begun, late, entry, codes, minted, delivered, missed, subject, incidents>>
      /\ UNCHANGED <<identity, sources, onDisk, refreshes, excused, cutOff>>
      /\ w.pc = "prune" /\ SignIn!Becomes(w, [w EXCEPT !.pc = "record"])
  BY DEF SignIn!PruneKeys, SignIn!At, SignIn!flowVars, SignIn!historyVars
<1>2. held' \subseteq held
  BY DEF SignIn!PruneKeys, SignIn!Newest
<1>3. FlowInv' /\ \E v : v.pc = "record" /\ v.id = w.id /\ work' = (work \ {w}) \cup {v}
  BY <1>0, <1>1, WorkerMoves DEF Keyed, SignInState
<1>4. PICK v : v.pc = "record" /\ v.id = w.id /\ work' = (work \ {w}) \cup {v}
  BY <1>3
<1>5. Numbered'
  BY <1>0, <1>1 DEF Numbered, Minted
<1>6. Recorded'
  <2>1. \A n \in held' : \/ n \in identity
                         \/ \E f \in cutOff \cap SignIn!Flow : n \in minted[f]
                         \/ \E u \in work' : u.id = n /\ u.pc \in {"prune", "record"}
    <3> SUFFICES ASSUME NEW n \in held', n \notin identity,
                        ~ \E f \in cutOff \cap SignIn!Flow : n \in minted[f]
                 PROVE  \E u \in work' : u.id = n /\ u.pc \in {"prune", "record"}
      OBVIOUS
    <3>1. PICK u \in work : u.id = n /\ u.pc \in {"prune", "record"}
      BY <1>0, <1>2 DEF Recorded
    <3>2. CASE u = w
      BY <1>4, <3>1, <3>2
    <3>3. CASE u # w
      BY <1>4, <3>1, <3>3
    <3> QED
      BY <3>2, <3>3
  <2>2. \A u \in work' : 
          u.pc \in {"forget", "tokens", "persist"} /\ u.id \in held' => u.id \in identity
    BY <1>0, <1>2, <1>4 DEF Recorded
  <2>3. (onDisk \cup refreshes) \cap held' \subseteq identity
    BY <1>0, <1>2 DEF Recorded
  <2> QED
    BY <1>1, <2>1, <2>2, <2>3 DEF Recorded
<1>7. Dropping'
  <2>1. v \in work'
    BY <1>4
  <2>2. \A n \in identity \cup onDisk : n \notin held' \cup excused => n \in identity
    BY <1>0 DEF Dropping, Recorded
  <2> QED
    BY <1>1, <1>4, <2>1, <2>2 DEF Dropping
<1> QED
  BY <1>3, <1>5, <1>6, <1>7 DEF SignInInv, KeyInv

LEMMA AccountRecorded ==
  ASSUME SignInInv, NEW w \in work, SignIn!Record(w)
  PROVE  SignInInv'
<1>0. SignInState /\ Numbered /\ Recorded /\ Dropping
  BY DEF SignInInv, FlowInv, KeyInv
<1>1. /\ UNCHANGED <<begun, late, entry, codes, minted, delivered, missed, incidents>>
      /\ UNCHANGED <<held, sources, refreshes, cutOff>>
      /\ w.pc = "record" /\ SignIn!Becomes(w, [w EXCEPT !.pc = "forget"])
  BY DEF SignIn!Record, SignIn!At, SignIn!flowVars
<1>2. /\ identity' = (identity \cup {w.id}) \ {id \in identity : id # w.id /\ id \notin held}
      /\ onDisk' = onDisk \ {id \in identity : id # w.id /\ id \notin held}
      /\ excused' = excused \cup ({w.id} \ held)
      /\ subject' = IF subject = Nobody THEN w.account ELSE subject
  BY DEF SignIn!Record, SignIn!Late
<1>3. subject' \in Account \cup {Nobody}
  BY <1>0, <1>2, WorkerOK DEF SignInState
<1>4. FlowInv' /\ \E v : v.pc = "forget" /\ v.id = w.id /\ work' = (work \ {w}) \cup {v}
  BY <1>1, <1>3, WorkerMoves DEF Keyed
<1>5. PICK v : v.pc = "forget" /\ v.id = w.id /\ work' = (work \ {w}) \cup {v}
  BY <1>4
<1>6. identity \cap held \subseteq identity' /\ w.id \in identity'
  BY <1>2
<1>7. Numbered'
  BY <1>0, <1>1, <1>2 DEF Numbered, Minted
<1>8. Recorded'
  <2>1. \A n \in held : \/ n \in identity'
                        \/ \E f \in cutOff \cap SignIn!Flow : n \in minted[f]
                        \/ \E u \in work' : u.id = n /\ u.pc \in {"prune", "record"}
    <3> SUFFICES ASSUME NEW n \in held, n \notin identity',
                        ~ \E f \in cutOff \cap SignIn!Flow : n \in minted[f]
                 PROVE  \E u \in work' : u.id = n /\ u.pc \in {"prune", "record"}
      OBVIOUS
    <3>1. PICK u \in work : u.id = n /\ u.pc \in {"prune", "record"}
      BY <1>0, <1>6 DEF Recorded
    <3> QED
      BY <1>5, <1>6, <3>1
  <2>2. \A u \in work' : 
          u.pc \in {"forget", "tokens", "persist"} /\ u.id \in held => u.id \in identity'
    BY <1>0, <1>5, <1>6 DEF Recorded
  <2>3. (onDisk' \cup refreshes) \cap held \subseteq identity'
    BY <1>0, <1>2, <1>6 DEF Recorded
  <2> QED
    BY <1>1, <2>1, <2>2, <2>3 DEF Recorded
<1>9. Dropping'
  <2>1. \A n \in identity' \cup onDisk' : n \in held \cup excused'
    <3> SUFFICES ASSUME NEW n \in identity' \cup onDisk', n \notin held \cup excused'
                 PROVE  FALSE
      OBVIOUS
    <3>1. n # w.id /\ n \in identity \cup onDisk /\ n \notin held \cup excused
      BY <1>2
    <3>2. n \in identity
      BY <1>0, <3>1 DEF Dropping
    <3> QED
      BY <1>2, <3>1, <3>2
  <2>2. v \in work'
    BY <1>5
  <2> QED
    BY <1>1, <1>5, <2>1, <2>2 DEF Dropping
<1> QED
  BY <1>4, <1>7, <1>8, <1>9 DEF SignInInv, KeyInv

LEMMA TokensForgotten ==
  ASSUME SignInInv, NEW w \in work, SignIn!Forget(w)
  PROVE  SignInInv'
<1>0. SignInState /\ Numbered /\ Recorded /\ Dropping
  BY DEF SignInInv, FlowInv, KeyInv
<1>1. /\ UNCHANGED <<begun, late, entry, codes, minted, delivered, missed, subject, incidents>>
      /\ UNCHANGED <<held, identity, refreshes, excused, cutOff>>
      /\ w.pc = "forget" /\ SignIn!Becomes(w, [w EXCEPT !.pc = "tokens"])
  BY DEF SignIn!Forget, SignIn!At, SignIn!flowVars, SignIn!historyVars
<1>2. sources' = sources \cap held /\ onDisk' \subseteq onDisk
  BY DEF SignIn!Forget, SignIn!SourcesLeft
<1>3. FlowInv' /\ \E v : v.pc = "tokens" /\ v.id = w.id /\ work' = (work \ {w}) \cup {v}
  BY <1>0, <1>1, WorkerMoves DEF Keyed, SignInState
<1>4. PICK v : v.pc = "tokens" /\ v.id = w.id /\ work' = (work \ {w}) \cup {v}
  BY <1>3
<1>5. Numbered'
  BY <1>0, <1>1, <1>2 DEF Numbered, Minted
<1>6. Recorded'
  <2>1. \A u \in work : u.pc \in {"prune", "record"} => u \in work'
    BY <1>1, <1>4
  <2>2. \A u \in work' : 
          u.pc \in {"forget", "tokens", "persist"} /\ u.id \in held => u.id \in identity
    BY <1>0, <1>1, <1>4 DEF Recorded
  <2> QED
    BY <1>0, <1>1, <1>2, <2>1, <2>2 DEF Recorded
<1>7. Dropping'
  <2>1. \A u \in work : u.pc = "record" => u \in work'
    BY <1>1, <1>4
  <2> QED
    BY <1>0, <1>1, <1>2, <2>1 DEF Dropping
<1> QED
  BY <1>3, <1>5, <1>6, <1>7 DEF SignInInv, KeyInv

\* Tokens are held and stored after the account is on record; what is written of a key
\* that is gone meanwhile is on record as written late
LEMMA TokensWritten ==
  ASSUME SignInInv, NEW w \in work, SignIn!HoldTokens(w) \/ SignIn!PersistTokens(w)
  PROVE  SignInInv'
<1>0. SignInState /\ Numbered /\ Recorded /\ Dropping /\ OneWorker
  BY DEF SignInInv, FlowInv, KeyInv
<1>1. /\ UNCHANGED <<begun, late, entry, codes, minted, delivered, missed, subject, incidents>>
      /\ UNCHANGED <<held, identity, refreshes, cutOff>>
      /\ w.pc \in {"tokens", "persist"}
  BY DEF SignIn!HoldTokens, SignIn!PersistTokens, SignIn!flowVars
<1>2. /\ sources \subseteq sources' /\ sources' \subseteq sources \cup {w.id}
      /\ onDisk \subseteq onDisk' /\ onDisk' \subseteq onDisk \cup {w.id}
      /\ excused \subseteq excused'
      /\ sources' = sources \/ w.id \in held \cup excused'
      /\ onDisk' = onDisk \/ w.id \in held \cup excused'
  BY DEF SignIn!HoldTokens, SignIn!PersistTokens, SignIn!Late
<1>3. SignIn!Ends(w, "approved") \/ SignIn!Becomes(w, [w EXCEPT !.pc = "persist"])
  BY DEF SignIn!HoldTokens, SignIn!PersistTokens
<1>4. subject' \in Account \cup {Nobody}
  BY <1>0, <1>1 DEF SignInState
<1>5. /\ FlowInv'
      /\ \E v : /\ v.pc = "settle" \/ (v.pc = "persist" /\ v.id = w.id)
                /\ work' = (work \ {w}) \cup {v}
  <2>1. CASE SignIn!Ends(w, "approved")
    BY <1>1, <1>4, <2>1, EndsFlow
  <2>2. CASE SignIn!Becomes(w, [w EXCEPT !.pc = "persist"])
    BY <1>1, <1>4, <2>2, WorkerMoves DEF Keyed
  <2> QED
    BY <1>3, <2>1, <2>2
<1>6. PICK v : /\ v.pc = "settle" \/ (v.pc = "persist" /\ v.id = w.id)
               /\ work' = (work \ {w}) \cup {v}
  BY <1>5
<1>7. \A u \in work : u.pc \in {"prune", "record", "forget"} => u \in work'
  BY <1>1, <1>6
<1>8. w.id \in Minted /\ (w.id \in held => w.id \in identity)
  <2>1. w.id # 0 /\ w.flow \in SignIn!Flow
    BY <1>0, <1>1, WorkerOK DEF OneWorker, Keyed
  <2>2. w.id \in minted[w.flow]
    BY <1>0, <2>1 DEF OneWorker
  <2> QED
    BY <1>0, <1>1, <2>1, <2>2 DEF Minted, Recorded
<1>9. Numbered'
  BY <1>0, <1>1, <1>2, <1>8 DEF Numbered, Minted
<1>10. Recorded'
  <2>1. \A u \in work' : 
          u.pc \in {"forget", "tokens", "persist"} /\ u.id \in held => u.id \in identity
    BY <1>0, <1>6, <1>8 DEF Recorded
  <2>2. (onDisk' \cup refreshes) \cap held \subseteq identity
    BY <1>0, <1>2, <1>8 DEF Recorded
  <2> QED
    BY <1>0, <1>1, <1>7, <2>1, <2>2 DEF Recorded
<1>11. Dropping'
  <2>1. \A n \in identity \cup onDisk' : n \notin held \cup excused'
          => n \in identity \cup onDisk /\ n \notin held \cup excused
    BY <1>2
  <2>2. \A n \in sources' : n \notin held \cup excused'
          => n \in sources /\ n \notin held \cup excused
    BY <1>2
  <2> QED
    BY <1>0, <1>1, <1>7, <2>1, <2>2 DEF Dropping
<1> QED
  BY <1>5, <1>9, <1>10, <1>11 DEF SignInInv, KeyInv

----------------------------------------------------------------------------
(* Refreshes, an operator, a restart *)

LEMMA KeyIncident ==
  ASSUME SignInInv,
         NEW id \in held \cup onDisk \cup refreshes,
         SignIn!Refresh(id) \/ SignIn!Refreshed(id) \/ SignIn!DeleteKey(id)
  PROVE  SignInInv'
<1>0. SignInState /\ OneWorker /\ OneEach /\ OnTime /\ Numbered /\ Recorded /\ Dropping
  BY DEF SignInInv, FlowInv, KeyInv
<1>1. /\ UNCHANGED <<begun, late, entry, codes, minted, delivered, missed, subject>>
      /\ UNCHANGED <<work, identity, sources, cutOff>>
  BY DEF SignIn!Refresh, SignIn!Refreshed, SignIn!DeleteKey, SignIn!flowVars, SignIn!historyVars
<1>2. incidents' \in 0 .. MaxIncidents
  BY <1>0, SignInAssumption
     DEF SignInState, SignIn!Refresh, SignIn!Refreshed, SignIn!DeleteKey, SignIn!Incident
<1>3. FlowInv'
  <2>1. Workers' = Workers
    BY <1>1 DEF Workers
  <2> QED
    BY <1>0, <1>1, <1>2, <2>1 DEF FlowInv, SignInState, OneWorker, OneEach, OnTime
<1>4. /\ held' \subseteq held /\ excused \subseteq excused'
      /\ held \ held' \subseteq excused'
      /\ onDisk' \cup refreshes' \subseteq onDisk \cup refreshes
      /\ onDisk' \subseteq onDisk \cup held' \cup excused'
  BY DEF SignIn!Refresh, SignIn!Refreshed, SignIn!DeleteKey, SignIn!Late, SignIn!historyVars
<1>5. Numbered'
  BY <1>0, <1>1, <1>4 DEF Numbered, Minted
<1>6. Recorded'
  BY <1>0, <1>1, <1>4 DEF Recorded
<1>7. Dropping'
  <2>1. \A n \in identity \cup onDisk' : n \notin held' \cup excused'
          => n \in identity \cup onDisk /\ n \notin held \cup excused
    BY <1>4
  <2>2. \A n \in sources : n \notin held' \cup excused' => n \notin held \cup excused
    BY <1>4
  <2> QED
    BY <1>0, <1>1, <2>1, <2>2 DEF Dropping
<1> QED
  BY <1>3, <1>5, <1>6, <1>7 DEF SignInInv, KeyInv

\* A restart ends the workers: the keys they had are cut off, what is left of gone keys
\* is erased or stays on record
LEMMA Restarted ==
  ASSUME SignInInv, SignIn!Restart
  PROVE  SignInInv'
<1>0. SignInState /\ OneWorker /\ OneEach /\ OnTime /\ Numbered /\ Recorded /\ Dropping
  BY DEF SignInInv, FlowInv, KeyInv
<1>1. /\ UNCHANGED <<begun, late, held, subject, identity, minted, delivered, missed>>
      /\ codes' = {} /\ work' = {} /\ refreshes' = {}
      /\ onDisk' = onDisk \cap held /\ sources' = onDisk'
      /\ entry' = [f \in SignIn!Flow |-> IF f \in begun THEN "gone" ELSE "none"]
      /\ excused' = excused \cup (identity \ held)
      /\ cutOff' = cutOff \cup {w.flow : w \in work} \cup {f \in begun \ Silent : delivered[f] = 0}
      /\ incidents < MaxIncidents /\ incidents' = incidents + 1
  BY DEF SignIn!Restart, SignIn!Incident
<1>2. SignInState'
  BY <1>0, <1>1, SignInAssumption DEF SignInState, FlowStatus
<1>3. OneWorker'
  BY <1>0, <1>1 DEF OneWorker
<1>4. OneEach'
  BY <1>0, <1>1 DEF OneEach, OneWorker
<1>5. OnTime'
  BY <1>0, <1>1 DEF OnTime
<1>6. Numbered'
  BY <1>0, <1>1 DEF Numbered, Minted
<1>7. Recorded'
  <2>1. \A n \in held : n \in identity \/ \E f \in cutOff' \cap SignIn!Flow : n \in minted[f]
    <3> SUFFICES ASSUME NEW n \in held, n \notin identity
                 PROVE  \E f \in cutOff' \cap SignIn!Flow : n \in minted[f]
      OBVIOUS
    <3>1. CASE \E f \in cutOff \cap SignIn!Flow : n \in minted[f]
      BY <1>1, <3>1
    <3>2. CASE \E w \in work : w.id = n /\ w.pc \in {"prune", "record"}
      <4>1. PICK w \in work : w.id = n /\ w.pc \in {"prune", "record"}
        BY <3>2
      <4>2. w.id # 0
        BY <1>0, <4>1 DEF OneWorker, Keyed
      <4>3. n \in minted[w.flow]
        BY <1>0, <4>1, <4>2 DEF OneWorker
      <4>4. w.flow \in cutOff' \cap SignIn!Flow
        BY <1>0, <1>1, WorkerOK
      <4> QED
        BY <4>3, <4>4
    <3> QED
      BY <1>0, <3>1, <3>2 DEF Recorded
  <2> QED
    BY <1>0, <1>1, <2>1 DEF Recorded
<1>8. Dropping'
  BY <1>1 DEF Dropping
<1> QED
  BY <1>2, <1>3, <1>4, <1>5, <1>6, <1>7, <1>8 DEF SignInInv, FlowInv, KeyInv

----------------------------------------------------------------------------
(* The theorems *)

\* Every step of the sign-ins keeps their invariant
LEMMA SignInStep ==
  ASSUME SignInInv, SignIn!Next \/ UNCHANGED signInVars
  PROVE  SignInInv'
<1>1. CASE SignIn!Next
  <2>1. CASE \E f \in SignIn!Flow : SignIn!Begin(f)
    BY <2>1, BeginStep
  <2>2. CASE \E f \in SignIn!Flow : SignIn!Expire(f) \/ SignIn!DeviceStatus(f)
    BY <2>2, EntryStep
  <2>3. CASE \E f \in SignIn!Flow : SignIn!Callback(f) \/ SignIn!Paste(f)
    BY <2>3, StateUsed
  <2>4. CASE \E w \in work : SignIn!Watch(w) \/ SignIn!Exchange(w)
    BY <2>4, Answered
  <2>5. CASE \E w \in work : SignIn!Complete(w)
    <3>1. PICK w \in work : SignIn!Complete(w)
      BY <2>5
    <3>2. CASE SignIn!CreateKey(w)
      BY <3>2, KeyCreated
    <3>3. CASE SignIn!PruneKeys(w)
      BY <3>3, Pruned
    <3>4. CASE SignIn!Record(w)
      BY <3>4, AccountRecorded
    <3>5. CASE SignIn!Forget(w)
      BY <3>5, TokensForgotten
    <3>6. CASE SignIn!HoldTokens(w) \/ SignIn!PersistTokens(w)
      BY <3>6, TokensWritten
    <3>7. CASE SignIn!Settle(w)
      BY <3>7, Settled
    <3> QED
      BY <3>1, <3>2, <3>3, <3>4, <3>5, <3>6, <3>7 DEF SignIn!Complete
  <2>6. CASE \E id \in held \cup onDisk \cup refreshes :
               SignIn!Refresh(id) \/ SignIn!Refreshed(id) \/ SignIn!DeleteKey(id)
    BY <2>6, KeyIncident
  <2>7. CASE SignIn!Restart
    BY <2>7, Restarted
  <2> QED
    BY <1>1, <2>1, <2>2, <2>3, <2>4, <2>5, <2>6, <2>7 DEF SignIn!Next
<1>2. CASE UNCHANGED signInVars
  <2>1. /\ UNCHANGED <<begun, late, entry, codes, work, minted, delivered, missed>>
        /\ UNCHANGED <<subject, incidents>>
        /\ UNCHANGED <<held, identity, sources, onDisk, refreshes, excused, cutOff>>
    BY <1>2 DEF signInVars
  <2>2. Workers' = Workers
    BY <2>1 DEF Workers
  <2>3. FlowInv'
    BY <2>1, <2>2 DEF SignInInv, FlowInv, SignInState, OneWorker, OneEach, OnTime
  <2>4. KeyInv'
    BY <2>1, KeysKept DEF SignInInv
  <2> QED
    BY <2>3, <2>4 DEF SignInInv
<1> QED
  BY <1>1, <1>2

\* The inductive invariant of the sign-ins: one worker or one unused state each, one key
\* each, and for whatever a step still has to write or drop the worker that will do it
THEOREM SignInCorrect == SceneSpec => []SignInInv
<1>1. SceneInit => SignInInv
  <2> SUFFICES ASSUME SignIn!Init PROVE SignInInv
    BY DEF SceneInit
  <2>1. SignInState /\ OneWorker /\ OneEach /\ OnTime
    BY SignInAssumption DEF SignIn!Init, SignInState, FlowStatus, OneWorker, OneEach, OnTime
  <2>2. Minted = {} /\ {} = 1 .. 0
    BY DEF SignIn!Init, Minted
  <2>3. Numbered
    BY <2>2 DEF SignIn!Init, Numbered
  <2>4. Recorded /\ Dropping
    BY DEF SignIn!Init, Recorded, Dropping
  <2> QED
    BY <2>1, <2>3, <2>4 DEF SignInInv, FlowInv, KeyInv
<1>2. SignInInv /\ [SceneNext]_sceneVars => SignInInv'
  <2>1. [SceneNext]_sceneVars => SignIn!Next \/ UNCHANGED signInVars
    BY DEF SceneNext, sceneVars
  <2> QED
    BY <2>1, SignInStep
<1> QED
  BY <1>1, <1>2, PTL DEF SceneSpec

\* Whatever the sign-ins overlap, and whatever keys are deleted, refreshed or pruned in
\* between: once none is under way, each key has its account on record or was cut off by
\* a restart, and nothing is left of a removed key but what was written after its removal
\* (record, pruneKeyTokens).
THEOREM NothingIsLeft == SceneSpec => []SignInLeavesNothing
<1>1. SignInInv => SignInLeavesNothing
  <2> SUFFICES ASSUME Recorded, Dropping, work = {}
               PROVE  /\ held \subseteq identity \cup UNION {minted[f] : f \in cutOff}
                      /\ identity \cup sources \cup onDisk \subseteq held \cup excused
    BY DEF SignInInv, KeyInv, SignInLeavesNothing, SignIn!NothingLeft
  <2>1. held \subseteq identity \cup UNION {minted[f] : f \in cutOff}
    BY DEF Recorded
  <2>2. identity \cup sources \cup onDisk \subseteq held \cup excused
    BY DEF Dropping
  <2> QED
    BY <2>1, <2>2
<1> QED
  BY <1>1, SignInCorrect, PTL

\* A sign-in mints one key at most and hands it over once at most, and no approval is
\* missed before its time is over (finish, approve, setStatus).
THEOREM OneKeyEach == SceneSpec => [](SignIn!TypeOK /\ SignIn!OneKey /\ SignIn!MissedLate)
<1>1. SignInInv => SignIn!TypeOK /\ SignIn!OneKey /\ SignIn!MissedLate
  <2> SUFFICES ASSUME SignInState, OneWorker, OneEach, OnTime
               PROVE  SignIn!TypeOK /\ SignIn!OneKey /\ SignIn!MissedLate
    BY DEF SignInInv, FlowInv
  <2>1. \A w \in work : /\ w.flow \in begun /\ w.pc \in SignIn!Pc
                        /\ w.pc \in {"prune", "record", "forget", "tokens", "persist"} <=> w.id # 0
    BY WorkerOK DEF OneWorker, Keyed
  <2>2. SignIn!TypeOK
    BY <2>1 DEF SignIn!TypeOK, SignInState, FlowStatus
  <2>3. ASSUME NEW f \in SignIn!Flow PROVE SignIn!Cardinality(minted[f]) <= 1 /\ delivered[f] <= 1
    <3>1. delivered[f] <= 1
      BY DEF OneEach
    <3>2. CASE minted[f] = {}
      BY <3>1, <3>2, FS_EmptySet, SignInCount
    <3>3. CASE \E id \in Nat : minted[f] = {id}
      <4>1. PICK id \in Nat : minted[f] = {id}
        BY <3>3
      <4>2. Cardinality({id}) = 1
        BY FS_Singleton
      <4>3. SignIn!Cardinality(minted[f]) = 1
        BY <4>1, <4>2, SignInCount
      <4> QED
        BY <3>1, <4>3
    <3> QED
      BY <3>2, <3>3 DEF OneEach
  <2>4. SignIn!OneKey
    BY <2>3 DEF SignIn!OneKey
  <2>5. SignIn!MissedLate
    BY DEF SignIn!MissedLate, OnTime
  <2> QED
    BY <2>2, <2>4, <2>5
<1> QED
  BY <1>1, SignInCorrect, PTL
=============================================================================
