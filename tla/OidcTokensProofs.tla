--------------------------- MODULE OidcTokensProofs ---------------------------
(***************************************************************************)
(* What the bound account keeps, for any number of sign-ins, goroutines,   *)
(* rotations, lost answers and restarts: the refresh token it may keep,    *)
(* and a file that is in step with it.                                     *)
(***************************************************************************)
EXTENDS OidcTokens, TLAPS

----------------------------------------------------------------------------
(* The inductive invariant *)

\* A token was issued under a grant, and is the current one or an earlier one
Issued(t) == t # Empty => grants[t[1]] # "new" /\ t[2] <= current[t[1]]

IssuedInv ==
  /\ Issued(refresh) /\ Issued(stored)
  /\ \A l \in Goroutine : Issued(loop[l].token)
  /\ \A g \in Grant : Issued(login[g].token) /\ (grants[g] = "new" => current[g] = 0)

Busy(l) == loop[l].pc # "idle"

\* A sign-in that has not started its goroutine yet
Pending(g) == login[g].pc \in {"persist", "start"}

\* One goroutine at most works on the tokens, and none before the sign-in is through
SoloInv ==
  /\ \A l \in Goroutine : ~Busy(l) => loop[l] = Idle
  /\ \A k, l \in Goroutine : Busy(k) /\ Busy(l) => k = l
  /\ \A g \in Grant : Pending(g) =>
       /\ ~refreshing
       /\ \A l \in Goroutine : ~Busy(l)
       /\ \A h \in Grant : Pending(h) => h = g

\* Everything in memory is of one grant
AllOf(g) ==
  /\ access \in {Empty, g}
  /\ refresh # Empty => refresh[1] = g
  /\ \A l \in Goroutine : loop[l].token # Empty => loop[l].token[1] = g
  /\ stream.pc # "closed" => stream.grant = g

OneGrant == \E g \in Grant \cup {Empty} : AllOf(g)

\* A stopped agent holds nothing
DownInv ==
  ~up => /\ AtRest /\ access = Empty /\ refresh = Empty /\ ~refreshing /\ exits > 0

\* A refresh token in memory has somebody working on it
WorkInv ==
  /\ refresh # Empty => (\E g \in Grant : Pending(g)) \/ (\E l \in Goroutine : Busy(l))
  /\ refreshing => \E l \in Goroutine : loop[l].pc \notin {"idle", "erase"}

\* What a goroutine or a sign-in has in its hands is what memory holds, if anything
InHands(l) ==
  /\ loop[l].pc \in {"quit", "erase"} => refresh = Empty
  /\ loop[l].pc \in {"sleep", "renewed", "refused", "persist"} /\ refresh # Empty
       => loop[l].token = refresh
  /\ loop[l].pc = "refused" => ~Valid(loop[l].token)

HandsInv ==
  /\ \A l \in Goroutine : InHands(l)
  /\ \A g \in Grant : login[g].pc = "persist" /\ refresh # Empty => login[g].token = refresh
  /\ stream.pc = "erase" => grants[stream.grant] = "ended"

\* Without a lost answer or an exit the token in use is the current one
CurrentAt(l) ==
  /\ loop[l].pc \in {"sleep", "renewed", "rotated"}
       => loop[l].token[2] = current[loop[l].token[1]]
  /\ loop[l].pc = "refused" => grants[loop[l].token[1]] = "ended"

CurrentInv ==
  lost = 0 /\ exits = 0 =>
    /\ \A l \in Goroutine : CurrentAt(l)
    /\ refresh # Empty => \/ refresh[2] = current[refresh[1]]
                          \/ \E l \in Goroutine : loop[l].pc = "rotated"

PatientInv ==
  SoloInv /\ OneGrant /\ DownInv /\ WorkInv /\ HandsInv /\ CurrentInv /\ FileFollows

TokenInv == IssuedInv /\ (patient => PatientInv)

----------------------------------------------------------------------------
(* Type correctness                                                        *)

LoopRecord ==
  [pc : {"idle", "read", "quit", "erase", "persist"}, token : TokenOrNone]
    \cup [pc : {"sleep", "renewed", "rotated", "refused"}, token : Token]

LoginRecord == [pc : {"idle", "persist", "start", "done"}, token : TokenOrNone]

LEMMA TokenFacts ==
  ASSUME TokensAssumption
  PROVE  /\ \A t \in Token : t[1] \in Grant /\ t[2] \in 0 .. MaxRotations /\ t # Empty
         /\ \A g \in Grant, n \in 0 .. MaxRotations :
              <<g, n>> \in Token /\ <<g, n>>[1] = g /\ <<g, n>>[2] = n
         /\ Empty \notin Grant /\ 0 \in 0 .. MaxRotations
         /\ \A g \in Grant : g \in Nat
<1>1. Grant \subseteq Nat /\ 0 .. MaxRotations \subseteq Nat /\ 0 \in 0 .. MaxRotations
  BY DEF TokensAssumption, Grant
<1>2. Token \subseteq Nat \X Nat
  BY <1>1 DEF Token
<1> QED
  BY <1>1, <1>2 DEF TokensAssumption, Token

LEMMA TypeParts ==
  ASSUME TokensTypeOK
  PROVE  /\ loop \in [Goroutine -> LoopRecord] /\ login \in [Grant -> LoginRecord]
         /\ \A l \in Goroutine : loop[l].token \in TokenOrNone
         /\ \A l \in Goroutine : loop[l].pc \in {"sleep", "renewed", "rotated", "refused"}
                                   => loop[l].token \in Token
         /\ \A g \in Grant : login[g].token \in TokenOrNone
<1>1. loop \in [Goroutine -> LoopRecord] /\ login \in [Grant -> LoginRecord]
  BY DEF TokensTypeOK, LoopRecord, LoginRecord
<1>2. \A r \in LoopRecord : /\ r.token \in TokenOrNone
                            /\ r.pc \in {"sleep", "renewed", "rotated", "refused"} => r.token \in Token
  BY DEF LoopRecord, TokenOrNone
<1>3. \A r \in LoginRecord : r.token \in TokenOrNone
  BY DEF LoginRecord
<1> QED
  BY <1>1, <1>2, <1>3

\* A goroutine goes on with a token
LEMMA GoType ==
  ASSUME TokensTypeOK, NEW l \in Goroutine, NEW p, NEW t, Go(l, p, t),
         \/ p \in {"idle", "read", "quit", "erase", "persist"} /\ t \in TokenOrNone
         \/ p \in {"sleep", "renewed", "rotated", "refused"} /\ t \in Token
  PROVE  /\ loop' \in [Goroutine -> LoopRecord]
         /\ loop'[l].pc = p /\ loop'[l].token = t
         /\ \A k \in Goroutine : k # l => loop'[k] = loop[k]
<1>1. loop \in [Goroutine -> LoopRecord]
  BY TypeParts
<1>2. [pc |-> p, token |-> t] \in LoopRecord
  BY DEF LoopRecord
<1> QED
  BY <1>1, <1>2 DEF Go

LEMMA IdleType == Idle \in LoopRecord /\ Idle \in LoginRecord
BY DEF Idle, LoopRecord, LoginRecord, TokenOrNone

\* A goroutine that starts is one that was idle
LEMMA FreeIdle ==
  ASSUME Spare # {}
  PROVE  Free \in Goroutine /\ loop[Free] = Idle
BY DEF Spare, Free

LEMMA SignInType ==
  ASSUME TokensAssumption, TokensTypeOK, NEW g \in Grant,
         SignIn(g) \/ SignInPersist(g) \/ SignInStart(g)
  PROVE  TokensTypeOK'
<1> USE DEF providerVars, tokenVars
<1>0. loop \in [Goroutine -> LoopRecord] /\ login \in [Grant -> LoginRecord]
  BY TypeParts
<1>1. CASE SignIn(g)
  <2>1. <<g, 0>> \in TokenOrNone /\ refresh \in TokenOrNone
    BY TokenFacts DEF TokenOrNone, TokensTypeOK
  <2>2. refresh' \in TokenOrNone
    BY <1>1, <2>1 DEF SignIn
  <2>3. login' \in [Grant -> LoginRecord]
    <3>1. [pc |-> "persist", token |-> refresh'] \in LoginRecord
      BY <2>2 DEF LoginRecord
    <3> QED
      BY <1>0, <1>1, <3>1 DEF SignIn
  <2>4. access' \in Grant \cup {Empty} /\ (fresh' => access' # Empty) /\ fresh' \in BOOLEAN
    BY <1>1, TokenFacts DEF SignIn
  <2>5. grants' \in [Grant -> {"new", "alive", "ended"}]
    BY <1>1 DEF SignIn, TokensTypeOK
  <2> QED
    BY <1>1, <2>2, <2>3, <2>4, <2>5 DEF SignIn, TokensTypeOK, LoginRecord
<1>2. CASE SignInPersist(g)
  <2>1. login' \in [Grant -> LoginRecord]
    <3>1. [pc |-> "start", token |-> Empty] \in LoginRecord
      BY DEF LoginRecord, TokenOrNone
    <3> QED
      BY <1>0, <1>2, <3>1 DEF SignInPersist
  <2>2. stored' \in TokenOrNone
    BY <1>2, TypeParts DEF SignInPersist
  <2> QED
    BY <1>2, <2>1, <2>2 DEF SignInPersist, TokensTypeOK, LoginRecord
<1>3. CASE SignInStart(g)
  <2>1. login' \in [Grant -> LoginRecord]
    <3>1. [login[g] EXCEPT !.pc = "done"] \in LoginRecord
      BY <1>0 DEF LoginRecord
    <3> QED
      BY <1>0, <1>3, <3>1 DEF SignInStart
  <2>2. loop' \in [Goroutine -> LoopRecord] /\ refreshing' \in BOOLEAN
    <3>1. CASE UNCHANGED <<refreshing, loop>>
      BY <1>0, <3>1 DEF TokensTypeOK
    <3>2. CASE /\ refreshing' = TRUE /\ Spare # {}
               /\ loop' = [loop EXCEPT ![Free].pc = "read"]
      <4>1. [loop[Free] EXCEPT !.pc = "read"] \in LoopRecord
        BY <3>2, FreeIdle DEF Idle, LoopRecord, TokenOrNone
      <4> QED
        BY <1>0, <3>2, <4>1
    <3> QED
      BY <1>3, <3>1, <3>2 DEF SignInStart
  <2> QED
    BY <1>3, <2>1, <2>2 DEF SignInStart, TokensTypeOK, LoopRecord, LoginRecord
<1> QED
  BY <1>1, <1>2, <1>3

LEMMA LoopType ==
  ASSUME TokensAssumption, TokensTypeOK, NEW l \in Goroutine, LoopStep(l) \/ Unanswered(l)
  PROVE  TokensTypeOK'
<1> USE DEF providerVars, tokenVars
<1>0. /\ loop \in [Goroutine -> LoopRecord] /\ Empty \in TokenOrNone /\ refresh \in TokenOrNone
      /\ loop[l].token \in TokenOrNone
      /\ loop[l].pc \in {"sleep", "renewed", "rotated", "refused"} => loop[l].token \in Token
      /\ TokenOrNone = Token \cup {Empty} /\ stored \in TokenOrNone
  BY TypeParts DEF TokensTypeOK, TokenOrNone
<1>1. CASE LoopRead(l)
  <2>1. loop' \in [Goroutine -> LoopRecord]
    BY <1>0, <1>1, GoType DEF LoopRead
  <2> QED
    BY <1>1, <2>1 DEF LoopRead, TokensTypeOK, LoopRecord
<1>2. CASE LoopQuit(l)
  <2>1. loop' \in [Goroutine -> LoopRecord]
    BY <1>0, <1>2, IdleType DEF LoopQuit
  <2> QED
    BY <1>2, <2>1 DEF LoopQuit, TokensTypeOK, LoopRecord
<1>3. CASE Renewed(l) \/ Unanswered(l)
  <2> DEFINE t == loop[l].token
  <2>1. t \in Token /\ t[1] \in Grant /\ t[2] \in 0 .. MaxRotations
    BY <1>0, <1>3, TokenFacts DEF Renewed, Unanswered
  <2>2. t[2] < MaxRotations => t[2] + 1 \in 0 .. MaxRotations /\ <<t[1], t[2] + 1>> \in Token
    BY <2>1, TokenFacts DEF TokensAssumption
  <2>3. current' \in [Grant -> 0 .. MaxRotations]
    BY <1>3, <2>1, <2>2 DEF Renewed, Unanswered, TokensTypeOK
  <2>4. loop' \in [Goroutine -> LoopRecord]
    <3>1. CASE Renewed(l)
      BY <1>0, <2>1, <2>2, <3>1, GoType DEF Renewed
    <3>2. CASE Unanswered(l)
      BY <1>0, <3>2, GoType DEF Unanswered
    <3> QED
      BY <1>3, <3>1, <3>2
  <2>5. lost' \in 0 .. MaxLost
    BY <1>3 DEF Renewed, Unanswered, TokensTypeOK, TokensAssumption
  <2> QED
    BY <1>3, <2>3, <2>4, <2>5 DEF Renewed, Unanswered, TokensTypeOK, LoopRecord
<1>4. CASE Accept(l)
  <2>1. refresh' \in TokenOrNone /\ access' \in Grant /\ access' # Empty
    BY <1>0, <1>4, TokenFacts DEF Accept, Accepted
  <2>2. loop' \in [Goroutine -> LoopRecord]
    <3>1. Go(l, "persist", refresh')
      BY <1>4 DEF Accept
    <3> QED
      BY <2>1, <3>1, GoType
  <2> QED
    BY <1>4, <2>1, <2>2 DEF Accept, TokensTypeOK, LoopRecord
<1>5. CASE LoopPersist(l)
  <2>1. loop' \in [Goroutine -> LoopRecord] /\ stored' \in TokenOrNone
    BY <1>0, <1>5, GoType DEF LoopPersist
  <2> QED
    BY <1>5, <2>1 DEF LoopPersist, TokensTypeOK, LoopRecord
<1>6. CASE InvalidGrant(l)
  <2>1. loop' \in [Goroutine -> LoopRecord]
    BY <1>0, <1>6, GoType DEF InvalidGrant
  <2> QED
    BY <1>0, <1>6, <2>1 DEF InvalidGrant, Clear, TokensTypeOK, LoopRecord
<1>7. CASE LoopErase(l)
  <2>1. loop' \in [Goroutine -> LoopRecord]
    BY <1>0, <1>7, IdleType DEF LoopErase
  <2> QED
    BY <1>0, <1>7, <2>1 DEF LoopErase, TokensTypeOK, LoopRecord
<1> QED
  BY <1>1, <1>2, <1>3, <1>4, <1>5, <1>6, <1>7 DEF LoopStep

LEMMA OthersType ==
  ASSUME TokensAssumption, TokensTypeOK,
         \/ \E g \in Grant : GrantEnds(g)
         \/ Expire \/ StreamOpen \/ StreamDrops \/ EndGrant \/ StreamErase \/ Exit \/ Boot
  PROVE  TokensTypeOK'
<1> USE DEF providerVars, tokenVars
<1>0. /\ loop \in [Goroutine -> LoopRecord] /\ login \in [Grant -> LoginRecord]
      /\ Empty \in TokenOrNone /\ TokenOrNone = Token \cup {Empty}
      /\ {refresh, stored} \subseteq TokenOrNone
  BY TypeParts DEF TokensTypeOK, TokenOrNone
<1>1. CASE (\E g \in Grant : GrantEnds(g)) \/ Expire
  <2>1. CASE \E g \in Grant : GrantEnds(g)
    <3>1. grants' \in [Grant -> {"new", "alive", "ended"}]
      BY <2>1 DEF GrantEnds, TokensTypeOK
    <3> QED
      BY <2>1, <3>1 DEF GrantEnds, TokensTypeOK
  <2>2. CASE Expire
    BY <2>2 DEF Expire, TokensTypeOK
  <2> QED
    BY <1>1, <2>1, <2>2
<1>2. CASE StreamOpen \/ StreamDrops \/ EndGrant \/ StreamErase
  <2>1. stream' \in {NoStream} \cup [pc : {"open", "erase"}, grant : Grant]
    <3>1. CASE StreamOpen
      BY <3>1 DEF StreamOpen, TokensTypeOK
    <3>2. CASE StreamDrops \/ StreamErase
      BY <3>2 DEF StreamDrops, StreamErase
    <3>3. CASE EndGrant
      <4>1. stream \in [pc : {"open", "erase"}, grant : Grant]
        BY <3>3 DEF EndGrant, TokensTypeOK, NoStream
      <4> QED
        BY <3>3, <4>1 DEF EndGrant
    <3> QED
      BY <1>2, <3>1, <3>2, <3>3
  <2>2. /\ stored' \in TokenOrNone /\ refresh' \in TokenOrNone
        /\ access' \in Grant \cup {Empty} /\ fresh' \in BOOLEAN /\ refreshing' \in BOOLEAN
        /\ fresh' => access' # Empty
    <3>1. CASE EndGrant
      BY <1>0, <3>1 DEF EndGrant, Clear, TokensTypeOK
    <3>2. CASE StreamOpen \/ StreamDrops \/ StreamErase
      BY <1>0, <3>2 DEF StreamOpen, StreamDrops, StreamErase, TokensTypeOK
    <3> QED
      BY <1>2, <3>1, <3>2
  <2> QED
    BY <1>2, <2>1, <2>2 DEF StreamOpen, StreamDrops, EndGrant, StreamErase, TokensTypeOK
<1>3. CASE Exit
  <2>1. loop' \in [Goroutine -> LoopRecord]
    BY <1>3, IdleType DEF Exit
  <2>2. login' \in [Grant -> LoginRecord]
    <3>1. [pc |-> "done", token |-> Empty] \in LoginRecord
      BY DEF LoginRecord, TokenOrNone
    <3> QED
      BY <1>3, <3>1, IdleType DEF Exit
  <2>3. exits' \in 0 .. MaxExits
    BY <1>3 DEF Exit, TokensTypeOK, TokensAssumption
  <2> QED
    BY <1>0, <1>3, <2>1, <2>2, <2>3 DEF Exit, TokensTypeOK, LoopRecord, LoginRecord
<1>4. CASE Boot
  <2>1. loop' \in [Goroutine -> LoopRecord]
    <3>1. CASE stored = Empty
      BY <1>0, <1>4, <3>1 DEF Boot
    <3>2. CASE stored # Empty
      BY <1>0, <1>4, <3>2, FreeIdle, GoType DEF Boot
    <3> QED
      BY <3>1, <3>2
  <2> QED
    BY <1>0, <1>4, <2>1 DEF Boot, TokensTypeOK, LoopRecord
<1> QED
  BY <1>1, <1>2, <1>3, <1>4

\* The tokens in memory, in the file and in the hands of goroutines keep their types: see TypeOK.
THEOREM TokenTypes == TokensAssumption => (TokensSpec => []TokensTypeOK)
<1>1. ASSUME TokensAssumption, TokensInit PROVE TokensTypeOK
  <2>1. loop \in [Goroutine -> LoopRecord] /\ login \in [Grant -> LoginRecord]
    BY <1>1, IdleType DEF TokensInit
  <2>2. current \in [Grant -> 0 .. MaxRotations] /\ lost \in 0 .. MaxLost /\ exits \in 0 .. MaxExits
    BY <1>1, TokenFacts DEF TokensInit, TokensAssumption
  <2> QED
    BY <1>1, <2>1, <2>2 DEF TokensInit, TokensTypeOK, LoopRecord, LoginRecord, TokenOrNone
<1>2. ASSUME TokensAssumption, TokensTypeOK, [TokensNext]_vars PROVE TokensTypeOK'
  <2>1. CASE UNCHANGED vars
    BY <1>2, <2>1 DEF vars, providerVars, tokenVars, TokensTypeOK
  <2> QED
    BY <1>2, <2>1, SignInType, LoopType, OthersType DEF TokensNext
<1> SUFFICES ASSUME TokensAssumption PROVE TokensSpec => []TokensTypeOK
  OBVIOUS
<1>3. TokensInit => TokensTypeOK
  BY <1>1
<1>4. TokensTypeOK /\ [TokensNext]_vars => TokensTypeOK'
  BY <1>2
<1> QED
  BY <1>3, <1>4, PTL DEF TokensSpec

----------------------------------------------------------------------------
(* What the provider issued                                                *)

\* A grant begins once and ends for good, and its generations only grow
LEMMA ProviderStep ==
  ASSUME TokensAssumption, TokensTypeOK, [TokensNext]_vars
  PROVE  /\ patient' = patient
         /\ \A g \in Grant :
              /\ grants[g] # "new" => grants'[g] # "new"
              /\ grants[g] = "ended" => grants'[g] = "ended"
              /\ grants'[g] = "alive" => grants[g] # "ended"
              /\ current[g] \in Nat /\ current'[g] \in Nat /\ current[g] <= current'[g]
              /\ grants'[g] = "new" => grants[g] = "new"
<1> USE DEF providerVars
<1>0. /\ current \in [Grant -> 0 .. MaxRotations] /\ 0 .. MaxRotations \subseteq Nat
      /\ grants \in [Grant -> {"new", "alive", "ended"}]
  BY DEF TokensTypeOK
<1>1. CASE \E g \in Grant : GrantEnds(g) \/ SignIn(g)
  BY <1>0, <1>1 DEF GrantEnds, SignIn
<1>2. CASE \E l \in Goroutine : Renewed(l) \/ Unanswered(l)
  <2>1. PICK l \in Goroutine : Renewed(l) \/ Unanswered(l)
    BY <1>2
  <2> DEFINE t == loop[l].token
  <2>2. t[1] \in Grant /\ t[2] \in Nat
    BY <1>0, <2>1, TypeParts, TokenFacts DEF Renewed, Unanswered
  <2>3. \/ UNCHANGED current
        \/ current' = [current EXCEPT ![t[1]] = t[2] + 1] /\ current[t[1]] = t[2]
    BY <2>1 DEF Renewed, Unanswered, Valid
  <2>4. UNCHANGED <<patient, grants>>
    BY <2>1 DEF Renewed, Unanswered
  <2> HIDE DEF t
  <2>5. \A g \in Grant : current[g] \in Nat /\ current'[g] \in Nat /\ current[g] <= current'[g]
    BY <1>0, <2>2, <2>3
  <2> QED
    BY <2>4, <2>5
<1>3. CASE UNCHANGED providerVars
  BY <1>0, <1>3
<1> QED
  BY <1>1, <1>2, <1>3
     DEF TokensNext, SignInPersist, SignInStart, LoopStep, LoopRead, LoopQuit, Accept, LoopPersist,
         InvalidGrant, LoopErase, Expire, StreamOpen, StreamDrops, EndGrant, StreamErase, Exit,
         Boot, vars

\* So what was issued stays issued, and what is of no use stays so
LEMMA IssuedStays ==
  ASSUME TokensAssumption, TokensTypeOK, [TokensNext]_vars, NEW t \in TokenOrNone, Issued(t), t # Empty
  PROVE  /\ grants'[t[1]] # "new" /\ t[2] <= current'[t[1]]
         /\ ~Valid(t) => ~(grants'[t[1]] = "alive" /\ current'[t[1]] = t[2])
         /\ t[1] \in Grant /\ t[2] \in Nat
<1>1. t[1] \in Grant /\ t[2] \in Nat
  BY TokenFacts DEF TokenOrNone
<1>2. grants[t[1]] # "new" /\ t[2] <= current[t[1]]
  BY DEF Issued
<1>3. /\ grants'[t[1]] # "new" /\ (grants[t[1]] = "ended" => grants'[t[1]] = "ended")
      /\ current[t[1]] \in Nat /\ current'[t[1]] \in Nat /\ current[t[1]] <= current'[t[1]]
  BY <1>1, <1>2, ProviderStep
<1>4. grants[t[1]] \in {"new", "alive", "ended"}
  BY <1>1 DEF TokensTypeOK
<1> QED
  BY <1>1, <1>2, <1>3, <1>4 DEF Valid

\* The tokens that the agent has somewhere
Known == {refresh, stored} \cup {loop[l].token : l \in Goroutine} \cup {login[g].token : g \in Grant}

LEMMA IssuedStep ==
  ASSUME TokensAssumption, TokensTypeOK, IssuedInv, [TokensNext]_vars
  PROVE  IssuedInv'
<1> USE DEF providerVars, tokenVars
<1> DEFINE Sound(t) == t # Empty => grants'[t[1]] # "new" /\ t[2] <= current'[t[1]]
<1>0. /\ Known \subseteq TokenOrNone
      /\ loop \in [Goroutine -> LoopRecord] /\ login \in [Grant -> LoginRecord]
      /\ grants \in [Grant -> {"new", "alive", "ended"}]
      /\ current \in [Grant -> 0 .. MaxRotations] /\ 0 .. MaxRotations \subseteq Nat
  BY TypeParts DEF Known, TokensTypeOK
<1>1. \A t \in Known : Issued(t)
  BY DEF Known, IssuedInv
<1>2. Sound(Empty) /\ \A t \in Known : Sound(t)
  BY <1>0, <1>1, IssuedStays
<1>3. refresh \in Known /\ stored \in Known /\ (\A l \in Goroutine : loop[l].token \in Known)
      /\ (\A g \in Grant : login[g].token \in Known)
  BY DEF Known
<1> HIDE DEF Known
<1> SUFFICES /\ Sound(refresh') /\ Sound(stored')
             /\ \A l \in Goroutine : Sound(loop'[l].token)
             /\ \A g \in Grant : Sound(login'[g].token) /\ (grants'[g] = "new" => current'[g] = 0)
  BY DEF IssuedInv, Issued
<1> HIDE DEF Sound
<1>4. Idle.token = Empty
  BY DEF Idle
<1>5. CASE \E g \in Grant : SignIn(g) \/ SignInPersist(g) \/ SignInStart(g)
  <2>0. PICK g \in Grant : SignIn(g) \/ SignInPersist(g) \/ SignInStart(g)
    BY <1>5
  <2>1. CASE SignIn(g)
    <3>1. Sound(<<g, 0>>)
      <4>1. grants'[g] = "alive" /\ current'[g] = 0
        BY <1>0, <2>1 DEF SignIn, IssuedInv
      <4> QED
        BY <4>1 DEF Sound
    <3>2. Sound(refresh')
      BY <1>2, <1>3, <2>1, <3>1 DEF SignIn
    <3>3. \A h \in Grant : login'[h].token \in {login[h].token, refresh'}
      BY <1>0, <2>1 DEF SignIn
    <3>4. \A h \in Grant : grants'[h] = "new" => current'[h] = 0
      BY <1>0, <2>1 DEF SignIn, IssuedInv
    <3>5. UNCHANGED <<stored, loop>>
      BY <2>1 DEF SignIn
    <3> QED
      BY <1>2, <1>3, <3>2, <3>3, <3>4, <3>5
  <2>2. CASE SignInPersist(g)
    <3>1. \A h \in Grant : login'[h].token \in {login[h].token, Empty}
      BY <1>0, <2>2 DEF SignInPersist
    <3>2. stored' = login[g].token /\ UNCHANGED <<refresh, loop, grants, current>>
      BY <2>2 DEF SignInPersist
    <3> QED
      BY <1>2, <1>3, <3>1, <3>2 DEF IssuedInv
  <2>3. CASE SignInStart(g)
    <3>1. \A h \in Grant : login'[h].token = login[h].token
      BY <1>0, <2>3 DEF SignInStart, LoginRecord
    <3>2. \A l \in Goroutine : loop'[l].token = loop[l].token
      <4>1. CASE UNCHANGED loop
        BY <4>1
      <4>2. CASE loop' = [loop EXCEPT ![Free].pc = "read"]
        BY <1>0, <4>2 DEF LoopRecord
      <4> QED
        BY <2>3, <4>1, <4>2 DEF SignInStart
    <3>3. UNCHANGED <<stored, refresh, grants, current>>
      BY <2>3 DEF SignInStart
    <3> QED
      BY <1>2, <1>3, <3>1, <3>2, <3>3 DEF IssuedInv
  <2> QED
    BY <2>0, <2>1, <2>2, <2>3
<1>6. CASE \E l \in Goroutine : LoopStep(l) \/ Unanswered(l)
  <2>0. PICK l \in Goroutine : LoopStep(l) \/ Unanswered(l)
    BY <1>6
  <2>1. login' = login /\ refresh' \in {Empty, refresh, loop[l].token}
        /\ stored' \in {Empty, stored, loop[l].token}
    BY <2>0 DEF LoopStep, LoopRead, LoopQuit, Renewed, Accept, Accepted, LoopPersist, InvalidGrant,
                LoopErase, Unanswered, Clear
  <2>2. \A k \in Goroutine : k # l => loop'[k] = loop[k]
    BY <1>0, <2>0 DEF LoopStep, LoopRead, LoopQuit, Renewed, Accept, LoopPersist, InvalidGrant,
                      LoopErase, Unanswered, Go
  <2>3. CASE Renewed(l) \/ Unanswered(l)
    <3> DEFINE t == loop[l].token
    <3>1. t \in Token /\ t[1] \in Grant /\ t[2] \in 0 .. MaxRotations /\ Issued(t)
      BY <1>1, <1>3, <2>3, TypeParts, TokenFacts DEF Renewed, Unanswered
    <3>2. \A g \in Grant : grants'[g] = "new" => current'[g] = 0
      <4>1. grants[t[1]] # "new"
        BY <3>1, TokenFacts DEF Issued
      <4> QED
        BY <1>0, <2>3, <4>1 DEF Renewed, Unanswered, IssuedInv
    <3>3. \/ loop'[l].token \in {Empty, t}
          \/ loop'[l].token = <<t[1], t[2] + 1>> /\ current'[t[1]] = t[2] + 1
      <4>1. CASE Go(l, "read", Empty) \/ Go(l, "renewed", t) \/ Go(l, "refused", t)
        BY <1>0, <4>1 DEF Go
      <4>2. CASE Go(l, "rotated", <<t[1], t[2] + 1>>) /\ current' = [current EXCEPT ![t[1]] = t[2] + 1]
        BY <1>0, <3>1, <4>2 DEF Go
      <4> QED
        BY <2>3, <4>1, <4>2 DEF Renewed, Unanswered
    <3>4. Sound(loop'[l].token)
      <4>1. CASE loop'[l].token \in {Empty, t}
        BY <1>2, <1>3, <4>1
      <4>2. CASE loop'[l].token = <<t[1], t[2] + 1>> /\ current'[t[1]] = t[2] + 1
        <5>1. grants'[t[1]] # "new"
          BY <1>2, <1>3, <3>1, TokenFacts DEF Sound
        <5> QED
          BY <1>0, <3>1, <4>2, <5>1 DEF Sound
      <4> QED
        BY <3>3, <4>1, <4>2
    <3> QED
      BY <1>2, <1>3, <2>1, <2>2, <3>2, <3>4
  <2>4. CASE ~Renewed(l) /\ ~Unanswered(l)
    <3>1. loop'[l].token \in {Empty, refresh, loop[l].token}
      BY <1>0, <1>4, <2>0, <2>4 DEF LoopStep, LoopRead, LoopQuit, Accept, Accepted, LoopPersist,
                                    InvalidGrant, LoopErase, Go
    <3>2. UNCHANGED <<grants, current>>
      BY <2>0, <2>4 DEF LoopStep, LoopRead, LoopQuit, Accept, LoopPersist, InvalidGrant, LoopErase
    <3> QED
      BY <1>2, <1>3, <2>1, <2>2, <3>1, <3>2 DEF IssuedInv
  <2> QED
    BY <2>3, <2>4
<1>7. CASE \/ \E g \in Grant : GrantEnds(g)
           \/ Expire \/ StreamOpen \/ StreamDrops \/ EndGrant \/ StreamErase \/ UNCHANGED vars
  <2>1. UNCHANGED <<loop, login, current>> /\ refresh' \in {refresh, Empty} /\ stored' \in {stored, Empty}
    BY <1>7 DEF GrantEnds, Expire, StreamOpen, StreamDrops, EndGrant, StreamErase, Clear, vars
  <2>2. \A g \in Grant : grants'[g] = "new" => current'[g] = 0
    BY <2>1, ProviderStep DEF IssuedInv
  <2> QED
    BY <1>2, <1>3, <2>1, <2>2
<1>8. CASE Exit \/ Boot
  <2>1. UNCHANGED <<stored, grants, current>> /\ refresh' \in {Empty, stored}
    BY <1>8 DEF Exit, Boot
  <2>2. \A g \in Grant : login'[g].token \in {Empty, login[g].token}
    BY <1>4, <1>8 DEF Exit, Boot
  <2>3. \A l \in Goroutine : loop'[l].token \in {Empty, loop[l].token, stored}
    BY <1>0, <1>4, <1>8 DEF Exit, Boot, Go
  <2> QED
    BY <1>2, <1>3, <2>1, <2>2, <2>3 DEF IssuedInv
<1> QED
  BY <1>5, <1>6, <1>7, <1>8 DEF TokensNext

----------------------------------------------------------------------------
(* The account that signs in again only at rest *)

\* A goroutine at work is alone, and the agent is up
LEMMA LoopAlone ==
  ASSUME PatientInv, NEW l \in Goroutine, Busy(l)
  PROVE  /\ up
         /\ \A k \in Goroutine : k # l => loop[k] = Idle /\ ~Busy(k)
         /\ \A g \in Grant : ~Pending(g)
<1>1. SoloInv /\ DownInv
  BY DEF PatientInv
<1>2. up
  BY <1>1 DEF DownInv, AtRest, Busy, Idle
<1> QED
  BY <1>1, <1>2 DEF SoloInv

\* What is left to show of a goroutine's step is about that goroutine
LEMMA LoopReduce ==
  ASSUME TokensTypeOK, PatientInv, NEW l \in Goroutine, Busy(l),
         UNCHANGED <<up, login, stream, grants, exits>>,
         \A k \in Goroutine : k # l => loop'[k] = loop[k],
         loop'[l].pc = "idle" => loop'[l] = Idle,
         refresh' # Empty => Busy(l)',
         refreshing' => loop'[l].pc \notin {"idle", "erase"},
         access' \in {access, Empty} \/ (loop[l].token # Empty /\ access' = loop[l].token[1]),
         refresh' \in {refresh, Empty, loop[l].token},
         \/ loop'[l].token \in {Empty, refresh, loop[l].token}
         \/ loop[l].token # Empty /\ loop'[l].token[1] = loop[l].token[1],
         InHands(l)', CurrentInv', FileFollows'
  PROVE  PatientInv'
<1>1. /\ up /\ \A k \in Goroutine : k # l => loop[k] = Idle /\ ~Busy(k)
      /\ \A g \in Grant : ~Pending(g)
  BY LoopAlone
<1>2. \A k \in Goroutine : k # l => loop'[k] = Idle /\ ~Busy(k)'
  BY <1>1 DEF Busy
<1>3. \A g \in Grant : ~Pending(g)'
  BY <1>1 DEF Pending
<1>4. SoloInv'
  BY <1>2, <1>3 DEF SoloInv, Busy
<1>5. OneGrant'
  <2>1. PICK g \in Grant \cup {Empty} : AllOf(g)
    BY DEF PatientInv, OneGrant
  <2>2. \A k \in Goroutine : loop'[k].token # Empty => loop'[k].token[1] = g
    BY <1>1, <2>1 DEF AllOf
  <2>3. AllOf(g)'
    BY <2>1, <2>2 DEF AllOf
  <2> QED
    BY <2>3 DEF OneGrant
<1>6. DownInv'
  BY <1>1 DEF DownInv
<1>7. WorkInv'
  BY DEF WorkInv
<1>8. HandsInv'
  <2>1. \A k \in Goroutine : k # l => InHands(k)'
    BY <1>2 DEF InHands, Idle
  <2>2. \A g \in Grant : login'[g].pc # "persist"
    BY <1>3 DEF Pending
  <2>3. stream'.pc = "erase" => grants'[stream'.grant] = "ended"
    BY DEF PatientInv, HandsInv
  <2> QED
    BY <2>1, <2>2, <2>3 DEF HandsInv
<1> QED
  BY <1>4, <1>5, <1>6, <1>7, <1>8 DEF PatientInv

\* What was of no use to the provider is of none after a step
LEMMA UsableBefore ==
  ASSUME TokensAssumption, TokensTypeOK, IssuedInv, [TokensNext]_vars, UNCHANGED refresh, refresh # Empty,
         Valid(refresh)'
  PROVE  Valid(refresh)
<1>1. refresh \in TokenOrNone /\ Issued(refresh)
  BY DEF TokensTypeOK, IssuedInv
<1> QED
  BY <1>1, IssuedStays DEF Valid

LEMMA LoopReadPatient ==
  ASSUME TokensAssumption, TokensTypeOK, IssuedInv, PatientInv, NEW l \in Goroutine, LoopRead(l)
  PROVE  PatientInv'
<1> USE DEF providerVars, tokenVars
<1>0. /\ loop[l].pc = "read" /\ Busy(l) /\ refresh \in TokenOrNone
      /\ \A k \in Goroutine : k # l => loop[k] = Idle
  BY LoopAlone DEF LoopRead, Busy, TokensTypeOK
<1>1. /\ loop'[l].pc = (IF refresh = Empty THEN "quit" ELSE "sleep") /\ loop'[l].token = refresh
      /\ \A k \in Goroutine : k # l => loop'[k] = loop[k]
  BY TypeParts DEF LoopRead, Go
<1>2. UNCHANGED <<patient, up, access, refresh, refreshing, stored, login, stream, grants, current, lost, exits>>
  BY DEF LoopRead
<1>3. InHands(l)'
  BY <1>1, <1>2 DEF InHands
<1>4. CurrentInv'
  <2>1. CurrentInv /\ \A k \in Goroutine : loop[k].pc # "rotated"
    BY <1>0 DEF PatientInv, Idle
  <2>2. lost = 0 /\ exits = 0 /\ refresh # Empty => refresh[2] = current[refresh[1]]
    BY <2>1 DEF CurrentInv
  <2>3. lost = 0 /\ exits = 0 => \A k \in Goroutine : CurrentAt(k)'
    BY <1>0, <1>1, <1>2, <2>2 DEF CurrentAt, Idle
  <2> QED
    BY <1>2, <2>2, <2>3 DEF CurrentInv
<1>5. FileFollows'
  <2>1. \A k \in Goroutine : loop[k].pc \notin {"persist", "erase"}
    BY <1>0 DEF Idle
  <2> QED
    BY <1>2, <2>1 DEF PatientInv, FileFollows, Valid
<1> QED
  BY <1>0, <1>1, <1>2, <1>3, <1>4, <1>5, LoopReduce DEF Busy

LEMMA LoopQuitPatient ==
  ASSUME TokensAssumption, TokensTypeOK, IssuedInv, PatientInv, NEW l \in Goroutine, LoopQuit(l)
  PROVE  PatientInv'
<1> USE DEF providerVars, tokenVars
<1>0. loop[l].pc = "quit" /\ Busy(l) /\ refresh = Empty
  BY DEF LoopQuit, Busy, PatientInv, HandsInv, InHands
<1>1. loop'[l] = Idle /\ \A k \in Goroutine : k # l => loop'[k] = loop[k]
  BY TypeParts DEF LoopQuit
<1>2. UNCHANGED <<patient, up, access, refresh, stored, login, stream, grants, current, lost, exits>> /\ ~refreshing'
  BY DEF LoopQuit
<1>3. InHands(l)'
  BY <1>1 DEF InHands, Idle
<1>4. CurrentInv'
  <2>1. CurrentInv
    BY DEF PatientInv
  <2>2. lost = 0 /\ exits = 0 => \A k \in Goroutine : CurrentAt(k)'
    BY <1>1, <1>2, <2>1 DEF CurrentInv, CurrentAt, Idle
  <2> QED
    BY <1>0, <1>2, <2>2 DEF CurrentInv
<1>5. FileFollows'
  BY <1>0, <1>2 DEF FileFollows
<1>6. loop'[l].token = Empty
  BY <1>1 DEF Idle
<1> QED
  BY <1>0, <1>1, <1>2, <1>3, <1>4, <1>5, <1>6, LoopReduce

LEMMA RenewedPatient ==
  ASSUME TokensAssumption, TokensTypeOK, IssuedInv, PatientInv, NEW l \in Goroutine,
         Renewed(l) \/ Unanswered(l)
  PROVE  PatientInv'
<1> USE DEF providerVars, tokenVars
<1> DEFINE t == loop[l].token
<1>0. /\ loop[l].pc = "sleep" /\ Busy(l) /\ t \in Token /\ t # Empty
      /\ t[1] \in Grant /\ t[2] \in Nat /\ Issued(t)
      /\ grants[t[1]] \in {"new", "alive", "ended"}
  <2>1. loop[l].pc = "sleep" /\ Busy(l)
    BY DEF Renewed, Unanswered, Busy
  <2> QED
    BY <2>1, TypeParts, TokenFacts DEF TokensTypeOK, IssuedInv
<1>1. /\ UNCHANGED <<patient, up, access, refresh, refreshing, stored, login, stream, grants, exits>>
      /\ \A k \in Goroutine : k # l => loop'[k] = loop[k]
  BY TypeParts DEF Renewed, Unanswered, Go
<1>2. \A k \in Goroutine : k # l => loop[k] = Idle
  BY <1>0, LoopAlone
<1>3. \/ loop'[l] = [pc |-> "renewed", token |-> t] /\ current' = current /\ Valid(t) /\ lost' = lost
      \/ /\ loop'[l] = [pc |-> "rotated", token |-> <<t[1], t[2] + 1>>] /\ Valid(t) /\ lost' = lost
         /\ current' = [current EXCEPT ![t[1]] = t[2] + 1]
      \/ loop'[l] = [pc |-> "refused", token |-> t] /\ current' = current /\ ~Valid(t) /\ lost' = lost
      \/ loop'[l] = [pc |-> "read", token |-> Empty] /\ lost' = lost + 1
  BY TypeParts DEF Renewed, Unanswered, Go
<1> HIDE DEF t
<1>4. refresh # Empty => t = refresh
  BY <1>0 DEF PatientInv, HandsInv, InHands, t
<1>5. InHands(l)'
  BY <1>1, <1>3, <1>4 DEF InHands, Valid
<1>6. CurrentInv'
  <2> SUFFICES ASSUME lost' = 0, exits' = 0
               PROVE  /\ \A k \in Goroutine : CurrentAt(k)'
                      /\ refresh' # Empty => \/ refresh'[2] = current'[refresh'[1]]
                                             \/ \E k \in Goroutine : loop'[k].pc = "rotated"
    BY DEF CurrentInv
  <2>1. lost' # lost + 1
    BY DEF TokensTypeOK, TokensAssumption
  <2>2. lost = 0 /\ exits = 0
    BY <1>1, <1>3, <2>1
  <2>3. t[2] = current[t[1]]
    BY <1>0, <2>2 DEF PatientInv, CurrentInv, CurrentAt, t
  <2>4. \A k \in Goroutine : k # l => CurrentAt(k)'
    BY <1>1, <1>2 DEF CurrentAt, Idle
  <2>5. CASE loop'[l] = [pc |-> "renewed", token |-> t] /\ current' = current
    BY <1>1, <1>4, <2>3, <2>4, <2>5 DEF CurrentAt
  <2>6. CASE /\ loop'[l] = [pc |-> "rotated", token |-> <<t[1], t[2] + 1>>]
             /\ current' = [current EXCEPT ![t[1]] = t[2] + 1]
    <3>1. loop'[l].pc = "rotated" /\ loop'[l].token[1] = t[1] /\ loop'[l].token[2] = t[2] + 1
      BY <2>6
    <3>2. current'[t[1]] = t[2] + 1
      BY <1>0, <2>6 DEF TokensTypeOK
    <3> QED
      BY <2>4, <3>1, <3>2 DEF CurrentAt
  <2>7. CASE loop'[l] = [pc |-> "refused", token |-> t] /\ current' = current /\ ~Valid(t)
    <3>1. grants[t[1]] = "ended"
      BY <1>0, <2>3, <2>7 DEF Valid, Issued
    <3> QED
      BY <1>1, <1>4, <2>3, <2>4, <2>7, <3>1 DEF CurrentAt
  <2> QED
    BY <1>3, <2>1, <2>5, <2>6, <2>7
<1>7. FileFollows'
  <2>1. \A k \in Goroutine : loop[k].pc \notin {"persist", "erase"}
    BY <1>0, <1>2 DEF Idle
  <2>2. [TokensNext]_vars
    BY DEF TokensNext, LoopStep
  <2>3. refresh # Empty /\ Valid(refresh)' => Valid(refresh)
    BY <1>1, <2>2, UsableBefore
  <2> QED
    BY <1>1, <2>1, <2>3 DEF PatientInv, FileFollows
<1>8. /\ loop'[l].pc \notin {"idle", "erase"} /\ Busy(l)'
      /\ loop'[l].token \in {Empty, t} \/ loop'[l].token[1] = t[1]
  BY <1>3 DEF Busy
<1> QED
  BY <1>0, <1>1, <1>5, <1>6, <1>7, <1>8, LoopReduce DEF t

LEMMA AcceptPatient ==
  ASSUME TokensAssumption, TokensTypeOK, IssuedInv, PatientInv, NEW l \in Goroutine, Accept(l)
  PROVE  PatientInv'
<1> USE DEF providerVars, tokenVars
<1>0. /\ loop[l].pc \in {"renewed", "rotated"} /\ Busy(l) /\ loop[l].token # Empty
      /\ \A k \in Goroutine : k # l => loop[k] = Idle
  <2>1. loop[l].pc \in {"renewed", "rotated"} /\ Busy(l)
    BY DEF Accept, Busy
  <2> QED
    BY <2>1, TypeParts, TokenFacts, LoopAlone
<1>1. /\ refresh' = IF loop[l].pc = "rotated" THEN loop[l].token ELSE refresh
      /\ access' = loop[l].token[1]
      /\ UNCHANGED <<patient, up, refreshing, stored, login, stream, grants, current, lost, exits>>
  BY DEF Accept, Accepted
<1>2. /\ loop'[l].pc = "persist" /\ loop'[l].token = refresh'
      /\ \A k \in Goroutine : k # l => loop'[k] = loop[k]
  BY TypeParts DEF Accept, Go
<1>3. InHands(l)'
  BY <1>2 DEF InHands
<1>4. CurrentInv'
  <2> SUFFICES ASSUME lost = 0, exits = 0
               PROVE  /\ \A k \in Goroutine : CurrentAt(k)'
                      /\ refresh' # Empty => refresh'[2] = current[refresh'[1]]
    BY <1>1 DEF CurrentInv
  <2>1. CurrentInv /\ CurrentAt(l)
    BY DEF PatientInv, CurrentInv
  <2>2. \A k \in Goroutine : CurrentAt(k)'
    BY <1>0, <1>2 DEF CurrentAt, Idle
  <2>3. CASE loop[l].pc = "rotated"
    BY <1>1, <2>1, <2>2, <2>3 DEF CurrentAt
  <2>4. CASE loop[l].pc # "rotated"
    <3>1. \A k \in Goroutine : loop[k].pc # "rotated"
      BY <1>0, <2>4 DEF Idle
    <3> QED
      BY <1>1, <2>1, <2>2, <2>4, <3>1 DEF CurrentInv
  <2> QED
    BY <2>3, <2>4
<1>5. FileFollows'
  BY <1>2 DEF FileFollows
<1> QED
  BY <1>0, <1>1, <1>2, <1>3, <1>4, <1>5, LoopReduce DEF Busy

LEMMA LoopPersistPatient ==
  ASSUME TokensAssumption, TokensTypeOK, IssuedInv, PatientInv, NEW l \in Goroutine, LoopPersist(l)
  PROVE  PatientInv'
<1> USE DEF providerVars, tokenVars
<1>0. /\ loop[l].pc = "persist" /\ Busy(l)
      /\ \A k \in Goroutine : k # l => loop[k] = Idle
  BY LoopAlone DEF LoopPersist, Busy
<1>1. /\ stored' = loop[l].token
      /\ UNCHANGED <<patient, up, access, refresh, refreshing, login, stream, grants, current, lost, exits>>
  BY DEF LoopPersist
<1>2. /\ loop'[l].pc = "read" /\ loop'[l].token = Empty
      /\ \A k \in Goroutine : k # l => loop'[k] = loop[k]
  BY TypeParts DEF LoopPersist, Go
<1>3. InHands(l)'
  BY <1>2 DEF InHands
<1>4. CurrentInv'
  <2>1. CurrentInv /\ \A k \in Goroutine : loop[k].pc # "rotated"
    BY <1>0 DEF PatientInv, Idle
  <2>2. \A k \in Goroutine : CurrentAt(k)'
    BY <1>0, <1>2 DEF CurrentAt, Idle
  <2> QED
    BY <1>1, <2>1, <2>2 DEF CurrentInv
<1>5. FileFollows'
  <2>1. refresh # Empty => loop[l].token = refresh
    BY <1>0 DEF PatientInv, HandsInv, InHands
  <2> QED
    BY <1>1, <2>1 DEF FileFollows
<1> QED
  BY <1>0, <1>1, <1>2, <1>3, <1>4, <1>5, LoopReduce DEF Busy

LEMMA RefusedPatient ==
  ASSUME TokensAssumption, TokensTypeOK, IssuedInv, PatientInv, NEW l \in Goroutine,
         InvalidGrant(l) \/ LoopErase(l)
  PROVE  PatientInv'
<1> USE DEF providerVars, tokenVars
<1>0. /\ loop[l].pc \in {"refused", "erase"} /\ Busy(l)
      /\ \A k \in Goroutine : k # l => loop[k] = Idle
  BY LoopAlone DEF InvalidGrant, LoopErase, Busy
<1>1. /\ refresh' = Empty /\ access' \in {Empty, access}
      /\ UNCHANGED <<patient, up, login, stream, grants, current, lost, exits>>
  BY DEF InvalidGrant, LoopErase, Clear, PatientInv, HandsInv, InHands
<1>2. /\ loop'[l].pc \in {"erase", "idle"} /\ loop'[l].token = Empty
      /\ loop'[l].pc = "idle" => loop'[l] = Idle
      /\ \A k \in Goroutine : k # l => loop'[k] = loop[k]
  BY TypeParts DEF InvalidGrant, LoopErase, Go, Idle
<1>3. ~refreshing'
  <2>1. CASE InvalidGrant(l)
    BY <2>1 DEF InvalidGrant, Clear
  <2>2. CASE LoopErase(l)
    <3>1. \A k \in Goroutine : loop[k].pc \in {"idle", "erase"}
      BY <1>0, <2>2 DEF LoopErase, Idle
    <3> QED
      BY <2>2, <3>1 DEF LoopErase, PatientInv, WorkInv
  <2> QED
    BY <2>1, <2>2
<1>4. InHands(l)'
  BY <1>1, <1>2 DEF InHands
<1>5. CurrentInv'
  <2>1. \A k \in Goroutine : CurrentAt(k)'
    BY <1>0, <1>2 DEF CurrentAt, Idle
  <2> QED
    BY <1>1, <2>1 DEF CurrentInv
<1>6. FileFollows'
  BY <1>1 DEF FileFollows
<1> QED
  BY <1>0, <1>1, <1>2, <1>3, <1>4, <1>5, <1>6, LoopReduce

LEMMA SignInPatient ==
  ASSUME TokensAssumption, TokensTypeOK, IssuedInv, PatientInv, patient, NEW g \in Grant, SignIn(g)
  PROVE  PatientInv'
<1> USE DEF providerVars, tokenVars
<1>0. /\ AtRest /\ up /\ grants[g] = "new"
      /\ UNCHANGED <<patient, up, refreshing, stored, loop, stream, current, lost, exits>>
      /\ access' = g /\ refresh' \in {<<g, 0>>, refresh}
  BY DEF SignIn
<1>1. /\ \A l \in Goroutine : loop[l] = Idle /\ ~Busy(l) /\ loop[l].token = Empty
      /\ \A h \in Grant : ~Pending(h)
      /\ stream.pc = "closed"
  BY <1>0 DEF AtRest, Busy, Pending, Idle
<1>2. refresh = Empty /\ ~refreshing
  BY <1>1 DEF PatientInv, WorkInv, Idle
<1>3. /\ login'[g] = [pc |-> "persist", token |-> refresh']
      /\ \A h \in Grant : h # g => login'[h] = login[h]
  BY TypeParts DEF SignIn
<1>4. Pending(g)' /\ \A h \in Grant : Pending(h)' => h = g
  BY <1>1, <1>3 DEF Pending
<1>5. SoloInv'
  BY <1>0, <1>1, <1>2, <1>4 DEF SoloInv, Busy
<1>6. OneGrant'
  <2>1. refresh' # Empty => refresh'[1] = g
    BY <1>0, <1>2
  <2>2. AllOf(g)'
    BY <1>0, <1>1, <2>1 DEF AllOf
  <2> QED
    BY <2>2 DEF OneGrant
<1>7. DownInv' /\ WorkInv'
  BY <1>0, <1>2, <1>4 DEF DownInv, WorkInv
<1>8. HandsInv'
  <2>1. \A l \in Goroutine : InHands(l)'
    BY <1>0, <1>1 DEF InHands, Idle
  <2>2. \A h \in Grant : login'[h].pc = "persist" => login'[h].token = refresh'
    BY <1>3, <1>4 DEF Pending
  <2> QED
    BY <1>0, <1>1, <2>1, <2>2 DEF HandsInv
<1>9. CurrentInv'
  <2>1. \A l \in Goroutine : CurrentAt(l)'
    BY <1>0, <1>1 DEF CurrentAt, Idle
  <2>2. refresh' # Empty => refresh'[2] = current[refresh'[1]]
    BY <1>0, <1>2 DEF IssuedInv
  <2> QED
    BY <1>0, <2>1, <2>2 DEF CurrentInv
<1>10. FileFollows'
  BY <1>3 DEF FileFollows
<1> QED
  BY <1>5, <1>6, <1>7, <1>8, <1>9, <1>10 DEF PatientInv

LEMMA SignInPersistPatient ==
  ASSUME TokensAssumption, TokensTypeOK, IssuedInv, PatientInv, NEW g \in Grant, SignInPersist(g)
  PROVE  PatientInv'
<1> USE DEF providerVars, tokenVars
<1>0. /\ login[g].pc = "persist" /\ stored' = login[g].token
      /\ UNCHANGED <<patient, up, access, refresh, refreshing, loop, stream, grants, current, lost, exits>>
  BY DEF SignInPersist
<1>1. /\ login'[g].pc = "start"
      /\ \A h \in Grant : h # g => login'[h] = login[h]
  BY TypeParts DEF SignInPersist
<1>2. up
  BY <1>0 DEF PatientInv, DownInv, AtRest
<1>3. \A h \in Grant : Pending(h)' <=> Pending(h)
  BY <1>0, <1>1 DEF Pending
<1>4. \A h \in Grant : login'[h].pc # "persist"
  BY <1>0, <1>1 DEF PatientInv, SoloInv, Pending
<1>5. SoloInv'
  BY <1>0, <1>3 DEF PatientInv, SoloInv, Busy
<1>6. OneGrant'
  BY <1>0 DEF PatientInv, OneGrant, AllOf
<1>7. DownInv' /\ WorkInv'
  BY <1>0, <1>2, <1>3 DEF DownInv, PatientInv, WorkInv, Busy
<1>8. HandsInv'
  BY <1>0, <1>4 DEF PatientInv, HandsInv, InHands, Valid
<1>9. CurrentInv'
  BY <1>0 DEF PatientInv, CurrentInv, CurrentAt
<1>10. FileFollows'
  BY <1>0 DEF PatientInv, HandsInv, FileFollows
<1> QED
  BY <1>5, <1>6, <1>7, <1>8, <1>9, <1>10 DEF PatientInv

LEMMA SignInStartPatient ==
  ASSUME TokensAssumption, TokensTypeOK, IssuedInv, PatientInv, NEW g \in Grant, SignInStart(g)
  PROVE  PatientInv'
<1> USE DEF providerVars, tokenVars
<1>0. /\ login[g].pc = "start" /\ Pending(g)
      /\ UNCHANGED <<patient, up, access, refresh, stored, stream, grants, current, lost, exits>>
  BY DEF SignInStart, Pending
<1>1. /\ ~refreshing /\ up
      /\ \A l \in Goroutine : loop[l] = Idle /\ ~Busy(l) /\ loop[l].token = Empty
      /\ \A h \in Grant : Pending(h) => h = g
  BY <1>0 DEF PatientInv, SoloInv, DownInv, AtRest, Idle
<1>2. \A h \in Grant : ~Pending(h)' /\ login'[h].pc # "persist"
  <2>1. login'[g].pc = "done" /\ \A h \in Grant : h # g => login'[h] = login[h]
    BY TypeParts DEF SignInStart, LoginRecord
  <2> QED
    BY <1>1, <2>1 DEF Pending
<1>3. /\ \A l \in Goroutine : loop'[l].token = Empty /\ loop'[l].pc \in {"idle", "read"}
      /\ \A l \in Goroutine : loop'[l].pc = "idle" => loop'[l] = Idle
      /\ \A k, l \in Goroutine : loop'[k].pc = "read" /\ loop'[l].pc = "read" => k = l
      /\ refresh # Empty \/ refreshing' => \E l \in Goroutine : loop'[l].pc = "read"
  <2>1. CASE refresh = Empty
    BY <1>1, <2>1 DEF SignInStart, Idle
  <2>2. CASE refresh # Empty
    <3>1. Spare # {} /\ loop' = [loop EXCEPT ![Free].pc = "read"]
      BY <1>1, <2>2 DEF SignInStart
    <3>2. Free \in Goroutine
      BY <3>1, FreeIdle
    <3>3. loop'[Free].pc = "read" /\ loop'[Free].token = Empty
      BY <1>1, <3>1, <3>2, TypeParts DEF Idle
    <3>4. \A l \in Goroutine : l # Free => loop'[l] = Idle
      BY <1>1, <3>1, TypeParts
    <3> QED
      BY <3>2, <3>3, <3>4 DEF Idle
  <2> QED
    BY <2>1, <2>2
<1>4. SoloInv'
  BY <1>2, <1>3 DEF SoloInv, Busy
<1>5. OneGrant'
  <2>1. PICK h \in Grant \cup {Empty} : AllOf(h)
    BY DEF PatientInv, OneGrant
  <2>2. AllOf(h)'
    BY <1>0, <1>3, <2>1 DEF AllOf
  <2> QED
    BY <2>2 DEF OneGrant
<1>6. DownInv' /\ WorkInv'
  BY <1>0, <1>1, <1>3 DEF DownInv, WorkInv, Busy
<1>7. HandsInv'
  BY <1>0, <1>2, <1>3 DEF PatientInv, HandsInv, InHands
<1>8. CurrentInv'
  <2>1. \A l \in Goroutine : CurrentAt(l)'
    BY <1>3 DEF CurrentAt
  <2>2. \A l \in Goroutine : loop[l].pc # "rotated"
    BY <1>1 DEF Idle
  <2> QED
    BY <1>0, <2>1, <2>2 DEF PatientInv, CurrentInv
<1>9. FileFollows'
  <2>1. \A l \in Goroutine : loop[l].pc \notin {"persist", "erase"}
    BY <1>1 DEF Idle
  <2>2. \A h \in Grant : login[h].pc # "persist"
    BY <1>0, <1>1 DEF Pending
  <2> QED
    BY <1>0, <2>1, <2>2 DEF PatientInv, FileFollows, Valid
<1> QED
  BY <1>4, <1>5, <1>6, <1>7, <1>8, <1>9 DEF PatientInv

LEMMA StreamPatient ==
  ASSUME TokensAssumption, TokensTypeOK, IssuedInv, PatientInv,
         StreamOpen \/ StreamDrops \/ EndGrant \/ StreamErase
  PROVE  PatientInv'
<1> USE DEF providerVars, tokenVars
<1>0. /\ UNCHANGED <<patient, up, loop, login, grants, current, lost, exits>>
      /\ access' \in {access, Empty} /\ refresh' \in {refresh, Empty}
      /\ (refreshing' = refreshing) \/ ~refreshing'
      /\ EndGrant \/ UNCHANGED <<access, refresh, refreshing>>
  BY DEF StreamOpen, StreamDrops, EndGrant, StreamErase, Clear
<1>1. up
  BY DEF StreamOpen, StreamDrops, EndGrant, StreamErase, PatientInv, DownInv, AtRest
<1>2. SoloInv'
  BY <1>0 DEF PatientInv, SoloInv, Busy, Pending
<1>3. OneGrant'
  <2>1. PICK g \in Grant \cup {Empty} : AllOf(g)
    BY DEF PatientInv, OneGrant
  <2>2. stream'.pc # "closed" => stream'.grant = g
    <3>1. CASE StreamOpen
      <4>1. access # Empty /\ stream'.grant = access
        BY <3>1 DEF StreamOpen, TokensTypeOK
      <4> QED
        BY <2>1, <4>1 DEF AllOf
    <3>2. CASE StreamDrops \/ StreamErase
      BY <3>2 DEF StreamDrops, StreamErase, NoStream
    <3>3. CASE EndGrant
      <4>1. stream \in [pc : {"open", "erase"}, grant : Grant]
        BY <3>3 DEF EndGrant, TokensTypeOK, NoStream
      <4> QED
        BY <2>1, <3>3, <4>1 DEF EndGrant, AllOf
    <3> QED
      BY <3>1, <3>2, <3>3
  <2>3. AllOf(g)'
    BY <1>0, <2>1, <2>2 DEF AllOf
  <2> QED
    BY <2>3 DEF OneGrant
<1>4. DownInv' /\ WorkInv'
  BY <1>0, <1>1 DEF DownInv, PatientInv, WorkInv, Busy, Pending
<1>5. HandsInv'
  <2>1. \A l \in Goroutine : InHands(l)'
    BY <1>0 DEF PatientInv, HandsInv, InHands, Valid
  <2>2. \A g \in Grant : login'[g].pc = "persist" /\ refresh' # Empty => login'[g].token = refresh'
    BY <1>0 DEF PatientInv, HandsInv
  <2>3. stream'.pc = "erase" => grants'[stream'.grant] = "ended"
    <3>1. CASE StreamOpen
      BY <3>1 DEF StreamOpen
    <3>2. CASE StreamDrops \/ StreamErase
      BY <3>2 DEF StreamDrops, StreamErase, NoStream
    <3>3. CASE EndGrant
      <4>1. stream \in [pc : {"open", "erase"}, grant : Grant]
        BY <3>3 DEF EndGrant, TokensTypeOK, NoStream
      <4> QED
        BY <3>3, <4>1 DEF EndGrant
    <3> QED
      BY <3>1, <3>2, <3>3
  <2> QED
    BY <2>1, <2>2, <2>3 DEF HandsInv
<1>6. CurrentInv'
  BY <1>0 DEF PatientInv, CurrentInv, CurrentAt
<1>7. FileFollows'
  <2>1. CASE EndGrant
    BY <2>1 DEF EndGrant, Clear, FileFollows
  <2>2. CASE StreamErase
    <3>1. PICK g \in Grant \cup {Empty} : AllOf(g)
      BY DEF PatientInv, OneGrant
    <3>2. stream.grant = g /\ grants[g] = "ended"
      BY <2>2, <3>1 DEF StreamErase, AllOf, PatientInv, HandsInv
    <3>3. refresh # Empty => ~Valid(refresh)
      BY <3>1, <3>2 DEF AllOf, Valid
    <3> QED
      BY <1>0, <2>2, <3>3 DEF StreamErase, FileFollows, Valid
  <2>3. CASE StreamOpen \/ StreamDrops
    <3>1. stream.pc # "erase" /\ UNCHANGED <<stored, refresh>>
      BY <2>3 DEF StreamOpen, StreamDrops
    <3> QED
      BY <1>0, <3>1 DEF PatientInv, FileFollows, Valid
  <2> QED
    BY <2>1, <2>2, <2>3
<1> QED
  BY <1>2, <1>3, <1>4, <1>5, <1>6, <1>7 DEF PatientInv

LEMMA ProviderPatient ==
  ASSUME TokensAssumption, TokensTypeOK, IssuedInv, PatientInv,
         Expire \/ (\E g \in Grant : GrantEnds(g)) \/ UNCHANGED vars
  PROVE  PatientInv'
<1> USE DEF providerVars, tokenVars
<1>0. UNCHANGED <<patient, up, access, refresh, refreshing, stored, loop, login, stream, current,
                  lost, exits>>
  BY DEF Expire, GrantEnds, vars
<1>1. [TokensNext]_vars
  BY DEF TokensNext
<1>2. /\ \A g \in Grant : grants[g] = "ended" => grants'[g] = "ended"
      /\ \A l \in Goroutine : loop[l].pc = "refused" =>
           loop[l].token[1] \in Grant /\ (~Valid(loop[l].token) => ~Valid(loop[l].token)')
      /\ stream.pc = "erase" => stream.grant \in Grant
  <2>1. \A l \in Goroutine : loop[l].pc = "refused" =>
          /\ loop[l].token \in TokenOrNone /\ loop[l].token # Empty /\ Issued(loop[l].token)
    BY TypeParts, TokenFacts DEF IssuedInv
  <2>2. \A l \in Goroutine : loop[l].pc = "refused" =>
          loop[l].token[1] \in Grant /\ (~Valid(loop[l].token) => ~Valid(loop[l].token)')
    BY <1>0, <1>1, <2>1, IssuedStays DEF Valid
  <2>3. stream.pc = "erase" => stream.grant \in Grant
    BY DEF TokensTypeOK, NoStream
  <2> QED
    BY <1>1, <2>2, <2>3, ProviderStep
<1>3. SoloInv' /\ DownInv' /\ WorkInv'
  BY <1>0 DEF PatientInv, SoloInv, DownInv, WorkInv, Busy, Pending, AtRest
<1>4. OneGrant'
  BY <1>0 DEF PatientInv, OneGrant, AllOf
<1>5. HandsInv'
  <2>1. HandsInv
    BY DEF PatientInv
  <2>2. \A l \in Goroutine : InHands(l)'
    BY <1>0, <1>2, <2>1 DEF HandsInv, InHands
  <2> QED
    BY <1>0, <1>2, <2>1, <2>2 DEF HandsInv
<1>6. CurrentInv'
  <2>1. CurrentInv
    BY DEF PatientInv
  <2>2. lost = 0 /\ exits = 0 => \A l \in Goroutine : CurrentAt(l)'
    BY <1>0, <1>2, <2>1 DEF CurrentInv, CurrentAt
  <2> QED
    BY <1>0, <2>1, <2>2 DEF CurrentInv
<1>7. FileFollows'
  <2>1. refresh # Empty /\ Valid(refresh)' => Valid(refresh)
    BY <1>0, <1>1, UsableBefore
  <2> QED
    BY <1>0, <2>1 DEF PatientInv, FileFollows
<1> QED
  BY <1>3, <1>4, <1>5, <1>6, <1>7 DEF PatientInv

LEMMA ExitPatient ==
  ASSUME TokensAssumption, TokensTypeOK, Exit
  PROVE  PatientInv'
<1> USE DEF providerVars, tokenVars
<1>1. /\ ~up' /\ access' = Empty /\ refresh' = Empty /\ ~refreshing'
      /\ stream'.pc = "closed" /\ exits' > 0
  BY DEF Exit, NoStream, TokensTypeOK, TokensAssumption
<1>2. \A l \in Goroutine : loop'[l] = Idle /\ loop'[l].pc = "idle" /\ loop'[l].token = Empty
  BY DEF Exit, Idle
<1>3. \A g \in Grant : login'[g].pc \in {"idle", "done"}
  BY DEF Exit, Idle
<1>4. SoloInv' /\ WorkInv'
  BY <1>1, <1>2, <1>3 DEF SoloInv, WorkInv, Busy, Pending
<1>5. OneGrant'
  <2>1. AllOf(Empty)'
    BY <1>1, <1>2 DEF AllOf
  <2> QED
    BY <2>1 DEF OneGrant
<1>6. DownInv'
  BY <1>1, <1>2, <1>3 DEF DownInv, AtRest
<1>7. HandsInv' /\ CurrentInv' /\ FileFollows'
  BY <1>1, <1>2, <1>3 DEF HandsInv, InHands, CurrentInv, FileFollows
<1> QED
  BY <1>4, <1>5, <1>6, <1>7 DEF PatientInv

LEMMA BootPatient ==
  ASSUME TokensAssumption, TokensTypeOK, IssuedInv, PatientInv, Boot
  PROVE  PatientInv'
<1> USE DEF providerVars, tokenVars
<1>0. /\ up' /\ refresh' = stored /\ (refreshing' <=> stored # Empty)
      /\ UNCHANGED <<patient, access, stored, login, stream, grants, current, lost, exits>>
  BY DEF Boot
<1>1. /\ access = Empty /\ refresh = Empty /\ exits > 0 /\ stream.pc = "closed"
      /\ \A l \in Goroutine : loop[l] = Idle /\ loop[l].token = Empty /\ loop[l].pc = "idle"
      /\ \A g \in Grant : login[g].pc \in {"idle", "done"}
  BY DEF Boot, PatientInv, DownInv, AtRest, Idle
<1>2. /\ \A l \in Goroutine : \/ loop'[l] = Idle
                              \/ /\ loop'[l] = [pc |-> "sleep", token |-> stored]
                                 /\ stored # Empty /\ l = Free
      /\ stored # Empty => \E l \in Goroutine : loop'[l] = [pc |-> "sleep", token |-> stored]
  <2>1. CASE stored = Empty
    BY <1>1, <2>1 DEF Boot
  <2>2. CASE stored # Empty
    <3>1. Free \in Goroutine /\ loop' = [loop EXCEPT ![Free] = [pc |-> "sleep", token |-> stored]]
      BY <2>2, FreeIdle DEF Boot, Go
    <3>2. loop'[Free] = [pc |-> "sleep", token |-> stored]
      BY <3>1, TypeParts
    <3>3. \A l \in Goroutine : l # Free => loop'[l] = Idle
      BY <1>1, <3>1, TypeParts
    <3> QED
      BY <2>2, <3>1, <3>2, <3>3
  <2> QED
    BY <2>1, <2>2
<1>3. \A l \in Goroutine :
        /\ loop'[l].pc \in {"idle", "sleep"} /\ loop'[l].token \in {Empty, stored}
        /\ loop'[l].pc = "idle" => loop'[l] = Idle
        /\ loop'[l].pc = "sleep" => l = Free /\ loop'[l].token = stored
  BY <1>2 DEF Idle
<1>4. stored # Empty => \E l \in Goroutine : loop'[l].pc = "sleep"
  BY <1>2
<1>5. SoloInv' /\ DownInv' /\ WorkInv'
  BY <1>0, <1>1, <1>3, <1>4 DEF SoloInv, DownInv, WorkInv, Busy, Pending
<1>6. OneGrant'
  <2>1. CASE stored = Empty
    <3>1. AllOf(Empty)'
      BY <1>0, <1>1, <1>3, <2>1 DEF AllOf
    <3> QED
      BY <3>1 DEF OneGrant
  <2>2. CASE stored # Empty
    <3>1. PICK g \in Grant : g = stored[1]
      BY <2>2, TokenFacts DEF TokensTypeOK, TokenOrNone
    <3>2. AllOf(g)'
      BY <1>0, <1>1, <1>3, <3>1 DEF AllOf
    <3> QED
      BY <3>1, <3>2 DEF OneGrant
  <2> QED
    BY <2>1, <2>2
<1>7. HandsInv'
  BY <1>0, <1>1, <1>3 DEF HandsInv, InHands
<1>8. CurrentInv' /\ FileFollows'
  BY <1>0, <1>1 DEF CurrentInv, FileFollows
<1> QED
  BY <1>5, <1>6, <1>7, <1>8 DEF PatientInv

\* The inductive invariant: see TokenInv.
THEOREM TokensAgree == TokensAssumption => (TokensSpec => []TokenInv)
<1>1. ASSUME TokensAssumption, TokensInit PROVE TokenInv
  <2>1. /\ \A l \in Goroutine : loop[l] = Idle /\ loop[l].token = Empty /\ loop[l].pc = "idle"
        /\ \A g \in Grant : login[g].token = Empty /\ login[g].pc = "idle"
        /\ refresh = Empty /\ stored = Empty /\ access = Empty /\ stream.pc = "closed" /\ up /\ ~refreshing
    BY <1>1 DEF TokensInit, Idle, NoStream
  <2>2. IssuedInv
    BY <1>1, <2>1 DEF TokensInit, IssuedInv, Issued
  <2>3. SoloInv /\ DownInv /\ WorkInv
    BY <2>1 DEF SoloInv, DownInv, WorkInv, Busy, Pending
  <2>4. OneGrant
    <3>1. AllOf(Empty)
      BY <2>1 DEF AllOf
    <3> QED
      BY <3>1 DEF OneGrant
  <2>5. HandsInv /\ CurrentInv /\ FileFollows
    BY <2>1 DEF HandsInv, InHands, CurrentInv, CurrentAt, FileFollows
  <2> QED
    BY <2>2, <2>3, <2>4, <2>5 DEF TokenInv, PatientInv
<1>2. ASSUME TokensAssumption, TokensTypeOK, TokenInv, [TokensNext]_vars PROVE TokenInv'
  <2>1. IssuedInv'
    BY <1>2, IssuedStep DEF TokenInv
  <2>2. ASSUME patient' PROVE PatientInv'
    <3>1. patient /\ PatientInv /\ IssuedInv
      BY <1>2, <2>2, ProviderStep DEF TokenInv
    <3>2. CASE \E g \in Grant : SignIn(g) \/ SignInPersist(g) \/ SignInStart(g)
      BY <1>2, <3>1, <3>2, SignInPatient, SignInPersistPatient, SignInStartPatient
    <3>3. CASE \E l \in Goroutine : LoopStep(l) \/ Unanswered(l)
      BY <1>2, <3>1, <3>3, LoopReadPatient, LoopQuitPatient, RenewedPatient, AcceptPatient,
         LoopPersistPatient, RefusedPatient DEF LoopStep
    <3>4. CASE StreamOpen \/ StreamDrops \/ EndGrant \/ StreamErase
      BY <1>2, <3>1, <3>4, StreamPatient
    <3>5. CASE Expire \/ (\E g \in Grant : GrantEnds(g)) \/ UNCHANGED vars
      BY <1>2, <3>1, <3>5, ProviderPatient
    <3>6. CASE Exit \/ Boot
      BY <1>2, <3>1, <3>6, ExitPatient, BootPatient
    <3> QED
      BY <1>2, <3>2, <3>3, <3>4, <3>5, <3>6 DEF TokensNext
  <2> QED
    BY <2>1, <2>2 DEF TokenInv
<1> SUFFICES ASSUME TokensAssumption PROVE TokensSpec => []TokenInv
  OBVIOUS
<1>3. TokensInit => TokenInv
  BY <1>1
<1>4. TokensTypeOK /\ TokenInv /\ [TokensNext]_vars => TokenInv'
  BY <1>2
<1>5. TokensSpec => []TokensTypeOK
  BY TokenTypes
<1> QED
  BY <1>3, <1>4, <1>5, PTL DEF TokensSpec

\* The tokens are well formed, and once no write of the file is under way it holds the refresh
\* token in memory, so that a restart resumes it: see TokensInStep.
THEOREM TokensStayInStep == TokensAssumption => (TokensSpec => []TokensInStep)
<1> SUFFICES ASSUME TokensAssumption PROVE TokensSpec => []TokensInStep
  OBVIOUS
<1>1. TokensTypeOK /\ TokenInv => TokensInStep
  BY DEF TokenInv, PatientInv, TokensInStep, FileFollows
<1>2. (TokensSpec => []TokensTypeOK) /\ (TokensSpec => []TokenInv)
  BY TokenTypes, TokensAgree
<1> QED
  BY <1>1, <1>2, PTL

\* A refresh token is let go of only for a newer one or once it is of no use to the provider,
\* and without lost answers and exits only because its grant ended: see GrantKept.
THEOREM GrantStaysKept == TokensAssumption => (TokensSpec => GrantKept)
<1> SUFFICES ASSUME TokensAssumption PROVE TokensSpec => GrantKept
  OBVIOUS
<1> DEFINE Parting ==
      patient /\ LetsGo =>
        /\ ~Valid(refresh)
        /\ (lost = 0 /\ exits = 0) => grants[refresh[1]] = "ended"
<1>1. ASSUME TokensTypeOK, TokenInv, [TokensNext]_vars PROVE [Parting]_vars
  <2> SUFFICES ASSUME patient, LetsGo
               PROVE  /\ ~Valid(refresh)
                      /\ (lost = 0 /\ exits = 0) => grants[refresh[1]] = "ended"
    OBVIOUS
  <2>1. PatientInv /\ refresh # Empty /\ refresh' = Empty /\ up /\ up'
    BY <1>1 DEF TokenInv, LetsGo
  <2>2. CASE \E l \in Goroutine : InvalidGrant(l)
    <3>1. PICK l \in Goroutine : loop[l].pc = "refused"
      BY <2>2 DEF InvalidGrant
    <3>2. loop[l].token = refresh /\ ~Valid(refresh)
      BY <2>1, <3>1 DEF PatientInv, HandsInv, InHands
    <3>3. lost = 0 /\ exits = 0 => grants[refresh[1]] = "ended"
      BY <2>1, <3>1, <3>2 DEF PatientInv, CurrentInv, CurrentAt
    <3> QED
      BY <3>2, <3>3
  <2>3. CASE EndGrant
    <3>1. PICK g \in Grant \cup {Empty} : AllOf(g)
      BY <2>1 DEF PatientInv, OneGrant
    <3>2. grants[g] = "ended" /\ refresh[1] = g
      BY <2>1, <2>3, <3>1 DEF EndGrant, AllOf
    <3> QED
      BY <3>2 DEF Valid
  <2>4. CASE \E l \in Goroutine : Accept(l)
    <3>1. PICK l \in Goroutine : Accept(l)
      BY <2>4
    <3>2. loop[l].token # Empty /\ refresh' \in {refresh, loop[l].token}
      BY <1>1, <3>1, TypeParts, TokenFacts DEF Accept, Accepted
    <3> QED
      BY <2>1, <3>2
  <2>5. CASE \E g \in Grant : SignIn(g)
    <3>1. PICK g \in Grant : refresh' \in {<<g, 0>>, refresh}
      BY <2>5 DEF SignIn
    <3>2. <<g, 0>> # Empty
      BY TokenFacts
    <3> QED
      BY <2>1, <3>1, <3>2
  <2> QED
    BY <1>1, <2>1, <2>2, <2>3, <2>4, <2>5
       DEF TokensNext, vars, providerVars, tokenVars, GrantEnds, SignInPersist, SignInStart, LoopStep,
           LoopRead, LoopQuit, Renewed, LoopPersist, LoopErase, Unanswered, Expire, StreamOpen,
           StreamDrops, StreamErase, Exit, Boot
<1>2. (TokensSpec => []TokensTypeOK) /\ (TokensSpec => []TokenInv)
  BY TokenTypes, TokensAgree
<1> QED
  BY <1>1, <1>2, PTL DEF TokensSpec, GrantKept, Parting
=============================================================================
