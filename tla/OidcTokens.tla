------------------------------ MODULE OidcTokens ------------------------------
(***************************************************************************)
(* The bound account's tokens (internal/oidc/tokens.go): sign-ins store    *)
(* them, refresh goroutines renew them, the hub stream's session-          *)
(* terminated ends them, and a restart resumes the one kept on disk.       *)
(*                                                                         *)
(* A step is one section under t.mu, one write of the refresh token file   *)
(* (persist runs after the lock is given back), or one answer of the       *)
(* identity provider.  The provider is external: it knows which refresh    *)
(* token of a grant is the current one, may rotate it, and may end a grant.*)
(* Resource tokens and their cache are left out.                           *)
(***************************************************************************)
EXTENDS Naturals

CONSTANTS
  Logins,           \* bound: sign-ins; each is a grant of the provider
  Goroutine,        \* bound: refresh goroutines at a time
  Empty,            \* the empty token
  MaxRotations,     \* bound: rotations of a grant's refresh token
  MaxLost,          \* bound: requests or answers lost on the way
  MaxExits          \* bound: process exits

\* A run's module assumes it, a theorem has it as its hypothesis
TokensAssumption ==
  /\ {Logins, MaxRotations, MaxLost, MaxExits} \subseteq Nat
  /\ Empty \notin Nat \cup (Nat \X Nat)

Grant == 1 .. Logins
Token == Grant \X (0 .. MaxRotations)
TokenOrNone == Token \cup {Empty}

VARIABLES
  patient,          \* environment: the account signs in again only once nothing
                    \* works on an older grant; chosen at the start
  grants,           \* provider: each grant is new, alive or ended
  current,          \* provider: the generation of its valid refresh token
  up,               \* the agent runs
  access,           \* accessToken: the grant it was issued under
  fresh,            \* ... and its expiry has not passed
  refresh,          \* refreshToken
  stored,           \* the refresh token file
  refreshing,       \* t.refreshing
  loop,             \* per refresh goroutine: pc and the token in its hands
  login,            \* per sign-in: where its set() is, and the token it persists
  stream,           \* the hub stream: pc and the grant it was opened under
  lost, exits

providerVars == <<patient, grants, current>>
tokenVars == <<access, fresh, refresh>>
vars == <<providerVars, up, tokenVars, stored, refreshing, loop, login, stream,
          lost, exits>>

Valid(t) == grants[t[1]] = "alive" /\ current[t[1]] = t[2]

Idle == [pc |-> "idle", token |-> Empty]
NoStream == [pc |-> "closed", grant |-> Empty]
Spare == {l \in Goroutine : loop[l] = Idle}
Free == CHOOSE l \in Spare : TRUE

TokensInit ==
  /\ patient \in BOOLEAN
  /\ grants = [g \in Grant |-> "new"]
  /\ current = [g \in Grant |-> 0]
  /\ up = TRUE
  /\ access = Empty /\ fresh = FALSE /\ refresh = Empty
  /\ stored = Empty
  /\ refreshing = FALSE
  /\ loop = [l \in Goroutine |-> Idle]
  /\ login = [g \in Grant |-> Idle]
  /\ stream = NoStream
  /\ lost = 0 /\ exits = 0

----------------------------------------------------------------------------
(* The identity provider and the clock *)

GrantEnds(g) ==
  /\ grants[g] = "alive"
  /\ grants' = [grants EXCEPT ![g] = "ended"]
  /\ UNCHANGED <<patient, current, up, tokenVars, stored, refreshing, loop, login, stream,
                 lost, exits>>

Expire ==
  /\ fresh
  /\ fresh' = FALSE
  /\ UNCHANGED <<providerVars, up, access, refresh, stored, refreshing, loop,
                 login, stream, lost, exits>>

----------------------------------------------------------------------------
(* set: a completed sign-in *)

AtRest == /\ \A l \in Goroutine : loop[l] = Idle
          /\ \A g \in Grant : login[g].pc \in {"idle", "done"}
          /\ stream.pc = "closed"

\* The answer may carry no refresh token: the one held before stays
SignIn(g) ==
  /\ up
  /\ grants[g] = "new" /\ \A h \in 1 .. g - 1 : grants[h] # "new"
  /\ patient => AtRest
  /\ grants' = [grants EXCEPT ![g] = "alive"]
  /\ access' = g /\ fresh' = TRUE
  /\ refresh' \in {<<g, 0>>, refresh}
  /\ login' = [login EXCEPT ![g] = [pc |-> "persist", token |-> refresh']]
  /\ UNCHANGED <<patient, current, up, stored, refreshing, loop, stream, lost, exits>>

SignInPersist(g) ==
  /\ login[g].pc = "persist"
  /\ stored' = login[g].token
  /\ login' = [login EXCEPT ![g] = [pc |-> "start", token |-> Empty]]
  /\ UNCHANGED <<providerVars, up, tokenVars, refreshing, loop, stream, lost, exits>>

\* startRefreshLoop
SignInStart(g) ==
  /\ login[g].pc = "start"
  /\ login' = [login EXCEPT ![g].pc = "done"]
  /\ IF refreshing \/ refresh = Empty
     THEN UNCHANGED <<refreshing, loop>>
     ELSE /\ refreshing' = TRUE
          /\ Spare # {}
          /\ loop' = [loop EXCEPT ![Free].pc = "read"]
  /\ UNCHANGED <<providerVars, up, tokenVars, stored, stream, lost, exits>>

----------------------------------------------------------------------------
(* loop and refreshOnce *)

Go(l, pc, token) == loop' = [loop EXCEPT ![l] = [pc |-> pc, token |-> token]]

LoopRead(l) ==
  /\ loop[l].pc = "read"
  /\ Go(l, IF refresh = Empty THEN "quit" ELSE "sleep", refresh)
  /\ UNCHANGED <<providerVars, up, tokenVars, stored, refreshing, login, stream,
                 lost, exits>>

LoopQuit(l) ==
  /\ loop[l].pc = "quit"
  /\ refreshing' = FALSE
  /\ loop' = [loop EXCEPT ![l] = Idle]
  /\ UNCHANGED <<providerVars, up, tokenVars, stored, login, stream, lost, exits>>

\* The wait is over and the provider answers the token in hand
Renewed(l) ==
  /\ loop[l].pc = "sleep"
  /\ LET t == loop[l].token IN
       \/ /\ Valid(t)
          /\ Go(l, "renewed", t)
          /\ UNCHANGED current
       \/ /\ Valid(t) /\ t[2] < MaxRotations
          /\ Go(l, "rotated", <<t[1], t[2] + 1>>)
          /\ current' = [current EXCEPT ![t[1]] = t[2] + 1]
       \/ /\ ~Valid(t)
          /\ Go(l, "refused", t)
          /\ UNCHANGED current
  /\ UNCHANGED <<patient, grants, up, tokenVars, stored, refreshing, login, stream, lost,
                 exits>>

\* Slip: an unanswered request ends the goroutine
UnansweredEnds(l) ==
  /\ loop[l].pc = "sleep"
  /\ lost < MaxLost
  /\ lost' = lost + 1
  /\ loop' = [loop EXCEPT ![l] = Idle]
  /\ UNCHANGED <<providerVars, up, tokenVars, stored, refreshing, login, stream, exits>>

\* The request or its answer is lost: retry after a while
Unanswered(l) ==
  /\ loop[l].pc = "sleep"
  /\ lost < MaxLost
  /\ lost' = lost + 1
  /\ LET t == loop[l].token IN
       \/ UNCHANGED current
       \/ /\ Valid(t) /\ t[2] < MaxRotations
          /\ current' = [current EXCEPT ![t[1]] = t[2] + 1]
  /\ Go(l, "read", Empty)
  /\ UNCHANGED <<patient, grants, up, tokenVars, stored, refreshing, login, stream, exits>>

\* Slip: the rotated refresh token is dropped
AcceptedHeld(l) == refresh

\* "if answer.RefreshToken != """
Accepted(l) == IF loop[l].pc = "rotated" THEN loop[l].token ELSE refresh

Accept(l) ==
  /\ loop[l].pc \in {"renewed", "rotated"}
  /\ access' = loop[l].token[1] /\ fresh' = TRUE
  /\ refresh' = Accepted(l)
  /\ Go(l, "persist", refresh')
  /\ UNCHANGED <<providerVars, up, stored, refreshing, login, stream, lost, exits>>

\* Slip: the rotated token never reaches the file
LoopForgets(l) ==
  /\ loop[l].pc = "persist"
  /\ Go(l, "read", Empty)
  /\ UNCHANGED <<providerVars, up, tokenVars, stored, refreshing, login, stream,
                 lost, exits>>

LoopPersist(l) ==
  /\ loop[l].pc = "persist"
  /\ stored' = loop[l].token
  /\ Go(l, "read", Empty)
  /\ UNCHANGED <<providerVars, up, tokenVars, refreshing, login, stream, lost, exits>>

\* Slip: the refresh token survives
ClearAccess ==
  /\ access' = Empty /\ fresh' = FALSE /\ refresh' = refresh
  /\ refreshing' = FALSE

\* clear, up to its persist
Clear ==
  /\ access' = Empty /\ fresh' = FALSE /\ refresh' = Empty
  /\ refreshing' = FALSE

InvalidGrant(l) ==
  /\ loop[l].pc = "refused"
  /\ Clear
  /\ Go(l, "erase", Empty)
  /\ UNCHANGED <<providerVars, up, stored, login, stream, lost, exits>>

LoopErase(l) ==
  /\ loop[l].pc = "erase"
  /\ stored' = Empty
  /\ loop' = [loop EXCEPT ![l] = Idle]
  /\ UNCHANGED <<providerVars, up, tokenVars, refreshing, login, stream, lost, exits>>

LoopStep(l) ==
  \/ LoopRead(l) \/ LoopQuit(l) \/ Renewed(l) \/ Accept(l) \/ LoopPersist(l)
  \/ InvalidGrant(l) \/ LoopErase(l)

----------------------------------------------------------------------------
(* The hub stream, as far as it reads and ends the grant *)

StreamOpen ==
  /\ up /\ stream.pc = "closed" /\ fresh
  /\ grants[access] = "alive"
  /\ stream' = [pc |-> "open", grant |-> access]
  /\ UNCHANGED <<providerVars, up, tokenVars, stored, refreshing, loop, login,
                 lost, exits>>

StreamDrops ==
  /\ stream.pc = "open"
  /\ stream' = NoStream
  /\ UNCHANGED <<providerVars, up, tokenVars, stored, refreshing, loop, login,
                 lost, exits>>

\* session-terminated: EndGrant
EndGrant ==
  /\ stream.pc = "open"
  /\ grants[stream.grant] = "ended"
  /\ Clear
  /\ stream' = [stream EXCEPT !.pc = "erase"]
  /\ UNCHANGED <<providerVars, up, stored, loop, login, lost, exits>>

StreamErase ==
  /\ stream.pc = "erase"
  /\ stored' = Empty
  /\ stream' = NoStream
  /\ UNCHANGED <<providerVars, up, tokenVars, refreshing, loop, login, lost, exits>>

----------------------------------------------------------------------------
(* The end of the process, and New with its resume *)

Exit ==
  /\ up /\ exits < MaxExits
  /\ exits' = exits + 1
  /\ up' = FALSE
  /\ access' = Empty /\ fresh' = FALSE /\ refresh' = Empty
  /\ refreshing' = FALSE
  /\ loop' = [l \in Goroutine |-> Idle]
  /\ login' = [g \in Grant |-> IF login[g].pc = "idle" THEN Idle
                               ELSE [pc |-> "done", token |-> Empty]]
  /\ stream' = NoStream
  /\ UNCHANGED <<providerVars, stored, lost>>

\* The first goroutine refreshes at once, without the wait
Boot ==
  /\ ~up
  /\ up' = TRUE
  /\ refresh' = stored
  /\ refreshing' = (stored # Empty)
  /\ IF stored = Empty THEN UNCHANGED loop ELSE Spare # {} /\ Go(Free, "sleep", stored)
  /\ UNCHANGED <<providerVars, access, fresh, stored, login, stream, lost, exits>>

TokensNext ==
  \/ \E g \in Grant : GrantEnds(g) \/ SignIn(g) \/ SignInPersist(g) \/ SignInStart(g)
  \/ \E l \in Goroutine : LoopStep(l) \/ Unanswered(l)
  \/ Expire
  \/ StreamOpen \/ StreamDrops \/ EndGrant \/ StreamErase
  \/ Exit \/ Boot

TokensSpec == TokensInit /\ [][TokensNext]_vars

\* Goroutines run, waits end, the provider answers but for MaxLost times, access
\* tokens expire and a stopped agent is started again.  Nobody has to sign in,
\* to end a grant or to open the stream.
TokensFairness ==
  /\ \A g \in Grant : WF_vars(SignInPersist(g) \/ SignInStart(g))
  /\ \A l \in Goroutine : WF_vars(LoopStep(l))
  /\ WF_vars(StreamErase)
  /\ WF_vars(Expire)
  /\ WF_vars(Boot)

TokensFairSpec == TokensSpec /\ TokensFairness

----------------------------------------------------------------------------
(* Properties *)

\* Tokens are tokens of grants that were issued, and a goroutine has a token in
\* its hands exactly where the code has one.
TokensTypeOK ==
  /\ patient \in BOOLEAN
  /\ grants \in [Grant -> {"new", "alive", "ended"}]
  /\ current \in [Grant -> 0 .. MaxRotations]
  /\ up \in BOOLEAN /\ fresh \in BOOLEAN /\ refreshing \in BOOLEAN
  /\ access \in Grant \cup {Empty}
  /\ {refresh, stored} \subseteq TokenOrNone
  /\ fresh => access # Empty
  /\ loop \in [Goroutine -> [pc : {"idle", "read", "quit", "erase", "persist"},
                             token : TokenOrNone]
                  \cup [pc : {"sleep", "renewed", "rotated", "refused"}, token : Token]]
  /\ login \in [Grant -> [pc : {"idle", "persist", "start", "done"}, token : TokenOrNone]]
  /\ stream \in {NoStream} \cup [pc : {"open", "erase"}, grant : Grant]
  /\ lost \in 0 .. MaxLost /\ exits \in 0 .. MaxExits

\* While the agent runs, it lets go of a refresh token only for a newer one or
\* when the provider would not take it any more.
LetsGo == up /\ up' /\ refresh # Empty /\ refresh' = Empty

\* So it is for an account that signs in again once the agent is at rest,
\* whatever answers are lost and wherever the process exits; and as long as
\* neither happens, only the provider's end of the grant costs the sign-in.
GrantKept ==
  [][patient /\ LetsGo =>
       /\ ~Valid(refresh)
       /\ (lost = 0 /\ exits = 0) => grants[refresh[1]] = "ended"]_vars

\* For such an account a restart resumes what was held: when no goroutine has a
\* write of the file before it, the file holds the refresh token in memory.
FileFollows ==
  (/\ patient /\ up
   /\ refresh # Empty /\ Valid(refresh)
   /\ stream.pc # "erase"
   /\ \A g \in Grant : login[g].pc # "persist"
   /\ \A l \in Goroutine : loop[l].pc \notin {"persist", "erase"})
  => stored = refresh

\* The tokens are well formed, and the file is in step with them.
TokensInStep == TokensTypeOK /\ FileFollows

\* An account that holds a refresh token does not stay without an access token:
\* lost answers are retried, and some goroutine always works on it.
AccessReturns ==
  (up /\ refresh # Empty /\ ~fresh) ~> (fresh \/ refresh = Empty \/ ~up)

\* A grant the provider ended is out of use at last, and stays so.
Unused(g) == ~(fresh /\ access = g) /\ (refresh = Empty \/ refresh[1] # g)

EndedGrantUnused == <>[](\A g \in Grant : grants[g] = "ended" => Unused(g))
----------------------------------------------------------------------------
(* A claim of the documentation that the code does not keep *)

\* "log in again to restore federated access" (tokens.go), at any time: a sign-in
\* whose access and refresh tokens are both its own is not cleared by a refusal or
\* a session-terminated of the grant before it.
OfOneGrant == access = refresh[1]

SignInAgainRestores == [][LetsGo /\ OfOneGrant => ~Valid(refresh)]_vars
=============================================================================
