------------------------------ MODULE OidcSignIn ------------------------------
(***************************************************************************)
(* Federated sign-in (internal/oidc: client.go, code.go, binding.go; the   *)
(* handlers of server/oidc.go): the device, code and silent flows, the key *)
(* a completed one mints, and what is kept beside the keys: the account of *)
(* each, and the tokens of those that are not the bound account's.         *)
(*                                                                         *)
(* A step is one section under c.mu, b.mu or the key store's lock, or one  *)
(* answer of the identity provider.  The bound account's own tokens, and   *)
(* the goroutine of a token source, are OidcTokens.  All keys here are     *)
(* minted ones; none of them is the last active admin.                     *)
(***************************************************************************)
EXTENDS Naturals, FiniteSets

CONSTANTS
  Device, Code, Silent,   \* bound: the sign-ins, by the way they go
  Account,
  Admitted,               \* oidc.allowed_users
  Kept,                   \* mintedKeysKept
  MaxSignIns,             \* bound: how many of them begin
  MaxIncidents,           \* bound: deletions, refreshes and restarts
  Nobody

Flow == Device \cup Code \cup Silent

VARIABLES
  begun, late,  \* the sign-ins that began, and those whose expiresAt is past
  entry,        \* c.flows: the status of each
  codes,        \* c.codeFlows and c.silent: the states still to be used
  work,         \* the goroutines and handlers that complete a sign-in
  held,         \* the minted keys in the key store
  subject,      \* binding: the bound account
  identity,     \* binding: the keys whose account is on record
  sources,      \* c.keyTokens: the keys with tokens of their own
  onDisk,       \* the keys whose refresh token is in the file
  refreshes,    \* the keys whose tokens a goroutine is refreshing
  minted,       \* history: per sign-in the keys it minted
  delivered,    \* history: how often device-status handed a credential over
  missed,       \* history: approvals that nobody can collect any more
  excused,      \* history: gone keys that something was written for since, or
                \* that no sign-in removed
  cutOff,       \* history: sign-ins that a restart ended before they handed a key over
  incidents     \* deletions, refreshes and restarts so far

flowVars == <<begun, late, entry, codes>>
keyVars == <<held, subject, identity, sources, onDisk, refreshes>>
historyVars == <<minted, delivered, missed, excused, cutOff>>
signInVars == <<flowVars, work, keyVars, historyVars, incidents>>

\* An earlier sign-in may have bound the agent; its key is gone since
Init ==
  /\ begun = {} /\ late = {} /\ codes = {} /\ work = {}
  /\ entry = [f \in Flow |-> "none"]
  /\ subject \in Account \cup {Nobody}
  /\ held = {} /\ identity = {} /\ sources = {} /\ onDisk = {}
  /\ refreshes = {}
  /\ minted = [f \in Flow |-> {}] /\ delivered = [f \in Flow |-> 0]
  /\ missed = {} /\ excused = {} /\ cutOff = {}
  /\ incidents = 0

-----------------------------------------------------------------------------
(* The flows and their handles *)

Worker(f, pc, result) == [flow |-> f, pc |-> pc, account |-> Nobody, id |-> 0, result |-> result]

\* sweepFlowsLocked: of the flows whose time is over, those that are ten minutes past it
Sweep(gone, status) == [f \in Flow |-> IF f \in gone THEN "gone" ELSE status[f]]

\* start, startCode, startSilent
Begin(f) ==
  /\ f \notin begun /\ Cardinality(begun) < MaxSignIns
  /\ begun' = begun \cup {f}
  /\ \E gone \in SUBSET {g \in late \ Silent : f \notin Silent} :
       /\ entry' = Sweep(gone, IF f \in Silent THEN entry ELSE [entry EXCEPT ![f] = "pending"])
       /\ missed' = missed \cup {g \in gone : entry[g] = "approved"}
  /\ codes' = IF f \in Device THEN codes
              ELSE {g \in codes : g \in late => (g \in Silent) # (f \in Silent)} \cup {f}
  /\ work' = IF f \in Device THEN work \cup {Worker(f, "poll", "")} ELSE work
  /\ UNCHANGED <<late, keyVars, minted, delivered, excused, cutOff, incidents>>

\* Nothing looks at expiresAt once the flow is settled and its state used
Expire(f) ==
  /\ f \notin late /\ (f \in codes \/ entry[f] \in {"pending", "approved"})
  /\ late' = late \cup {f}
  /\ UNCHANGED <<begun, entry, codes, work, keyVars, historyVars, incidents>>

\* status: an approval is handed over once; it and an expired flow are forgotten
DeviceStatus(f) ==
  /\ entry[f] \in {"approved", "expired"} \/ (entry[f] = "pending" /\ f \in late)
  /\ entry' = [entry EXCEPT ![f] = "gone"]
  /\ delivered' = IF entry[f] = "approved" THEN [delivered EXCEPT ![f] = @ + 1] ELSE delivered
  /\ UNCHANGED <<begun, late, codes, work, keyVars, minted, missed, excused, cutOff, incidents>>

-----------------------------------------------------------------------------
(* The answers of the identity provider *)

Becomes(w, v) == work' = (work \ {w}) \cup {v}
Ends(w, result) == Becomes(w, Worker(w.flow, "settle", result))
WorkOnly == UNCHANGED <<flowVars, keyVars, historyVars, incidents>>

\* The claims of an answer; allowed reads the binding, which record writes sections later
Decide(w, account) ==
  IF subject \in {Nobody, account} \/ account \in Admitted
  THEN Becomes(w, [w EXCEPT !.pc = "create", !.account = account])
  ELSE Ends(w, "denied")

\* Slip: the deadline is not looked at
NeverOverdue(w) == FALSE

Overdue(w) == w.flow \in late

\* watch: unless its time is over, the answer of a poll; without a final one it polls again
Watch(w) ==
  /\ w.pc = "poll" /\ WorkOnly
  /\ IF Overdue(w) THEN Ends(w, "expired")
     ELSE (\E a \in Account : Decide(w, a)) \/ \E result \in {"denied", "expired", "failed"} : Ends(w, result)

\* Slip: the state stays for another use
CodesKept(f) == codes

CodesLeft(f) == codes \ {f}

\* The state is taken out under c.mu, so one of callback and paste completes the sign-in
Take(f) ==
  /\ f \in codes /\ codes' = CodesLeft(f)
  /\ UNCHANGED <<begun, late, entry, keyVars, historyVars, incidents>>

\* handleOIDCCallback: refuseCode, exchangeCodeFlow or exchangeSilent
Callback(f) ==
  /\ Take(f)
  /\ \/ f \in Code /\ \E result \in {"denied", "failed"} :
          work' = work \cup {Worker(f, "settle", result)}
     \/ work' = IF f \in late THEN work
                ELSE work \cup {Worker(f, "exchange", "")}

\* submitCode
Paste(f) ==
  /\ entry[f] = "pending" /\ f \notin late
  /\ Take(f) /\ work' = work \cup {Worker(f, "exchange", "")}

\* redeemCode, up to allowed
Exchange(w) ==
  /\ w.pc = "exchange" /\ WorkOnly
  /\ (\E a \in Account : Decide(w, a)) \/ Ends(w, "failed")

-----------------------------------------------------------------------------
(* completeLogin: the key, its account, its tokens *)

At(w, pc, next) == w.pc = pc /\ Becomes(w, [w EXCEPT !.pc = next])

CreateKey(w) ==
  /\ w.pc = "create"
  /\ \/ Ends(w, "failed") /\ UNCHANGED <<held, minted>>
     \/ LET id == Cardinality(UNION {minted[f] : f \in Flow}) + 1
        IN /\ held' = held \cup {id}
           /\ minted' = [minted EXCEPT ![w.flow] = @ \cup {id}]
           /\ Becomes(w, [w EXCEPT !.pc = "prune", !.id = id])
  /\ UNCHANGED <<flowVars, subject, identity, sources, onDisk, refreshes, delivered, missed,
                 excused, cutOff, incidents>>

Newest(ids) == {id \in ids : Cardinality({newer \in ids : newer > id}) < Kept}

\* PruneByDescriptionPrefix: in memory it is done even when the file cannot be written
PruneKeys(w) ==
  /\ At(w, "prune", "record")
  /\ held' = Newest(held)
  /\ UNCHANGED <<flowVars, subject, identity, sources, onDisk, refreshes, historyVars, incidents>>

Late(id) == excused' = excused \cup ({id} \ held)

\* record: the first account is bound; what belonged to keys that are gone is dropped
Record(w) ==
  /\ At(w, "record", "forget")
  /\ subject' = IF subject = Nobody THEN w.account ELSE subject
  /\ LET gone == {id \in identity : id # w.id /\ id \notin held}
     IN identity' = (identity \cup {w.id}) \ gone /\ onDisk' = onDisk \ gone
  /\ Late(w.id)
  /\ UNCHANGED <<flowVars, held, sources, refreshes, minted, delivered, missed, cutOff, incidents>>

\* Slip: the sources of keys that are gone stay
SourcesAll == sources

SourcesLeft == sources \cap held

\* pruneKeyTokens: clear erases the stored token too
Forget(w) ==
  /\ At(w, "forget", "tokens")
  /\ sources' = SourcesLeft /\ onDisk' = onDisk \ (sources \ SourcesLeft)
  /\ UNCHANGED <<flowVars, held, subject, identity, refreshes, historyVars, incidents>>

\* keyTokenSource and set, up to its persist; the bound account's tokens go elsewhere
HoldTokens(w) ==
  /\ w.pc = "tokens"
  /\ IF w.account = subject
     THEN Ends(w, "approved") /\ UNCHANGED <<sources, excused>>
     ELSE Becomes(w, [w EXCEPT !.pc = "persist"]) /\ sources' = sources \cup {w.id} /\ Late(w.id)
  /\ UNCHANGED <<flowVars, held, subject, identity, onDisk, refreshes, minted, delivered, missed,
                 cutOff, incidents>>

\* Without a refresh token in the answer there is nothing to store
PersistTokens(w) ==
  /\ w.pc = "persist" /\ Ends(w, "approved")
  /\ onDisk' \in {onDisk, onDisk \cup {w.id}}
  /\ Late(w.id)
  /\ UNCHANGED <<flowVars, held, subject, identity, sources, refreshes, minted, delivered, missed,
                 cutOff, incidents>>

\* setStatus, approve: a flow that is not pending any more keeps its status
Settle(w) ==
  /\ w.pc = "settle" /\ work' = work \ {w}
  /\ entry' = IF entry[w.flow] = "pending" THEN [entry EXCEPT ![w.flow] = w.result] ELSE entry
  /\ missed' = IF w.result = "approved" /\ entry[w.flow] # "pending" /\ w.flow \notin Silent
               THEN missed \cup {w.flow} ELSE missed
  /\ UNCHANGED <<begun, late, codes, keyVars, minted, delivered, excused, cutOff, incidents>>

Complete(w) ==
  \/ CreateKey(w) \/ PruneKeys(w) \/ Record(w) \/ Forget(w)
  \/ HoldTokens(w) \/ PersistTokens(w) \/ Settle(w)

-----------------------------------------------------------------------------
(* Refreshes, an operator, a restart *)

Incident == incidents < MaxIncidents /\ incidents' = incidents + 1

\* refreshOnce of a key's source
Refresh(id) ==
  /\ Incident
  /\ id \in onDisk \ refreshes /\ refreshes' = refreshes \cup {id}
  /\ UNCHANGED <<flowVars, work, held, subject, identity, sources, onDisk, historyVars>>

\* A renewed token is stored, and a refused one erased, whether or not the key still exists
Refreshed(id) ==
  /\ id \in refreshes /\ refreshes' = refreshes \ {id}
  /\ \/ onDisk' = onDisk \cup {id} /\ Late(id)
     \/ onDisk' = onDisk \ {id} /\ UNCHANGED excused
  /\ UNCHANGED <<flowVars, work, held, subject, identity, sources, minted, delivered, missed,
                 cutOff, incidents>>

\* The keys page: Delete of the key store alone
DeleteKey(id) ==
  /\ Incident
  /\ id \in held /\ held' = held \ {id} /\ excused' = excused \cup {id}
  /\ UNCHANGED <<flowVars, work, subject, identity, sources, onDisk, refreshes, minted, delivered,
                 missed, cutOff>>

\* The process ends; New reads the files and resumes the sources of the keys that exist
Restart ==
  /\ Incident
  /\ entry' = [f \in Flow |-> IF f \in begun THEN "gone" ELSE "none"]
  /\ codes' = {} /\ work' = {} /\ refreshes' = {}
  /\ onDisk' = onDisk \cap held /\ sources' = onDisk'
  /\ excused' = excused \cup (identity \ held)
  /\ cutOff' = cutOff \cup {w.flow : w \in work} \cup {f \in begun \ Silent : delivered[f] = 0}
  /\ UNCHANGED <<begun, late, held, subject, identity, minted, delivered, missed>>

Next ==
  \/ \E f \in Flow : Begin(f) \/ Expire(f) \/ DeviceStatus(f) \/ Callback(f) \/ Paste(f)
  \/ \E w \in work : Watch(w) \/ Exchange(w) \/ Complete(w)
  \/ \E id \in held \cup onDisk \cup refreshes : Refresh(id) \/ Refreshed(id) \/ DeleteKey(id)
  \/ Restart

Spec == Init /\ [][Next]_signInVars

\* The held status request of an approved flow answers
Collect(f) == entry[f] = "approved" /\ DeviceStatus(f)

\* Deadlines pass, goroutines and handlers go on, an exchange is answered or times out,
\* and an approval is collected.  Nobody has to ask for a flow that is still pending, and
\* the provider may answer no poll.
Fairness ==
  /\ WF_signInVars(\E f \in Flow : Expire(f)) /\ WF_signInVars(\E f \in Flow : Collect(f))
  /\ WF_signInVars(\E w \in work : (Overdue(w) /\ Watch(w)) \/ Exchange(w) \/ Complete(w))

FairSpec == Spec /\ Fairness

-----------------------------------------------------------------------------
(* Properties *)

Pc == {"poll", "exchange", "create", "prune", "record", "forget", "tokens", "persist",
       "settle"}

\* Statuses are those of the code, and a worker has a key exactly from its creation on.
TypeOK ==
  /\ late \subseteq begun /\ codes \subseteq begun \ Device
  /\ entry \in [Flow -> {"none", "pending", "approved", "denied", "expired", "failed", "gone"}]
  /\ subject \in Account \cup {Nobody}
  /\ \A w \in work :
       /\ w.flow \in begun /\ w.pc \in Pc
       /\ w.pc \in {"prune", "record", "forget", "tokens", "persist"} <=> w.id # 0
  /\ incidents \in 0 .. MaxIncidents

\* A sign-in mints one key at most and hands it over once at most, however often and
\* through whichever way its code comes back.
OneKey == \A f \in Flow : Cardinality(minted[f]) <= 1 /\ delivered[f] <= 1

\* While the agent runs, only the end of a sign-in's time keeps its approval from being
\* collected: no refusal, other way or status poll gets in between (setStatus, approve).
MissedLate == missed \subseteq late

\* Once nothing is under way, each key has its account on record, and nothing is left of
\* a key that a later sign-in removed, but where it was written after the removal.
NothingLeft ==
  work = {} /\ refreshes = {} =>
    /\ held \subseteq identity \cup UNION {minted[f] : f \in cutOff}
    /\ identity \cup sources \cup onDisk \subseteq held \cup excused

\* The sign-ins somebody still waits for: a device one that is pending, and a key that
\* was minted in time and not handed over
Waiting ==
  {f \in Device : entry[f] = "pending"}
    \cup {f \in Flow \ Silent : minted[f] # {} /\ delivered[f] = 0 /\ f \notin missed \cup cutOff}

\* None of them is waited for without end, even when the provider never gives a poll its
\* final answer: the deadline ends the flow, and an approval is collected.
WaitsEnd == (Waiting # {}) ~> (Waiting = {})

\* Each sign-in comes to its end, once: the key, its handing over and the flow's status.
Completes == [](TypeOK /\ OneKey /\ MissedLate) /\ WaitsEnd

-----------------------------------------------------------------------------
(* Statements the code does not keep *)

\* "later logins by other accounts are refused unless listed in oidc.allowed_users"
\* (server/oidc.go): a sign-in decided before the first one is on record is not.
LaterRefused == \A w \in work : w.pc = "tokens" => w.account \in {subject} \cup Admitted

\* A key that is minted reaches its sign-in: it does not when the time ends meanwhile.
EveryKeyDelivered == \A f \in Flow \ Silent : (minted[f] # {}) ~> (delivered[f] = 1)
=============================================================================
