------------------------------- MODULE KeyStore -------------------------------
(***************************************************************************)
(* The API key store with its verification cache, the browser sessions     *)
(* over it and the one-time tray tokens that open them.  Each store has a  *)
(* lock and a file; the slow comparison of a key with every hash, the key  *)
(* generation and the handlers' successive calls run between the locks.    *)
(*                                                                         *)
(* The code keeps the keys in the order of their ids, which grow; here     *)
(* they are a set, and the older key is the one with the smaller id.       *)
(***************************************************************************)
EXTENDS Naturals, FiniteSets

CONSTANTS
  Actor,      \* the requests, numbered in the order they start: each makes one call, and names
              \* the session it may open
  Tokens,     \* tray tokens minted, one for each Open
  Kept,       \* tray keys the reaper keeps (5 in the code)
  MaxKeys,    \* bound on keys ever created
  MaxFaults   \* bound on failed writes and restarts

\* admin and tray say what the role and the description prefix say
Key == [id : 1..MaxKeys, admin : BOOLEAN, tray : BOOLEAN, active : BOOLEAN]
NoKey == 0

VARIABLES
  keys, nextId,     \* the store in memory
  file, fileNext,   \* and on disk
  verified,         \* ids of the keys whose material passed a comparison in this process
  sessions,         \* handle -> key id, in memory
  sessionFile,      \* and on disk
  tokens,           \* how many tray tokens are not claimed yet
  req,              \* each request: what it does, where it is, its key, what it scans
  gone,             \* keys an administrator deleted or revoked
  reaped,           \* keys the reaper removed
  faults

vars == <<keys, nextId, file, fileNext, verified, sessions, sessionFile, tokens, req, gone, reaped,
          faults>>
store == <<keys, nextId, file, fileNext, verified>>
browser == <<sessions, sessionFile>>

Ids(list) == {k.id : k \in list}
Active(list) == {k \in list : k.active}
ActiveIds(list) == Ids(Active(list))
Admins(list) == {k \in Active(list) : k.admin}
Find(id) == CHOOSE k \in keys : k.id = id

Init ==
  /\ \/ keys = {} /\ nextId = 1
     \/ keys = {[id |-> 1, admin |-> TRUE, tray |-> FALSE, active |-> TRUE]} /\ nextId = 2
  /\ file = keys /\ fileNext = nextId /\ verified = {}
  /\ sessions = [a \in Actor |-> NoKey] /\ sessionFile = sessions
  /\ tokens = Tokens /\ gone = {} /\ reaped = {} /\ faults = 0
  /\ req = [a \in Actor |-> [op |-> "none", pc |-> "idle", key |-> NoKey, scan |-> {}]]

Starts(a) == req[a].pc = "idle" /\ \A b \in Actor : b < a => req[b].pc # "idle"
Goes(a, op, pc, key, scan) ==
  req' = [req EXCEPT ![a] = [op |-> op, pc |-> pc, key |-> key, scan |-> scan]]
Ends(a, how) == req' = [req EXCEPT ![a].pc = how, ![a].scan = {}]

\* A write that reaches the disk, or one of the few that do not
Written(list, next) == file' = list /\ fileNext' = next /\ faults' = faults
WriteLost == faults < MaxFaults /\ faults' = faults + 1 /\ UNCHANGED <<file, fileNext>>

-----------------------------------------------------------------------------
(* The key store, each operation one hold of its lock.                     *)

New(admin, tray) == [id |-> nextId, admin |-> admin, tray |-> tray, active |-> TRUE]

\* Create: the append is rolled back when it cannot be written
Create(a, admin, tray, next) ==
  /\ nextId <= MaxKeys
  /\ \/ /\ keys' = keys \cup {New(admin, tray)} /\ nextId' = nextId + 1
        /\ Written(keys', nextId')
        /\ req' = [req EXCEPT ![a].pc = next, ![a].key = nextId]
     \/ WriteLost /\ UNCHANGED <<keys, nextId>> /\ Ends(a, "failed")
  /\ UNCHANGED <<verified, browser, tokens, gone, reaped>>

LastActiveAdmin(id) ==
  /\ Find(id).admin /\ Find(id).active
  /\ ~\E k \in Admins(keys) : k.id # id

\* Delete: what cannot be written is gone from memory all the same
Delete(a) ==
  /\ Starts(a)
  /\ \E id \in Ids(keys) :
       /\ ~LastActiveAdmin(id)
       /\ keys' = {k \in keys : k.id # id}
       /\ verified' = verified \ {id} /\ gone' = gone \cup {id} /\ nextId' = nextId
       /\ \/ Written(keys', nextId) /\ Ends(a, "done")
          \/ WriteLost /\ Ends(a, "failed")
  /\ UNCHANGED <<browser, tokens, reaped>>

\* Revoke: what cannot be written is put back
Revoke(a) ==
  /\ Starts(a)
  /\ \E id \in Ids(keys) :
       /\ ~LastActiveAdmin(id)
       /\ verified' = verified \ {id} /\ nextId' = nextId
       /\ \/ /\ keys' = {IF k.id = id THEN [k EXCEPT !.active = FALSE] ELSE k : k \in keys}
             /\ Written(keys', nextId) /\ gone' = gone \cup {id} /\ Ends(a, "done")
          \/ WriteLost /\ keys' = keys /\ gone' = gone /\ Ends(a, "failed")
  /\ UNCHANGED <<browser, tokens, reaped>>

Newer(key, matching) == {k \in matching : k.id > key.id}

\* The slip: the oldest are kept
Newest(matching) ==
  Ids({key \in matching : Cardinality({k \in matching : k.id < key.id}) >= Kept})

\* matching[:len-keep]
Surplus(matching) == Ids({key \in matching : Cardinality(Newer(key, matching)) >= Kept})

\* PruneByDescriptionPrefix, each victim weighed by itself
Prune(a) ==
  /\ req[a].pc = "prune"
  /\ LET matching == {k \in keys : k.tray}
         victims == {id \in Surplus(matching) : ~LastActiveAdmin(id)} IN
     /\ keys' = {k \in keys : k.id \notin victims}
     /\ verified' = verified \ victims /\ reaped' = reaped \cup victims
     /\ IF victims = {} THEN UNCHANGED <<file, fileNext, faults>>
        ELSE Written(keys', nextId) \/ WriteLost
  /\ req' = [req EXCEPT ![a].pc = "open"]
  /\ UNCHANGED <<nextId, browser, tokens, gone>>

-----------------------------------------------------------------------------
(* Verification: a cache hit answers, else every active key's hash is      *)
(* compared outside the lock and the match looked up again.                *)

Present(a) ==
  /\ Starts(a)
  /\ \E op \in {"call", "paste"}, id \in 1..(nextId - 1) :
       IF id \in verified /\ id \in ActiveIds(keys)
       THEN Goes(a, op, IF op = "call" THEN "accepted" ELSE "open", id, {})
       ELSE Goes(a, op, "scan", id, ActiveIds(keys))
  /\ verified' = verified \cap ActiveIds(keys)
  /\ UNCHANGED <<keys, nextId, file, fileNext, browser, tokens, gone, reaped, faults>>

\* The slip: the scanned copy answers
StillInScan(a) == req[a].key \in req[a].scan

StillLive(a) == req[a].key \in req[a].scan /\ req[a].key \in ActiveIds(keys)

Match(a) ==
  /\ req[a].pc = "scan"
  /\ IF StillLive(a)
     THEN /\ verified' = verified \cup {req[a].key}
          /\ Ends(a, IF req[a].op = "call" THEN "accepted" ELSE "open")
     ELSE verified' = verified /\ Ends(a, "refused")
  /\ UNCHANGED <<keys, nextId, file, fileNext, browser, tokens, gone, reaped, faults>>

-----------------------------------------------------------------------------
(* The handlers that create keys and sessions.                             *)

\* POST /api/api-keys/bootstrap: the count, then the hashing, then the key
Bootstrap(a) ==
  /\ Starts(a) /\ keys = {}
  /\ Goes(a, "bootstrap", "generate", NoKey, {})
  /\ UNCHANGED <<store, browser, tokens, gone, reaped, faults>>

Generate(a) ==
  /\ Starts(a) \/ req[a].pc = "generate"
  /\ req[a].pc = "idle" => Admins(keys) # {}
  /\ \E admin \in BOOLEAN : (req[a].pc = "generate" => admin) /\ Create(a, admin, FALSE, "done")

TokenTaken == tokens' = tokens - 1

\* POST /api/auth/tray-claim: taken whether or not it has expired
ClaimToken(a) ==
  /\ Starts(a) /\ tokens > 0
  /\ TokenTaken
  /\ \E pc \in {"mint", "refused"} : Goes(a, "tray", pc, NoKey, {})
  /\ UNCHANGED <<store, browser, gone, reaped, faults>>

MintTray(a) == req[a].pc = "mint" /\ Create(a, TRUE, TRUE, "prune")

\* Sessions.Create drops the sessions of dead keys first; kept in memory when it cannot be written
OpenSession(a) ==
  /\ req[a].pc = "open"
  /\ sessions' = [b \in Actor |-> IF b = a THEN req[a].key
                                  ELSE IF sessions[b] \in ActiveIds(keys) THEN sessions[b] ELSE NoKey]
  /\ \/ sessionFile' = sessions' /\ faults' = faults /\ Ends(a, "signed in")
     \/ sessionFile' = sessionFile /\ faults < MaxFaults /\ faults' = faults + 1 /\ Ends(a, "failed")
  /\ UNCHANGED <<store, tokens, gone, reaped>>

\* A request under a session cookie: the session, then its key; a dead one is forgotten
Cookie(a) ==
  /\ Starts(a)
  /\ \E b \in Actor : sessions[b] # NoKey /\ Goes(a, "cookie", "cookie", sessions[b], {b})
  /\ UNCHANGED <<store, browser, tokens, gone, reaped, faults>>

CookieKey(a) ==
  /\ req[a].pc = "cookie"
  /\ IF req[a].key \in ActiveIds(keys)
     THEN UNCHANGED <<browser, faults>> /\ Ends(a, "accepted")
     ELSE /\ sessions' = [b \in Actor |-> IF b \in req[a].scan THEN NoKey ELSE sessions[b]]
          /\ \/ sessionFile' = sessions' /\ faults' = faults
             \/ sessionFile' = sessionFile /\ faults < MaxFaults /\ faults' = faults + 1
          /\ Ends(a, "refused")
  /\ UNCHANGED <<store, tokens, gone, reaped>>

\* POST /api/auth/logout
Logout(a) ==
  /\ Starts(a)
  /\ \E b \in Actor :
       /\ sessions[b] \in ActiveIds(keys)
       /\ sessions' = [sessions EXCEPT ![b] = NoKey]
       /\ \/ sessionFile' = sessions' /\ faults' = faults
          \/ sessionFile' = sessionFile /\ faults < MaxFaults /\ faults' = faults + 1
  /\ Ends(a, "done")
  /\ UNCHANGED <<store, tokens, gone, reaped>>

\* The process begins again: keys and sessions from their files, no token, nothing verified
Restart ==
  /\ faults < MaxFaults /\ faults' = faults + 1
  /\ keys' = file /\ nextId' = fileNext /\ verified' = {} /\ tokens' = 0
  /\ sessions' = sessionFile
  /\ req' = [a \in Actor |-> IF req[a].pc = "idle" THEN req[a]
                             ELSE [req[a] EXCEPT !.pc = "failed", !.scan = {}]]
  /\ UNCHANGED <<file, fileNext, sessionFile, gone, reaped>>

Next ==
  \/ \E a \in Actor :
       \/ Delete(a) \/ Revoke(a) \/ Prune(a) \/ Present(a) \/ Match(a)
       \/ Bootstrap(a) \/ Generate(a) \/ ClaimToken(a) \/ MintTray(a) \/ OpenSession(a)
       \/ Cookie(a) \/ CookieKey(a) \/ Logout(a)
  \/ Restart

Spec == Init /\ [][Next]_vars

-----------------------------------------------------------------------------
TypeOK ==
  /\ keys \cup file \subseteq Key /\ {nextId, fileNext} \subseteq 1..(MaxKeys + 1)
  /\ \A k, l \in keys : k.id = l.id => k = l
  /\ \A k \in keys : k.id < nextId

\* The cache answers for no key that was revoked, deleted or reaped, comparisons under way included
CacheLive == verified \subseteq ActiveIds(keys)

\* A credential or a cookie is accepted only while its key is active, however long the comparison
AcceptedLive == [][\A a \in Actor :
  req'[a].pc = "accepted" /\ req[a].pc # "accepted" => req'[a].key \in ActiveIds(keys)]_vars

\* Where there is an active administrator there stays one, whatever administrators delete and
\* revoke, a write loses and a restart brings back; the reaper takes the last ones only when it
\* takes several at once (Delete, Revoke, load, PruneByDescriptionPrefix)
AdminRemains == [][Admins(keys) # {} =>
  \/ Admins(keys') # {}
  \/ \E k, l \in Admins(keys) : k # l /\ {k.id, l.id} \cap Ids(keys') = {}]_vars

\* A person who clicked Open is signed in under a live key, unless an administrator took it away
\* or as many opens as the reaper keeps came between: claims that overlap do not reap each other
FreshKeySpared == \A a \in Actor : req[a].op = "tray" /\ req[a].pc = "open" =>
  \/ req[a].key \in ActiveIds(keys) \cup gone
  \/ nextId - 1 - req[a].key >= Kept

\* The pile of tray keys is back within its bound once no claim is under way: claims that overlap
\* do not add up.  The reaper passes over the last administrator, so nobody may have been removed
TrayBound ==
  faults = 0 /\ gone = {} /\ (\A a \in Actor : req[a].pc \in {"idle", "done", "signed in", "refused", "accepted"})
  => Cardinality({k \in keys : k.tray}) <= Kept

\* A token opens one session, a lost answer included
TokenOnce == Cardinality({a \in Actor : req[a].op = "tray" /\ req[a].pc # "refused"}) <= Tokens

\* The last administrator is never removed (isLastActiveAdmin, "lockout guard"): the reaper, which
\* weighs each of its victims by itself, may remove the last two at once
AdminAlways == [][Admins(keys) # {} => Admins(keys') # {}]_vars

\* The bootstrap endpoint locks after the first key
FirstKeyOnce == Cardinality({a \in Actor : req[a].op = "bootstrap" /\ req[a].pc = "done"}) <= 1

\* The store in memory matches the disk, as Create's comment says of its rollback
MemoryIsDisk == keys = file /\ nextId = fileNext
=============================================================================
