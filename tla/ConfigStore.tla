----------------------------- MODULE ConfigStore -----------------------------
(***************************************************************************)
(* The configuration engine and the typed view over it: files written      *)
(* under one lock (backup copy, file, cache, restart list), the after-write *)
(* hook run outside it, and the view refilled file by file.  A file is two *)
(* values, "live" and "boot": a change of the second waits for a restart.  *)
(* Writer w writes the value w; 0 is what the first boot found.            *)
(***************************************************************************)
EXTENDS Naturals, Sequences, FiniteSets

CONSTANTS
  Writer,      \* the requests, each a positive number and the value it writes
  File,        \* the configuration files, numbered in load order
  Overlap,     \* how many requests may overlap
  WriterOps,   \* what a request may be: "put", "flag", "paths", "setup", "restore", "restart"
  MaxFaults    \* bound on failed writes, crashes and values turning invalid

Free == 0
Value == {0} \cup Writer
Document == [live : Value, boot : Value]
First == [f \in File |-> [live |-> 0, boot |-> 0]]

VARIABLES
  apart,     \* no two requests overlap in this behaviour
  doc,       \* the files on disk
  bak,       \* the .bak beside each
  backup,    \* the timestamped backup a restore names
  cache,     \* the engine's raw and filled documents
  started,   \* the documents the running process began with
  pending,   \* the files with a value on the restart list
  cleared,   \* the list was forgotten by a restart request in this run of the process
  view,      \* the typed configuration
  holder,    \* the request in the engine's lock
  token,     \* the setup token file exists
  sick,      \* files one of whose values fails its rule at present (a path no longer writable)
  req, faults

vars == <<apart, doc, bak, backup, cache, started, pending, cleared, view, holder, token, sick,
          req, faults>>
disk == <<doc, bak, backup, token>>
process == <<started, pending, cleared>>

\* op; pc; the writes left under the lock; the restore's files left; the notices and reads left;
\* what the refill read; the files written; whether it was refused, and failed
Fresh == [op |-> "none", pc |-> "idle", todo |-> <<>>, later |-> <<>>, tell |-> 0, reads |-> <<>>,
          got |-> First, wrote |-> {}, refused |-> FALSE, failed |-> FALSE]

InOrder(files) == [i \in 1..Cardinality(files) |->
                     CHOOSE f \in files : Cardinality({g \in files : g < f}) = i - 1]

Init ==
  /\ apart \in BOOLEAN
  /\ doc = First /\ bak = First /\ backup = First /\ cache = First /\ started = First
  /\ view = First /\ pending = {} /\ cleared = FALSE /\ holder = Free
  /\ token = TRUE /\ sick = {} /\ faults = 0
  /\ req = [w \in Writer |-> Fresh]

Idle(w) == req[w].pc \in {"idle", "done"}

\* Requests start in the order of their numbers, which is all their names say
MayStart(w) ==
  /\ req[w].pc = "idle" /\ \A v \in Writer : v < w => req[v].pc # "idle"
  /\ IF apart THEN \A v \in Writer : Idle(v) ELSE w <= Overlap

\* What is left of a request that was answered
Over(r) == [Fresh EXCEPT !.pc = "done", !.op = r.op, !.wrote = r.wrote,
                         !.refused = r.refused, !.failed = r.failed]

-----------------------------------------------------------------------------
(* The requests.                                                           *)

Patched(d, leaf, w) == [d EXCEPT ![leaf] = w]

\* Lock and evaluate every document before any is written
Admit(w, op, list, later) ==
  /\ holder = Free
  /\ IF \E i \in 1..Len(list) : list[i].file \in sick
     THEN /\ holder' = holder
          /\ req' = [req EXCEPT ![w] = IF op \in {"flag", "paths"}
                                       THEN [@ EXCEPT !.pc = "undo"]
                                       ELSE Over([@ EXCEPT !.op = op, !.refused = TRUE])]
     ELSE /\ holder' = w
          /\ req' = [req EXCEPT ![w] = [@ EXCEPT !.op = op, !.pc = "bak", !.todo = list,
                                                 !.later = later]]

\* PUT /api/config/{name}: a merge patch over the cached file
Put(w) ==
  /\ MayStart(w) /\ "put" \in WriterOps
  /\ \E f \in File, leaf \in {"live", "boot"} :
       Admit(w, "put", <<[file |-> f, new |-> Patched(cache[f], leaf, w)]>>, <<>>)
  /\ UNCHANGED <<apart, disk, cache, process, view, sick, faults>>

\* A route that owns one value: it sets the typed view, then writes the whole section from it.
\* "paths" puts the view back when the save fails, "flag" does not.
SetView(w) ==
  /\ MayStart(w)
  /\ \E op \in WriterOps \cap {"flag", "paths"}, f \in File :
       LET section == Patched(view[f], "live", w) IN
       /\ view' = [view EXCEPT ![f] = section]
       /\ req' = [req EXCEPT ![w] = [@ EXCEPT !.op = op, !.pc = "section", !.got = view,
                                              !.todo = <<[file |-> f, new |-> section]>>]]
  /\ UNCHANGED <<apart, disk, cache, process, holder, sick, faults>>

SaveSection(w) ==
  /\ req[w].pc = "section"
  /\ Admit(w, req[w].op, req[w].todo, <<>>)
  /\ UNCHANGED <<apart, disk, cache, process, view, sick, faults>>

SectionRefused(w) ==
  /\ req[w].pc = "undo"
  /\ view' = IF req[w].op = "paths"
             THEN LET f == req[w].todo[1].file IN [view EXCEPT ![f].live = req[w].got[f].live]
             ELSE view
  /\ req' = [req EXCEPT ![w] = Over([@ EXCEPT !.failed = TRUE])]
  /\ UNCHANGED <<apart, disk, cache, process, holder, sick, faults>>

\* PUT /api/setup under the setup token: the guard, then every file in one hold of the lock
SetupGuard(w) ==
  /\ MayStart(w) /\ "setup" \in WriterOps /\ token
  /\ req' = [req EXCEPT ![w].op = "setup", ![w].pc = "guarded"]
  /\ UNCHANGED <<apart, disk, cache, process, view, holder, sick, faults>>

SetupPut(w) ==
  /\ req[w].pc = "guarded"
  /\ Admit(w, "setup", [i \in 1..Cardinality(File) |->
             LET f == InOrder(File)[i] IN [file |-> f, new |-> Patched(cache[f], "boot", w)]], <<>>)
  /\ UNCHANGED <<apart, disk, cache, process, view, sick, faults>>

\* POST backups/{id}/restore: the current files become a backup, then each file of the named one
\* is evaluated and written at its own turn
Restore(w) ==
  /\ MayStart(w) /\ "restore" \in WriterOps
  /\ req' = [req EXCEPT ![w] = [@ EXCEPT !.op = "restore", !.pc = "restore",
                 !.later = [i \in 1..Cardinality(File) |->
                    LET f == InOrder(File)[i] IN [file |-> f, new |-> backup[f]]]]]
  /\ backup' = doc
  /\ UNCHANGED <<apart, doc, bak, token, cache, process, view, holder, sick, faults>>

RestoreFile(w) ==
  /\ req[w].pc = "restore"
  /\ req[w].later # <<>>
  /\ Admit(w, "restore", <<Head(req[w].later)>>, Tail(req[w].later))
  /\ UNCHANGED <<apart, disk, cache, process, view, sick, faults>>

-----------------------------------------------------------------------------
(* The commit, under the lock, and what follows it outside.                *)

WriteBak(w, p) == bak' = [bak EXCEPT ![p.file] = doc[p.file]]

Bak(w) ==
  /\ req[w].pc = "bak" /\ holder = w
  /\ WriteBak(w, Head(req[w].todo))
  /\ req' = [req EXCEPT ![w].pc = "file"]
  /\ UNCHANGED <<apart, doc, backup, token, cache, process, view, holder, sick, faults>>

ListChange(p) ==
  pending' = IF cache[p.file].boot # p.new.boot THEN pending \cup {p.file} ELSE pending

WriteFile(w) ==
  /\ req[w].pc = "file"
  /\ LET p == Head(req[w].todo) IN
     /\ doc' = [doc EXCEPT ![p.file] = p.new]
     /\ cache' = [cache EXCEPT ![p.file] = p.new]
     /\ ListChange(p)
     /\ req' = [req EXCEPT ![w].todo = Tail(@), ![w].wrote = @ \cup {p.file}, ![w].tell = @ + 1,
                           ![w].pc = IF Len(req[w].todo) > 1 THEN "bak" ELSE "tell"]
     /\ holder' = IF Len(req[w].todo) > 1 THEN w ELSE Free
  /\ UNCHANGED <<apart, bak, backup, token, started, cleared, view, sick, faults>>

\* The slip: the cache is replaced ahead of the file, which is then not written
CacheAhead(w) == cache' = [cache EXCEPT ![Head(req[w].todo).file] = Head(req[w].todo).new]

CacheStays(w) == cache' = cache

\* The copy or the file cannot be written: the save ends there, told to nobody
WriteFails(w) ==
  /\ req[w].pc \in {"bak", "file"} /\ holder = w /\ faults < MaxFaults
  /\ faults' = faults + 1
  /\ holder' = Free
  /\ req' = [req EXCEPT ![w] = IF @.op \in {"flag", "paths"} THEN [@ EXCEPT !.pc = "undo"]
                               ELSE Over([@ EXCEPT !.failed = TRUE])]
  /\ CacheStays(w)
  /\ UNCHANGED <<apart, disk, process, view, sick>>

\* One refill for each notice, then the next file of a restore, then the request's own refill
NextAfter(w) ==
  IF req[w].tell > 0 THEN [req[w] EXCEPT !.pc = "read", !.tell = @ - 1, !.reads = InOrder(File)]
  ELSE IF req[w].later # <<>> THEN [req[w] EXCEPT !.pc = "restore"]
  ELSE IF req[w].op \in {"flag", "paths", "restore"} /\ ~req[w].refused
       THEN [req[w] EXCEPT !.pc = "read", !.reads = InOrder(File), !.op = "refilled"]
  ELSE Over(req[w])

\* deleteSetupToken follows the notices of SaveAll
Tell(w) ==
  /\ req[w].pc = "tell"
  /\ req' = [req EXCEPT ![w] = NextAfter(w)]
  /\ token' = (token /\ ~(req[w].op = "setup" /\ req[w].tell = 0))
  /\ UNCHANGED <<apart, doc, bak, backup, cache, process, view, holder, sick, faults>>

\* The refill reads one file at a time, each under the read lock
ReadFile(w) ==
  /\ req[w].pc = "read" /\ req[w].reads # <<>> /\ holder = Free
  /\ LET f == Head(req[w].reads) IN
     req' = [req EXCEPT ![w].reads = Tail(@), ![w].got[f] = cache[f]]
  /\ UNCHANGED <<apart, disk, cache, process, view, holder, sick, faults>>

Refill(w) ==
  /\ req[w].pc = "read" /\ req[w].reads = <<>>
  /\ view' = req[w].got
  /\ req' = [req EXCEPT ![w].pc = "tell", ![w].got = First]
  /\ UNCHANGED <<apart, disk, cache, process, holder, sick, faults>>

-----------------------------------------------------------------------------
(* Restart, crash and the world.                                           *)

\* The process begins again: it loads every file and nothing is pending
Boot ==
  /\ cache' = doc /\ view' = doc /\ started' = doc
  /\ pending' = {} /\ cleared' = FALSE /\ holder' = Free
  /\ req' = [w \in Writer |-> IF req[w].pc = "idle" THEN req[w] ELSE [Fresh EXCEPT !.pc = "done"]]

\* POST /api/config/restart: the list is forgotten, then the process is replaced
RestartRequest(w) ==
  /\ MayStart(w) /\ "restart" \in WriterOps
  /\ pending' = {} /\ cleared' = TRUE
  /\ req' = [req EXCEPT ![w].op = "restart", ![w].pc = "restart"]
  /\ UNCHANGED <<apart, disk, cache, started, view, holder, sick, faults>>

Replaced(w) ==
  /\ req[w].pc = "restart"
  /\ Boot
  /\ UNCHANGED <<apart, disk, sick, faults>>

\* The executable cannot be resolved, validated or spawned: the process goes on
SpawnFails(w) ==
  /\ req[w].pc = "restart" /\ faults < MaxFaults
  /\ faults' = faults + 1
  /\ req' = [req EXCEPT ![w] = Over([@ EXCEPT !.failed = TRUE])]
  /\ UNCHANGED <<apart, disk, cache, process, view, holder, sick>>

Crash ==
  /\ faults < MaxFaults /\ faults' = faults + 1
  /\ Boot
  /\ UNCHANGED <<apart, disk, sick>>

\* A value's rule reads the machine, a path's directory for one, which changes under it
Sicken ==
  /\ faults < MaxFaults /\ faults' = faults + 1
  /\ \E f \in File : sick' = sick \cup {f}
  /\ UNCHANGED <<apart, disk, cache, process, view, holder, req>>

Next ==
  \/ \E w \in Writer :
       \/ Put(w) \/ SetView(w) \/ SaveSection(w) \/ SectionRefused(w)
       \/ SetupGuard(w) \/ SetupPut(w) \/ Restore(w) \/ RestoreFile(w)
       \/ Bak(w) \/ WriteFile(w) \/ WriteFails(w) \/ Tell(w) \/ ReadFile(w) \/ Refill(w)
       \/ RestartRequest(w) \/ Replaced(w) \/ SpawnFails(w)
  \/ Crash \/ Sicken

Spec == Init /\ [][Next]_vars

-----------------------------------------------------------------------------
TypeOK ==
  /\ {doc, bak, backup, cache, started, view} \subseteq [File -> Document]
  /\ pending \subseteq File /\ sick \subseteq File /\ holder \in Writer \cup {Free}
  /\ \A w \in Writer : req[w].pc \in {"bak", "file"} <=> holder = w

\* What the routes answer is what a restart would load: whatever failed or overlapped, the cache
\* is the files whenever nobody is in the lock
CacheIsFile == holder = Free => cache = doc

\* A file is replaced only once its previous content is beside it in .bak
BakHoldsPrevious == [][\A f \in File : doc'[f] # doc[f] => bak'[f] = doc[f]]_vars

\* The list misses no value that differs from the one the process runs with, over any series of
\* saves, restores, failed writes and setups
RestartListed ==
  ~cleared => \A f \in File : cache[f].boot # started[f].boot => f \in pending

\* When requests do not overlap and none failed, the typed view is the files once they are over
ViewFollows ==
  /\ apart
  /\ \A w \in Writer : Idle(w) /\ ~req[w].failed
  => view = cache

\* A setup refused for one file has written none
SetupWhole == \A w \in Writer : req[w].op = "setup" /\ req[w].refused => req[w].wrote = {}

\* RestoreBackup says it validates every file of a backup and writes them
RestoreWhole == \A w \in Writer : req[w].op = "restore" /\ req[w].refused => req[w].wrote = {}

\* The view a writer leaves reaches every reader at once, overlapping requests included
ViewAlwaysFollows == (\A w \in Writer : Idle(w) /\ ~req[w].failed) => view = cache

\* The list is the union of every write's since the last restart
ListSurvivesFailedRestart == \A f \in File : cache[f].boot # started[f].boot
  => f \in pending \/ \E w \in Writer : req[w].pc = "restart"
=============================================================================
