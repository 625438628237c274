------------------------------ MODULE AssetStore ------------------------------
(***************************************************************************)
(* The artifact library (internal/assets): the files of the storage        *)
(* locations and the rows that describe them.  One artifact task works at  *)
(* a time (their machine name and their category are the same); the        *)
(* automatic scan and the HTTP handlers that land an upload or register a  *)
(* host file work beside it, without a lock.                               *)
(*                                                                         *)
(* A step is one file operation or one SQL statement.  The locations are   *)
(* of one type and the requests name one file; hashing reads the file at   *)
(* one moment and tells contents apart.  A stream is written beside its    *)
(* name and renamed (WriteFileFrom); a copied file appears in one step.    *)
(* An overwrite that is refused changes nothing, so the requests here are  *)
(* those that go on.                                                       *)
(***************************************************************************)
EXTENDS Naturals, FiniteSets

CONSTANTS
  Location,
  Content,          \* what a whole file may hold
  Given,            \* bound: the checksums a request or the catalog gives, as contents
  Listed,           \* the contents the box registries list, under a kind of their own
  SameSize,         \* whole files are of one size
  Id,               \* row ids; AUTOINCREMENT reuses none that anybody still holds
  None,
  MaxEvents         \* bound: how many of a task, a landing and a fault (a crash, a cancel, or a
                    \* file that others change) there are, one of each at most

Name == {"file", "file.download", "file.download.tmp", "file.upload", "file.upload.tmp"}
Bytes == Content \cup {"part"}
Kind == {"own", "listed"}
Row == [id : Id, loc : Location, name : Name, kind : Kind, path : BOOLEAN,
        sha : Bytes \cup {None}, expected : Content \cup {None}, exists : BOOLEAN]
Scanner == {"automatic", "asked"}

VARIABLES
  enabled,          \* environment: the enabled locations, chosen at the start: all of them, with
                    \* a move or a copy as the task, or one, with any other task
  keyed,            \* the location is role-keyed: names are not filtered; chosen at the start
  files,            \* location, name -> what the file holds
  rows,             \* the artifacts table
  pending,          \* upload tasks whose bytes have landed
  task,             \* the artifact task that runs
  landing,          \* the handler that brings a file
  scan,             \* per scanner: where it is
  happened          \* of the task, the landing and the fault, those that have been

assetVars == <<enabled, keyed, files, rows, pending, task, landing, scan, happened>>

NoTask == [op |-> "none", at |-> "idle", loc |-> None, dest |-> None, name |-> "file",
           kind |-> "own", id |-> None, bytes |-> None, expect |-> None]
NoLanding == [at |-> "idle", loc |-> None, bytes |-> None, expect |-> None]
NoScan == [at |-> "idle", todo |-> {}, loc |-> None, found |-> {}, hash |-> {}, gone |-> {},
           now |-> None, verify |-> FALSE, orphans |-> FALSE]

Home == CHOOSE l \in Location : TRUE

\* A library that is empty, expects a file, or has one
Init ==
  /\ enabled \in {{Home}, Location} /\ keyed \in BOOLEAN /\ (keyed => enabled = {Home})
  /\ LET row == [id |-> CHOOSE i \in Id : TRUE, loc |-> Home, name |-> "file", kind |-> "own",
                 path |-> FALSE, sha |-> None, expected |-> None, exists |-> FALSE]
         empty == [p \in Location \X Name |-> None]
     IN  \/ rows = {} /\ files = empty
         \/ files = empty /\ \E e \in Given : rows = {[row EXCEPT !.expected = e]}
         \/ \E b \in Content \ Listed :
              /\ rows = {[row EXCEPT !.path = TRUE, !.sha = b, !.exists = TRUE]}
              /\ files = [empty EXCEPT ![<<Home, "file">>] = b]
  /\ pending = {}
  /\ task = NoTask /\ landing = NoLanding /\ scan = [s \in Scanner |-> NoScan]
  /\ happened = {}

-----------------------------------------------------------------------------
(* The statements on the artifacts table *)

Ids(rs) == {r.id : r \in rs}
Held == Ids(rows) \cup {task.id} \cup UNION {Ids(scan[s].gone) : s \in Scanner}

\* The row of an identity, or a new one without file and expectation
RowOf(l, n, k) ==
  LET found == {r \in rows : r.loc = l /\ r.name = n /\ r.kind = k}
  IN  IF found # {} THEN CHOOSE r \in found : TRUE
      ELSE [id |-> CHOOSE i \in Id : i \notin Held, loc |-> l, name |-> n, kind |-> k,
            path |-> FALSE, sha |-> None, expected |-> None, exists |-> FALSE]

Put(r) == rows' = {q \in rows : q.id # r.id} \cup {r}

RecordIngested(l, n, k, sha) ==
  Put([RowOf(l, n, k) EXCEPT !.path = TRUE, !.sha = sha, !.exists = TRUE])

SetExpectation(l, n, k, sha) == Put([RowOf(l, n, k) EXCEPT !.expected = sha])

DeleteRow(i) == rows' = {r \in rows : r.id # i}

MarkMissing(i) == rows' = {IF r.id = i THEN [r EXCEPT !.exists = FALSE] ELSE r : r \in rows}

\* Refused when the destination has a row of this identity
UpdatePlacement(i, l, n, k) ==
  IF \E r \in rows : r.id # i /\ r.loc = l /\ r.name = n /\ r.kind = k
  THEN rows' = rows
  ELSE rows' = {IF r.id = i THEN [r EXCEPT !.loc = l, !.path = TRUE] ELSE r : r \in rows}

Becomes(l, n, b) == files' = [files EXCEPT ![<<l, n>>] = b]
Streamed(l, tmp, n, b) == files' = [files EXCEPT ![<<l, tmp>>] = None, ![<<l, n>>] = b]
Rename(l, n, d, m) == files' = [files EXCEPT ![<<l, n>>] = None, ![<<d, m>>] = files[<<l, n>>]]

\* The kind the registries give a content in a role-keyed location
KindOf(b) == IF keyed /\ b \in Listed THEN "listed" ELSE "own"
SizeOf(b) == IF SameSize /\ b \in Content THEN "whole" ELSE b

Happens(what) ==
  /\ what \notin happened /\ Cardinality(happened) < MaxEvents
  /\ happened' = happened \cup {what}

-----------------------------------------------------------------------------
(* Artifact tasks *)

Starts(t) ==
  /\ task = NoTask /\ Happens("task") /\ task' = t
  /\ UNCHANGED <<enabled, keyed, files, rows, pending, landing, scan>>
Alone == enabled = {Home}
Continues(at) == task' = [task EXCEPT !.at = at]
Ends == task' = NoTask
Working(at) == task.at = at /\ UNCHANGED <<enabled, keyed, pending, landing, scan, happened>>
Refused(t) == t.expect \notin {None, t.bytes}

\* download, registryDownload: the given checksum is verified, then recorded
StartDownload ==
  \E l \in enabled, b \in Content, e \in Given \cup {None} :
    Alone /\ Starts([NoTask EXCEPT !.op = "download", !.at = "open", !.loc = l, !.bytes = b,
                          !.expect = e, !.kind = KindOf(b)])

\* hclDownload: the catalog's checksum is recorded before the file is there
StartHcl ==
  \E l \in enabled, b \in Content, e \in Given :
    Alone /\ Starts([NoTask EXCEPT !.op = "hcl", !.at = "catalog", !.loc = l, !.bytes = b, !.expect = e])

Catalog ==
  /\ Working("catalog") /\ UNCHANGED files
  /\ SetExpectation(task.loc, "file", "own", task.expect) /\ Continues("open")

OpenDownload ==
  /\ Working("open") /\ UNCHANGED rows
  /\ Becomes(task.loc, "file.download.tmp", "part") /\ Continues("body")

EndDownload ==
  /\ Working("body") /\ UNCHANGED rows
  /\ \/ Becomes(task.loc, "file.download.tmp", None) /\ Ends
     \/ Streamed(task.loc, "file.download.tmp", "file.download", task.bytes) /\ Continues("promote")

Promote ==
  /\ Working("promote") /\ UNCHANGED rows
  /\ IF Refused(task) THEN Becomes(task.loc, "file.download", None) /\ Ends
     ELSE /\ Rename(task.loc, "file.download", task.loc, "file")
          /\ Continues(IF task.op = "download" /\ task.expect # None THEN "expect" ELSE "record")

Expect ==
  /\ Working("expect") /\ UNCHANGED files
  /\ SetExpectation(task.loc, "file", task.kind, task.expect) /\ Continues("record")

Record ==
  /\ Working("record") /\ UNCHANGED files
  /\ RecordIngested(task.loc, task.name, task.kind, task.bytes) /\ Ends

\* uploadProcess: the file is at its place already, and is hashed there
StartUpload(p) ==
  /\ p \in pending /\ task = NoTask /\ pending' = pending \ {p}
  /\ task' = [NoTask EXCEPT !.op = "upload", !.at = "hash", !.loc = p.loc, !.expect = p.expect]
  /\ UNCHANGED <<enabled, keyed, files, rows, landing, scan, happened>>

Hash ==
  LET b == files[<<task.loc, "file">>]
  IN  /\ Working("hash") /\ UNCHANGED <<files, rows>>
      /\ IF b = None THEN Ends
         ELSE task' = [task EXCEPT !.bytes = b,
                !.at = IF task.expect \notin {None, b} THEN "discard"
                       ELSE IF task.expect # None THEN "expect" ELSE "record"]

Discard == Working("discard") /\ UNCHANGED rows /\ Becomes(task.loc, "file", None) /\ Ends

\* move and copyArtifact: transferTarget, then the file, then the row
StartTransfer(op) ==
  \E r \in rows, d \in enabled :
    /\ ~Alone /\ r.exists /\ r.path /\ r.kind = "own" /\ d # r.loc /\ files[<<d, r.name>>] = None
    /\ Starts([NoTask EXCEPT !.op = op, !.at = "transfer", !.loc = r.loc, !.dest = d,
                             !.name = r.name, !.id = r.id, !.bytes = r.sha])

CopyFile(at) ==
  \/ /\ Becomes(task.dest, task.name, files[<<task.loc, task.name>>])
     /\ task' = [task EXCEPT !.at = at, !.loc = IF task.op = "copy" THEN task.dest ELSE @]
  \/ Becomes(task.dest, task.name, None) /\ Ends

Transfer ==
  /\ Working("transfer") /\ UNCHANGED rows
  /\ IF files[<<task.loc, task.name>>] = None THEN files' = files /\ Ends
     ELSE IF task.op = "copy" THEN CopyFile("record")
     ELSE \/ Rename(task.loc, task.name, task.dest, task.name) /\ Continues("place")
          \/ CopyFile("drop")

DropSource ==
  /\ Working("drop") /\ UNCHANGED rows
  /\ Becomes(task.loc, task.name, None) \/ files' = files
  /\ Continues("place")

Place ==
  /\ Working("place") /\ UNCHANGED files
  /\ UpdatePlacement(task.id, task.dest, task.name, task.kind) /\ Ends

\* deleteFiles, one row: the file too, or the row alone
StartDelete ==
  \E r \in rows, at \in {"remove", "delete"} :
    /\ Alone /\ (r.path \/ at = "delete")
    /\ Starts([NoTask EXCEPT !.op = "delete", !.at = at, !.loc = r.loc, !.name = r.name,
                             !.id = r.id])

Remove ==
  /\ Working("remove") /\ UNCHANGED rows
  /\ \/ Becomes(task.loc, task.name, None) /\ Continues("delete")
     \/ files' = files /\ (Ends \/ Continues("delete"))

Delete == Working("delete") /\ UNCHANGED files /\ DeleteRow(task.id) /\ Ends

-----------------------------------------------------------------------------
(* The handlers: an upload lands, a host file is registered *)

Lands(l) == landing' = l /\ UNCHANGED <<enabled, keyed, task, scan>>

StartLanding ==
  /\ landing = NoLanding /\ Happens("landing")
  /\ \E l \in enabled, b \in Content, e \in Given \cup {None}, at \in {"open", "copy"} :
       /\ at = "copy" => e = None
       /\ Lands([at |-> at, loc |-> l, bytes |-> b, expect |-> e])
  /\ UNCHANGED <<files, rows, pending>>

LandingStep ==
  LET l == landing.loc
      Goes(at) == Lands([landing EXCEPT !.at = at])
  IN
  /\ UNCHANGED happened
  /\ \/ /\ landing.at = "open" /\ UNCHANGED <<rows, pending>>
        /\ Becomes(l, "file.upload.tmp", "part") /\ Goes("body")
     \/ /\ landing.at = "body" /\ UNCHANGED <<rows, pending>>
        /\ \/ Becomes(l, "file.upload.tmp", None) /\ Lands(NoLanding)
           \/ Streamed(l, "file.upload.tmp", "file.upload", landing.bytes) /\ Goes("rename")
     \/ /\ landing.at = "rename" /\ UNCHANGED <<rows, pending>>
        /\ Rename(l, "file.upload", l, "file") /\ Goes("queue")
     \/ /\ landing.at = "queue" /\ UNCHANGED <<files, rows>>
        /\ pending' = pending \cup {[loc |-> l, expect |-> landing.expect]} /\ Lands(NoLanding)
     \/ /\ landing.at = "copy" /\ UNCHANGED <<rows, pending>>
        /\ Becomes(l, "file", landing.bytes) /\ Goes("hash")
     \/ /\ landing.at = "hash" /\ UNCHANGED <<files, rows, pending>>
        /\ IF files[<<l, "file">>] = None THEN Lands(NoLanding)
           ELSE Lands([landing EXCEPT !.at = "record", !.bytes = files[<<l, "file">>]])
     \/ /\ landing.at = "record" /\ UNCHANGED <<files, pending>>
        /\ RecordIngested(l, "file", "own", landing.bytes) /\ Lands(NoLanding)

-----------------------------------------------------------------------------
(* ScanLocation: the directory is listed, then the rows; then each file, and each row whose *)
(* file was not listed.                                                                     *)

Scans(s, r) == scan' = [scan EXCEPT ![s] = r]
Scanning == UNCHANGED <<enabled, keyed, files, pending, landing>>

\* A location that has nothing left is followed by the next one, the last one by the end
Onward(s, r) ==
  IF r.hash \cup r.gone # {} THEN Scans(s, r) /\ task' = task
  ELSE IF r.todo # {} THEN Scans(s, [r EXCEPT !.at = "list", !.loc = None]) /\ task' = task
  ELSE Scans(s, NoScan) /\ task' = IF s = "asked" THEN NoTask ELSE task

\* The directory of a location, each file with its size
Listing(r) ==
  LET l == CHOOSE l \in r.todo : TRUE
      shown == {n \in Name : (keyed \/ n = "file") /\ files[<<l, n>>] # None}
  IN  [r EXCEPT !.at = "rows", !.loc = l, !.todo = @ \ {l},
                !.found = {[name |-> n, size |-> SizeOf(files[<<l, n>>])] : n \in shown}]

\* runScanAll: orphans go, known files are not hashed again
StartAutomatic ==
  /\ scan["automatic"] = NoScan /\ Scanning
  /\ Scans("automatic", Listing([NoScan EXCEPT !.todo = enabled, !.orphans = TRUE]))
  /\ UNCHANGED <<rows, task, happened>>

StartScan ==
  /\ Alone /\ task = NoTask /\ Happens("task") /\ Scanning
  /\ task' = [NoTask EXCEPT !.op = "scan", !.at = "scan"]
  /\ \E todo \in {{l} : l \in enabled} \cup {enabled}, verify, orphans \in BOOLEAN :
       Scans("asked", Listing([NoScan EXCEPT !.todo = todo, !.verify = verify,
                                             !.orphans = orphans]))
  /\ UNCHANGED rows

ListFiles(s) ==
  /\ scan[s].at = "list" /\ Scanning
  /\ Scans(s, Listing(scan[s]))
  /\ UNCHANGED <<rows, task, happened>>

\* Slip: a row of the right size is taken for present
Sized(s, r, f) == ~scan[s].verify /\ r.sha # None /\ SizeOf(r.sha) = f.size

\* A known row that needs no hash
Present(s, r, f) == r.exists /\ ~scan[s].verify /\ SizeOf(r.sha) = f.size

\* The rows of the location, as they are now: which files to hash, under the kind of a known
\* row (any, when a path has two), and which rows have no file
ListRows(s) ==
  LET here == {r \in rows : r.loc = scan[s].loc /\ r.path}
      Known(f) == {r \in here : r.name = f.name}
      gone == {r \in here : /\ \A f \in scan[s].found : f.name # r.name
                            /\ r.exists \/ scan[s].orphans}
      new == {[name |-> f.name, kind |-> None] : f \in {f \in scan[s].found : Known(f) = {}}}
      old == {f \in scan[s].found : Known(f) # {}}
  IN
  /\ scan[s].at = "rows" /\ Scanning /\ UNCHANGED <<rows, happened>>
  /\ \E known \in [old -> here] :
       /\ \A f \in old : known[f] \in Known(f)
       /\ Onward(s, [scan[s] EXCEPT !.at = "visit", !.found = {}, !.gone = gone,
            !.hash = new \cup {[name |-> f.name, kind |-> known[f].kind] :
                                f \in {f \in old : ~Present(s, known[f], f)}}])

\* HashFile, and the kind of a file no row knows
Visit(s) ==
  /\ scan[s].at = "visit" /\ scan[s].hash # {} /\ Scanning /\ UNCHANGED <<rows, happened>>
  /\ LET f == CHOOSE f \in scan[s].hash : TRUE
         b == files[<<scan[s].loc, f.name>>]
         k == IF f.kind = None THEN KindOf(b) ELSE f.kind
     IN  IF b = None THEN Onward(s, [scan[s] EXCEPT !.hash = @ \ {f}])
         ELSE /\ Scans(s, [scan[s] EXCEPT !.at = "record", !.hash = @ \ {f},
                             !.now = [name |-> f.name, kind |-> k, sha |-> b]])
              /\ task' = task

RecordFound(s) ==
  /\ scan[s].at = "record" /\ Scanning /\ UNCHANGED happened
  /\ LET f == scan[s].now IN RecordIngested(scan[s].loc, f.name, f.kind, f.sha)
  /\ Onward(s, [scan[s] EXCEPT !.at = "visit", !.now = None])

\* One row without a file, as it was read
Settle(s) ==
  /\ scan[s].at = "visit" /\ scan[s].hash = {} /\ Scanning /\ UNCHANGED happened
  /\ \E r \in scan[s].gone :
       /\ IF scan[s].orphans /\ r.expected = None THEN DeleteRow(r.id)
          ELSE IF r.exists THEN MarkMissing(r.id) ELSE rows' = rows
       /\ Onward(s, [scan[s] EXCEPT !.gone = @ \ {r}])

-----------------------------------------------------------------------------
(* The process ends and starts again; files come and go by other hands *)

\* Pending uploads are resumed or cancelled, what ran is lost
Crash ==
  /\ Happens("fault")
  /\ pending' \in {pending, {}}
  /\ task' = NoTask /\ landing' = NoLanding /\ scan' = [s \in Scanner |-> NoScan]
  /\ UNCHANGED <<enabled, keyed, files, rows>>

Outside ==
  /\ Happens("fault")
  /\ \E l \in enabled, b \in Content \cup {None} : Becomes(l, "file", b) /\ files' # files
  /\ UNCHANGED <<enabled, keyed, rows, pending, task, landing, scan>>

\* A running task is cancelled: its next statement or request fails, and it returns
CancelTask ==
  /\ Happens("fault")
  /\ task.at \in {"catalog", "open", "expect", "record", "place", "delete", "scan"}
  /\ task' = NoTask /\ scan' = [scan EXCEPT !["asked"] = NoScan]
  /\ UNCHANGED <<enabled, keyed, files, rows, pending, landing>>

\* A pending upload is cancelled before it is processed
CancelUpload ==
  /\ \E p \in pending : pending' = pending \ {p}
  /\ UNCHANGED <<enabled, keyed, files, rows, task, landing, scan, happened>>

TaskStep ==
  \/ Catalog \/ OpenDownload \/ EndDownload \/ Promote \/ Expect \/ Record
  \/ Hash \/ Discard \/ Transfer \/ DropSource \/ Place \/ Remove \/ Delete

ScanStep(s) ==
  ListFiles(s) \/ ListRows(s) \/ Visit(s) \/ RecordFound(s) \/ Settle(s)

Next ==
  \/ StartDownload \/ StartHcl \/ StartTransfer("move") \/ StartTransfer("copy") \/ StartDelete
  \/ StartScan \/ (\E p \in pending : StartUpload(p)) \/ TaskStep
  \/ StartLanding \/ LandingStep \/ CancelUpload
  \/ StartAutomatic \/ \E s \in Scanner : ScanStep(s)
  \/ Crash \/ Outside \/ CancelTask

Spec == Init /\ [][Next]_assetVars

\* Executors and handlers return, and the scan interval is not zero
Fairness ==
  /\ WF_assetVars(TaskStep) /\ WF_assetVars(LandingStep)
  /\ WF_assetVars(StartAutomatic) /\ \A s \in Scanner : WF_assetVars(ScanStep(s))

FairSpec == Spec /\ Fairness

-----------------------------------------------------------------------------
(* Properties *)

\* Rows are well formed, one for each identity
TypeOK ==
  /\ rows \subseteq Row
  /\ \A r, q \in rows : r.id = q.id \/ <<r.loc, r.name, r.kind>> = <<q.loc, q.name, q.kind>> => r = q
  /\ files \in [Location \X Name -> Bytes \cup {None}]

\* Every file a scan lists has a row with its hash, every row that says so has its file
Agree ==
  /\ \A l \in Location, n \in Name :
       files[<<l, n>>] # None /\ (keyed \/ n = "file") =>
         \E r \in rows : r.loc = l /\ r.name = n /\ r.exists /\ r.sha = files[<<l, n>>]
  /\ \A r \in rows : r.exists => files[<<r.loc, r.name>>] # None

\* Whatever raced, was cancelled or cut off, the rows come to describe the files (ScanLocation).
Converges == []TypeOK /\ <>[]Agree

\* "RemoveOrphaned deletes rows whose file is gone AND that carry no hash expectation
\* (expectation rows always survive as exists:false)" (scan.go:18-20): so it is of the rows the
\* scan removes.
ScanRemovesGone ==
  [][(\E s \in Scanner : Settle(s)) =>
       \A r \in rows : r.id \in Ids(rows')
                       \/ (files[<<r.loc, r.name>>] = None /\ r.expected = None)]_assetVars

\* A row that says its file is verified has the hash of that file
RowsTrue == <>[](\A r \in rows : r.exists => r.sha = files[<<r.loc, r.name>>])
=============================================================================
