# Hyperweaver agent: TLA+ models, checks and proofs

The agent (Go, `main.go` and `internal/`) manages the virtual machines of one
host.  An HTTP API accepts requests; almost everything that changes a machine
becomes a row of the task table, which a queue executes one at a time per
machine.  Around the queue stand the machine registry and its reconciler, an
event stream, terminals, artifact storage, provisioners, monitoring, and an
OpenID Connect client.  This directory models the parts whose correctness
depends on order: who does what before whom, what a crash interrupts, which
value is stale when it is used.

## Inventory

The components, their state, and what has to be true of them.

| Component | State | Operations | Must hold |
|---|---|---|---|
| Task store (`internal/tasks/store*.go`) | the `tasks` table of `tasks.sqlite` | Create, NextPending, MarkRunning, Finish, CancelPending, CancelDependents, Requeue, SetDependsOn, Delete..., recovery at start | a statement is atomic (one pooled connection, `internal/db`); nothing is atomic across statements |
| Task queue (`queue.go`, `parent.go`) | `running`, `categories`, `processing`, one loop goroutine, one goroutine per running task | tick, executeAndHandle, Cancel, updateParentProgress, Start, Stop | one task per machine and per category, the concurrency cap, execution at most once, predecessors first, every task ends, anchors end with their children |
| Task output (`output.go`) | live buffers, debounce timers, the output column | Write, flush, Finalize, GetOutput | the stored output is the whole output once the task is over |
| Event stream (`server/events.go`) | replay ring, subscribers with a backlog, topic counts | publish, subscribe with Last-Event-ID, unsubscribe | a client that resumes has every event or a reset |
| Hub stream (`server/inbox_hub.go`) | the running stream's cancel, a live flag | sync, run, end | a stream runs exactly while it is wanted; the flag says so |
| OIDC tokens (`oidc/tokens.go`) | access and refresh token, refresh loop, resource cache | set, resume, refresh, clear, tokenFor | a signed-in account stays signed in; an ended grant leaves nothing usable |
| OIDC sign-in (`oidc/client.go`, `code.go`, `binding.go`) | pending flows, the bound account, the account and tokens of every minted key | device, code and silent flows, mint, prune, status polls | one key per sign-in, handed over once; nothing stays of a removed key |
| API keys, sessions, tray tokens (`keys`, `auth`) | JSON files and their copy in memory | create, verify, revoke, delete, prune, claim | the last admin survives; a revoked key opens nothing; a token is used once |
| Machine registry (`machines/store*.go`) | the `machines` table | upsert, create, set configuration, server ids | discovery never overwrites what the user wrote; server ids are unique |
| Reconciler (`machines/reconcile.go`) | none of its own; a periodic task | one sweep: upsert, delete orphans, mark missing, cancel their tasks | an existing machine is never removed; a gone one is, one sweep later |
| Snapshot rotation (`machines/snapshot_rotation.go`) | a ticker | due tiers, dedup, queue, prune | one scheduled take at a time; a prune spares what the retention keeps |
| Orchestration (`server/machines_*.go`) | task rows, accrued edits | create and provision chains, start/stop/restart, edits that wait for a power cycle | a chain runs in the document's order; no answered edit is lost |
| Box templates (`machines/templates*.go`) | template rows, images, the clone base beside an image | lookup, download, move, delete, creates that link from the base | a base stays while a disk links from it; rows and images agree |
| Asset storage (`assets`) | artifact and location rows, files | upload handshake, scan, ingest, registry sync | rows and files agree |
| Configuration engine (`configengine`) | documents in memory and on disk | merge-patch save, restart list, backups | what is served is what is saved |
| Provisioners (`provisioner`) | a directory tree | import, seed, catalog, field DSL | pure functions with a definition each |
| Monitoring (`monitoring`) | sampler goroutines, sample tables | start and stop with subscribers and settings | one sampler while somebody listens |
| Terminals (`server/*terminal*.go`, `terminal_link.go`) | sessions with attached sockets | open, attach, detach, close | a session closes once, its events come in order |
| Agent lifecycle (`main.go`, `server/settings.go`) | processes, two ports, the databases, a secret | launch, handoff, restart, quit | one agent works at a time, and one remains |

How they interact: handlers and executors call the store and the queue
directly; the queue calls back executors and the `OnTaskChange` publisher;
the reconciler and the snapshot rotation run as tasks or tickers and write task
rows; the event hub fans out what they publish and wakes the live sampler and
the hub stream when a topic gains or loses its last subscriber; the hub stream
uses the OIDC tokens and can end the grant.

What is hard: the queue reads shared state under `q.mu`, releases it, performs
SQL statements, and takes it again; Cancel, Stop, the reconciler and the
executors write the same rows without a lock between them; the process may die
at any statement.  `PROJECT.json` lists every hazard found, each at its line,
with the properties that cover it, or why none does.

## Modules

| Module | What it is |
|---|---|
| `TaskStore` | the task table: status, depends_on and insertion order of every row, one operator per SQL statement, and the queries that decide (`IsNextPending`, `Doomed`, `Tally`) |
| `TaskQueue` | the queue over the store: poll loop, executors, Cancel with its cascade, parent rollup, the other writers of the table, Stop, process exit, start.  Also the properties |
| `ExclusiveDispatch` | the abstract specification: what an executor may rely on, in two variables |
| `MCTaskQueue` | the workloads the configurations choose from |
| `TaskQueueProofs` | type correctness of `TaskQueue`; the inductive invariant of dispatch, exclusion, the cap, at most once, and the refinement |
| `TaskOrderProofs` | that no row stays running without an executor, and that tasks run in order |
| `TaskOutput` | the output of one task: writers, debounced flushes, Finalize, a stream that follows |
| `HubStream` | the identity provider's notification stream, on while somebody listens |
| `LiveSampling` | the shared sampler, on while somebody listens, at the saved interval |
| `Terminals` | host and SSH sessions, their shells, watchers and sockets |
| `MCStreams` | the four above in one state space |
| `StreamsProofs` | the safety of the four: the stored output, one hub stream, one sampling loop, sessions that end once |
| `EventHub` | the event stream: ids, ring, subscribers with bounded channels, a client that resumes |
| `OidcSignIn` | the device, code and silent flows, the key each mints, and what is kept beside the keys |
| `MCClient` | a client of the agent: its sign-ins and its event stream |
| `ClientProofs` | that every event a client processes is the oldest owed to it; that a sign-in mints one key, and nothing of a removed key stays |
| `OidcTokens` | the bound account's tokens: sign-ins, refresh goroutines, the token file, the provider |
| `OidcTokensProofs` | that a refresh token is kept as long as it is of use, and the file in step with it |
| `BoxTemplates` | the local copy of a box: row, image, clone base, and the machines whose disks link from the base |
| `BoxTemplateProofs` | that a clone base in use stays and that lookups drop stale rows only, each under its condition |
| `MCProviders` | `OidcTokens` and `BoxTemplates` in one state space |
| `MachineRegistry` | the machines table beside VirtualBox: sweeps, probes, deletes, the create chain |
| `ConfigStore` | the configuration engine and the typed view over it |
| `KeyStore` | keys, the verification cache, sessions and tray tokens |
| `AgentHandoff` | processes that hand ports and databases to one another |
| `MCAgent` | the four above in one state space |
| `AgentProofs` | the safety of the four: one agent at a time, removed keys refused and claims reaped within bounds, configuration in agreement, rows, VMs and landed creates in agreement |
| `SnapshotRotation` | scheduled snapshots of a machine and their prune |
| `PowerCycle` | power requests of a machine and the edits that wait for its next power cycle |
| `ProvisionChain` | the plan of a provisioning run and its execution up to the stamp |
| `MCUpkeep` | the three above in one state space |
| `UpkeepProofs` | that scheduled snapshots and their prune keep to the policy, that no edit is lost, that boots and stops keep their promise, that a provisioning run keeps its order and stamps last |
| `AssetStore` | the files of the storage locations and the rows that describe them |

The composed modules put components side by side that share no state.  A
variable `scene`, chosen at the start, says which one plays; the others stand
still in an initial state.  The state space is the sum of the parts', not their
product, and a run answers for a part of the system rather than for one file.
Where two components do meet, the module of one has the other as actions of its
own: the reconciler's cancel is `Prune` of `TaskQueue`, the hub stream's use of
a token is in `OidcTokens`, the queue's order is in `PowerCycle` and
`ProvisionChain`.

### TaskStore and TaskQueue against the code

A step of the model is one SQL statement, one critical section of `q.mu`, or
one choice of the environment.  Between two steps a goroutine keeps a program
counter, so that every interleaving the locks permit is a behaviour.

*The tick* (`queue.go:249-326`) is `Tick` (capacity and busy machines, under
the lock), `Sweep` (CancelDependents), `SweepRollup` (a rollup per parent of a
cancelled task), `Pick` (NextPending with the busy set read earlier), `Gate`
(the category test, a second critical section), `Mark` (MarkRunning) and
`Admit` (the third critical section and the goroutine).  `TickFails` is a
statement of it returning an error.

*An executor* (`executeAndHandle`) is `Decide` (the executor returned; its
error, the cancelled flag and the cancel context give the status), `Record`
(Finish), `Release` (locks and entry) and `Report` (the parent's rollup).

*updateParentProgress* runs inside whichever goroutine called it: `rollup[a]`
is the position of actor `a` in it, `CountChildren` and `FinishParent` its two
statements after the first read.

*Cancel* (`parent.go:29-107`) is one caller's stack of cascades: `Cancel`,
`Reread`, `Flip`, `Kill`, `Close`, `ListChildren`, `Cascade`, `CancelRollup`,
`Return`.  What the API answered the caller is kept in `answer`.

*The rest*: `NewTask` inserts a row whose parent and predecessor exist; `Land`
is an upload whose bytes arrived; `Chain` and `ChainSet` are the wait_for of a
create; `Prune` the reconciler's cancel; `Clear` and `Retire` the deletions;
`Stop`, `Exit` and `Boot` the end of the process, orderly or not, and
`Queue.Start` with its recovery statements.

Abstracted: a task's immutable columns are functions of its id, so a
configuration is a workload.  Output, progress, metadata and error columns, the
events published and the log are left out, since the queue decides nothing on
them.  What an executor does to a machine is one step with any outcome.  Time
is absent: the retention cutoff is any place in the order of insertion, Stop's
five seconds any moment.

### EventHub against the code

A step is one section under `h.mu` (`Publish`, `Subscribe`, `Shutdown`), one
frame that reaches its client (`WriteReady`, `WriteReset`, `WriteReplay`,
`WriteLive`), or the end of a connection: `HandlerReturns` after the hub closed
the channel, `Break` when the connection is lost with everything the client had
not processed.  `Restart` is a new process with an empty ring and a new `floor`.

`log` holds every event ever published, and an event is told by its place in it:
a channel is a sequence of places, and `kept` says how many of the last places
the ring still has, so trimming (by count and by age) is a choice of `kept` no
lower than `RingMin` unless nothing was dropped.  The opening of a connection is
the ids of its ready and its reset frame, 0 for none, and the set of places that
are replayed in order.  Its `feed` is closed once the hub has closed its channel;
what the channel holds is read first.  Topic and recipient of an event, matched
with a subscription, come down to the set of clients it reaches.  `last` is the
client's Last-Event-ID.  `owed` is history: what a client that has seen its
first ready must still get; a reset settles what is older.

Abstracted: the socket's buffer is part of the channel; heartbeats and the
content of frames are left out, and so are the topic counts, whose callbacks
read the count again and belong to the sampler and the hub stream they wake.
Ids are assumed to grow from one process to the next (the clock is not set
back).

### OidcTokens against the code

A step is one section under `t.mu`, one write of the refresh token file (the
code writes it after giving the lock back), or one answer of the provider.  A
sign-in is `SignIn`, `SignInPersist`, `SignInStart` (`set`, then
`startRefreshLoop`); a refresh goroutine is `LoopRead`, `Renewed` or
`Unanswered`, `Accept`, `LoopPersist`, and `InvalidGrant`, `LoopErase` when the
provider refuses; the hub stream is there as far as it opens under an access
token and calls EndGrant.  `Exit` and `Boot` are the end of the process and
`New` with `resume`.

The provider is external and modelled by what the code relies on: one refresh
token of a grant is valid at a time, it may be rotated by any refresh, also by
one whose answer is lost, and a grant may end.  A goroutine that is started takes
any name of `Goroutine` that is not in use (`Spare`); a bound on the names is a
bound on how many work at a time.  `patient` is chosen at the start: a patient account signs in only when the agent does nothing for an older
grant; an impatient one whenever it likes.  Resource tokens and their cache are
left out.

### OidcSignIn against the code

A step is one section under `c.mu`, `b.mu` or the key store's lock, or an answer
of the identity provider.  A sign-in begins (`Start...`), its code comes back
through the callback, a pasted code or a poll, and a worker takes it through
exchange, key, prune, record, forget, tokens, persist and settle, in the code's
order.  `Expire`, `Overdue` and the sweep of old flows are the deadlines.
`excused`, `cutOff` and `missed` are history: keys written for after their
removal, keys whose sign-in a restart cut off, approvals the deadline took.

Abstracted: the provider's answer and the test of `allowed` are one step; every
key is a minted one and none the last active admin; `mintedKeysKept` is scaled
down.  An earlier sign-in may have bound the agent.  The token source's
goroutine and the bound account's tokens are `OidcTokens`; failed writes of
`oidc.json` and the validation of presented tokens are out.

### TaskOutput, HubStream, LiveSampling and Terminals against the code

A step is one section under the component's mutex, one statement, one callback
or one frame.

*Output*: chunks are numbered, so a buffer is the number of its last chunk.
`Fire`, `FlushCopy`, `FlushStore` are the timer, the copy under the lock and the
write after it.  The stream's callback runs on the writer's goroutine and waits
for room in a channel of `Room`.  `prompt` says that Finalize does not overtake
a flush.  When it does, the flush's older copy lands last and the stored output
of the finished task lacks its end.

*Hub*: `Sync` compares what is wanted with `hub.cancel`; a run opens, reads,
drops and sleeps, or ends; `live` is written by a deferred function.  `spaced`
says that a cancelled stream has ended before another starts.

*Sampling*: a call of `syncLiveSampling` holds `liveMu` while it stops a loop,
waits for it and starts another.

*Terminals*: a socket enters, dials, attaches and leaves; a session starts, is
stopped, ends idle, or with its shell.  A double close is a panic, after which
nothing happens.  `gentle` says that no session ends while its shell opens.

### MachineRegistry against the code

A step is one statement on the machines table, one VBoxManage call, or the start
or end of a task of the create chain.  A sweep lists, inspects the VMs in any
order, upserts, deletes what two sweeps missed, and marks.  `outside` is chosen
at the start and says what happens behind the agent's back: VMs come and go
(`calm`), are also renamed, a probe or a listing fails (`faulty`; it turns to
`cleared` when VirtualBox recovers), or creates run instead.  `missed` is a
history of the calm world: how many sweeps in a row found a VM gone, at the
listing or at the visit; `GraceKept` compares it with what a purge removes.

Creates of one name overlap as in the code: the request looks at row, hypervisor
and directory, and queues.  A create that had another of its name under way beside
it is marked `crossed`; `LandedWhole` speaks of those that were not, whatever an
earlier create of the name left behind when it failed or was cancelled.

Abstracted: a row's identity is told by `by`, the create that wrote it, and by
its VM; a server id belongs to one name; sweeps of an import are there in the
faulty world only; the second hypervisor and the documents that discovery merges
are out.

### ConfigStore, KeyStore and AgentHandoff against the code

*Configuration*: a file is two values, one that acts at once and one that waits
for a restart; a writer writes its number.  `Bak`, `WriteFile`, `WriteFails` run
under the engine's lock; `Tell` is the hook outside it, which reads the files
one by one (`ReadFile`) and assigns the typed view in one step (`Refill`).
`apart` says that requests do not overlap.  What the boot writes back is out.

*Keys*: a key is its id, a session handle is the request that opened it.
`Present` copies the keys, `Match` is the result of the comparison outside the
lock.  Tray grants bound to an account are out.

*Handoff*: launches find a listener and ask, a restart spawns a copy that is
held at the door until `released` is closed.  Listening and serving are one
step; requests that are only forwarded change nothing and are left out.

### SnapshotRotation, PowerCycle and ProvisionChain against the code

*Rotation*: one machine under one policy.  The service lists pending takes, then
running ones, then inserts; an operator takes, deletes and cancels meanwhile.
The queue runs one task of the machine at a time in any order.  Every tier has
the same retention.  Every take may ask for quiesce.  `Freezes` has three outcomes: the
guest does not freeze; it does (`held`), and the take tells it to thaw, which may
fail; or the answer to the freeze is lost (`left`), and nothing thaws it.

*Power*: a handler is a list of steps, each a question to the hypervisor or a
statement; the executor of the chosen task is at a place of its code.  The
highest priority runs first, then the oldest.  An edit is the request that made
it.  `QueueApply` may fail, as the INSERT and the marshal may: the start is then
queued behind nothing, and boots without the edits, which stay pending.  `apart`
says that no PUT or DELETE of edits runs beside a request or an apply.  The delete
request is out.

*Provisioning*: `chain` is what the planner made of the document, row by row
with the predecessor of each; the rows are inserted one at a time while the
first already run.  A row is its position.

### BoxTemplates against the code

A step is one statement, one file operation or one call of VBoxManage.  The
queue runs one template task at a time (they share a machine name); lookups of
handlers and of creates run beside it without a lock.  A lookup is three steps:
`Read`, `Stat`, and `DropStale` when the image was not there.  A delete passes
the children gate, then removes base, image and row; a move renames, or copies
and removes the source, then updates the row and leaves the base where it is.  A
create looks the box up, finds or clones the base, makes it multiattach, and in
its config step attaches to it; `HasChild` stands for `stampDifferencingChild`,
which fails the create when the base is not multiattach.  A child that a failed
create left is in `orphan`; the sweep of a create and the gate of a delete try to
remove it, and a failure is narrated: `Sweep` leaves it, or, after a delete, makes
it `refused`, and the delete goes on to close the base or remove its file.
`LinkedBaseStays` lets such a child lose its base, since the code does.  A listing
that fails ends the delete and skips the sweep of a create.

`ordered` is the environment that the two properties need: no move beside a
lookup, and no attach between the gate of a delete and the removal of the base.
Abstracted: the box has one version, and an image is there or not; a copy that
fails half way ends like a crash; copied boot disks share nothing with the
template and are out.

### AssetStore against the code

A step is one file operation or one statement.  One artifact task works at a
time, which `TaskQueue` shows for tasks of one machine name and one category;
the automatic scan and the handlers that land an upload or register a host file
work beside it without a lock.  A stream is written as `.tmp` and renamed; a
copied file appears in one step; hashing reads a file at one moment.

Transfers play in two locations whose names are filtered, every other task in
one location of either sort, since a scan of one location never looks at
another.  `MaxEvents` bounds how many of a task, a landing and a fault there
are, one of each at most; the automatic scan goes on for ever.  The thirty
minutes a scan may take, the registry sync with its seeded expectations, and
the locations' own rows are out.

## Runs

Every bound is a constant of the configuration.  In the queue runs it is the
tasks of a workload, one API caller at a time inside a Cancel or a wait_for
(inserts, deletions and uploads are single statements and interleave freely with
it), and the numbers of process exits (`MaxExits`) and failing statements
(`MaxFaults`).  The queue treats tasks alike but for the columns a workload
sets, so a property needs as many tasks as it relates: two for the exclusions,
three for the cap of two, a parent with two children for the rollup, a chain of
two for the predecessor.  Elsewhere it is the number of requests, goroutines and
things that go wrong once.

| Run | Asks | Why these bounds |
|---|---|---|
| `queue_exclusion` | do executors ever share a machine or a category, exceed the cap, or disagree with the queue's maps | four tasks: two share a machine, two a category, the fourth shares nothing, cap two, so that each rule is the binding one somewhere; one is cancelled at every point, another chained at every point |
| `queue_chain` | does anything run twice, stay running, or run early, and does the queue implement `ExclusiveDispatch` | anchor, child and the upload the child waits for, resumable, with every other writer of the table, Stop, one exit and one failing statement: a crash or an error at every step, followed by a full life |
| `queue_settles` | does every task and every anchor end, under fairness | anchor with two chained children: a failure, a cancel, a stop or a crash at each point must reach the second child and the anchor; no deletion, no reconciler (see below) |
| `streams` | is the stored output whole, does a stream end and hold nobody up (`OutputStored`, `OutputStreamEnds`); is there one hub stream and one sampler, as wanted in the end (`HubOneStream`, `LiveConverges`); does a session end once and take its shell and sockets along (`TerminalEndsOnce`) | two of whatever can be confused: writers, flushes, sampling loops, sockets; three runs of the hub stream, so that one that ends late has a successor and that one too; a channel with room for one |
| `events` | does a client get every event once and in order, or a reset, and get them in the end (`Delivery`, `CaughtUp`); does a sign-in mint one key, hand it over in time and settle, and does nothing of a removed key stay (`SignInCompletes`, `SignInLeavesNothing`) | a ring of one entry and a channel of one frame, three events: overflow, trimming, replay and reset each happen, also one after another, with two lost connections, a shutdown and a restart; two sign-ins of any kinds of which one key is kept, two accounts, one deletion, refresh or restart |
| `providers` | is a grant kept, an access token renewed, an ended grant put out of use, and does the file follow (`TokensInStep`, `GrantKept`, `AccessReturns`, `EndedGrantUnused`); does a clone base outlive the disks that link from it (`LinkedBaseKept`), and does a box that is pulled come back whatever a lookup dropped (`TemplateReturns`) | two sign-ins (an old grant and a new one are what can be confused), a goroutine for each and one for the restart, one rotation, one lost answer, one exit; two machines, or one and a request that looks the box up, two roots, and two of deletes, moves, removals by hand, files that stay and crashes: a row that was read can be gone and have a successor |
| `upkeep` | is there one scheduled take, and a prune within its retention (`SnapshotRotationSingle`); is an answered edit kept, and a boot only with its edits (`PowerEditKept`, `PowerBootsApplied`); does a run keep the document's order and stamp last (`ProvisionDocumentOrder`, `ProvisionStampLast`) | a calendar in which every tier fires within six minutes; three requests, enough for an edit, a start and a stop that overrides it; every shape of document the planner tells apart, with two folders in a bracket |
| `agent` | are rows and VMs one to one, and does the registry come to tell the truth (`RegistrySafe`, `RegistryConverges`); do files, cache, view and restart list agree (`ConfigAgrees`); is a removed key refused, and are keys reaped within bounds (`KeysAccepted`, `KeysReaped`); is there one agent (`HandoffOneServer`) | two VMs of others and two creates over three names, so that names are exchanged, and four things that happen outside, so that a VM can vanish, come back and vanish again between the steps of one sweep; three requests of which two overlap, one fault; three processes: one that serves, its copy, and a launch beside |
| `library` | do the rows come to describe the files, whatever interleaves with the scans (`Converges`) | one artifact task of every kind, a landing beside it, two contents and two of the task, the landing and a fault |

The queue runs check deadlock: an idle queue keeps ticking, and a stopped one is
started again, so no reachable state is without a successor.  The others do
not: once the bounded requests, events and exits are used up, nothing has to
happen any more.  A type invariant is part of the first property of its module.

### Findings

Three runs expect a violation.  Each checks a sentence of the repository that
the code does not keep; `PROJECT.json` quotes it.

| Run | What happens |
|---|---|
| `claim_sign_in` | `EndGrant` and the loop's `clear` wipe whatever is held: after the provider ended a grant and the account signed in again, the session-terminated that the old grant's stream still has to read clears the new sign-in's tokens (the trace); an invalid_grant answered late to the old grant's goroutine does the same |
| `claim_handoff` | a restart answers its successor beside the goroutine that closes the listeners; the successor finds the port taken and exits, then the old process exits too |
| `claim_cancel_run` | cancelling a provisioning run does not reach the folder tasks of a bracket, which name the sub-parent; they run |

More statements fail.  They stay in the modules as definitions, so that a
configuration can name them, next to the weaker property that holds and that a
run checks.

| Definition | How it fails |
|---|---|
| `TaskQueue!CancelledDoesNotExecute` | a Cancel between the tick's pick and its MarkRunning answers that the task is cancelled; MarkRunning has no status guard and the task executes |
| `TaskQueue!RequestedLandsCancelled` | a Cancel after the executor read its flag and before its entry is removed is answered and lost |
| `TaskQueue!AnchorFinishesLast` | a child that ends before its sibling is inserted completes the anchor |
| `TaskQueue!EveryTaskSettles` with `Deletion` | deleting finished tasks removes the predecessor a pending task waits for; it then waits for ever |
| `TaskQueue!EveryTaskSettles` with two crossed wait_for | two creates that chain each other's downloads in opposite orders wait for one another |
| `TaskQueue!AnchorSettles` with `Prunable` | the reconciler cancels an anchor's last child without the rollup; the anchor stays running |
| `TaskOutput!StreamCloses` | a stream opened while the task is pending subscribes before there is a session, and is never told of the end |
| `EventHub!ReplaysEveryLater` | the ready frame carries the newest id and goes out before the replay (or the reset); a client whose connection is lost in between resumes after events it never got |
| `HubStream!LiveFollows` | a cancelled stream's deferred write clears `live` after its successor has set it |
| `Terminals!EndedOnce` | a session stopped while its shell opens, or before its watcher looks at the shell, is ended twice or watched without a shell: the agent panics |
| `OidcSignIn!LaterRefused` | two first sign-ins that overlap are both admitted: `allowed` reads the binding before either is on record |
| `OidcSignIn!EveryKeyDelivered` | a key minted as the deadline passes is collected by nobody, and stays until later sign-ins prune it |
| `MachineRegistry!OrphansGone` | a VM renamed between a sweep's listing and its visit is stored under the old name; later sweeps find the row by the VM's id and flag it all the same, since they compare names |
| `MachineRegistry!RenamesConverge` | a row keeps its name while a VM matches it: a VM renamed to the name of a row whose VM is gone keeps that row among the seen for ever, since sweeps compare names |
| `MachineRegistry!EveryLandedWhole` | a second create of a name is accepted while the first has no VM and no row yet; its `clearStaleMedium` removes the disk of the first one's machine, which has landed meanwhile |
| `MachineRegistry!CreateLands` | a sweep imports the VM before its create lands the row, and the create fails on the row it finds |
| `ConfigStore!RestoreWhole` | a restore validates and writes file by file; refused at a later file it has written the earlier ones |
| `ConfigStore!ViewAlwaysFollows` | overlapping requests refill the view from different moments |
| `ConfigStore!ListSurvivesFailedRestart` | the restart list is emptied before the successor is spawned; a spawn that fails leaves it empty |
| `KeyStore!AdminAlways` | the reaper asks of each victim by itself whether it is the last active administrator; three claims that overlap, the newest key revoked, and the next prune removes the other two together (four requests; the run `agent` has three) |
| `KeyStore!FirstKeyOnce` | two bootstraps that overlap both find no key |
| `KeyStore!MemoryIsDisk` | a deletion or a prune whose write fails is not rolled back; the key is back after a restart |
| `AgentHandoff!SuccessorAlwaysWaits` | an agent without its second port (below) has no door for its own copy, which opens the databases beside it |
| `AgentHandoff!KeysCurrent` | keys are read before the release; a key the leaving agent creates afterwards is not in its successor |
| `AgentHandoff!SecondPort` | an agent launched while another leaves finds the first port free and the second taken, and serves without it |
| `BoxTemplates!LinkedBaseStays` | a create attaches to the clone base after the delete has listed the machines that link from it; the base is closed or its file removed, and the machine boots from a disk without its parent |
| `BoxTemplates!DropsOnlyStale`, `MoveKeepsRow` | a lookup beside a move finds no image where the row it read says and deletes the row; the move's update then finds none, and the image lies where nobody looks |
| `SnapshotRotation!OthersKept` | the retention branch of the prune deletes any surplus name with the prefix, also one whose suffix does not parse |
| `PowerCycle!EditApplies` | an edit answered while a DELETE is under way is dropped with the others and not named; a PUT beside an apply writes back a document it read before |
| `PowerCycle!EveryStopOverrides` | a stop of a machine that is off at its probe is answered before it looks for the queued starts, which then run |
| `PowerCycle!OneStart` | two starts that overlap both find no start to reuse |
| `ProvisionChain!BootIncluded` | a row that still says running when the machine was powered off plans a run without the boot |
| `AssetStore!ScanRemovesGone` | a row that is given an expectation, or whose file arrives, after the scan has listed it is deleted |
| `AssetStore!RowsTrue` | a file replaced by another of the same size keeps the hash of the old one (with `SameSize = TRUE`) |

What remains true is checked: `Gapless` holds when no connection is lost while
it opens, `GrantKept` and `FileFollows` for a patient account, `StoredComplete`
where no flush is overtaken, `GentleEndedOnce` and so on.  After an impatient
sign-in the file may keep the token of an ended grant, which the next start
tries, is refused, and erases: `EndedGrantUnused` says that this comes to an end
too.

### Fairness

In `TaskQueue`, `FairSpec` asks for weak fairness of the loop, of each executor, of each actor
inside a rollup, of each caller inside a Cancel, of the exit that follows a
Stop, and of the next start.  Goroutines are scheduled, the ticker ticks,
statements return, executors run under deadlines or their context, `Stop` is
called only on the way out of the process (`main.go`), and the service manager
starts the agent again.  No request, no deletion and no upload is forced.
Executors returning is the one assumption that concerns code outside the
queue.

In `EventHub` handlers run, clients read and come back (the stream tells them
when to retry), and a server that shuts down is followed by the next process;
nobody has to publish, and connections are lost `MaxBreaks` times at most.  In
`OidcTokens` goroutines run, waits end, the provider answers all but `MaxLost`
requests, access tokens expire and a stopped agent is started again; nobody has
to sign in, to end a grant or to open the stream.  In `OidcSignIn` deadlines
pass, goroutines go on, an exchange is answered or times out, and an approval is
collected; nobody has to ask for a flow that is pending, and the provider may
answer no poll.

In `MCStreams` a task that was picked runs to its end, flushes and callbacks
return, goroutines go on, and a connection whose context is cancelled ends.  A
call that stops a loop waits for it to return; the loop's select may prefer its
ticker to the closed channel, though not for ever: hence the strong fairness of
`Return` in `LiveSampling`.  In `MachineRegistry` sweeps come every interval and
end, tasks of the chain and deletes run, and VirtualBox recovers; in
`AgentHandoff` a process goes on with its steps.  In `BoxTemplates` the task, its
lookup and those of others take their steps, the box is pulled again and again,
and not every pull fails (strong fairness of `Fetch`).  In `AssetStore` executors and
handlers return and the scan interval is not zero.

In a composed module each fairness condition concerns an action that only its
scene enables, so it asks for nothing elsewhere; `MCProviders` states the conditions of
`BoxTemplates` with the scene, because a download may start in any idle state.

## Proofs

Of the queue TLAPS checks the following for every workload, cap and bound; the only
assumptions are `WorkloadAssumption` and `QueueAssumption`, which say that the
constants have their types, the tasks are finite and anchors are not uploads.

* `TypeCorrect`: `Spec => []TypeOK`.  `TypeOK` is inductive by itself once it
  says that a recording executor has an outcome, that a reporting one has a
  parent and that a caller in a rollup has one.
* `DispatchCorrect`: `Spec => []DispatchInv`.  Exclusion is not inductive: the
  busy set is read long before the task it selects is admitted.  What makes it
  hold is that only the loop adds to `q.running`, so what a tick saw stays an
  upper bound while executors only leave.  `DispatchInv` says this (`Snapshot`),
  that the maps and the goroutines agree (`Locks`), and that a task that was
  started has left the statuses it can be picked from (`Once`), with the row the
  loop holds as the one exception to be carried through Gate, Mark and Admit.
* `MachinesExclusive`, `CategoriesExclusive`, `CapacityRespected`, `LocksAgree`
  and `ExecutedAtMostOnce` follow from it.
* `QueueImplementsDispatch`: `Spec => Dispatch!Spec`.  `Admit` is a Start,
  `Release` an End, `Exit` the end of the process, every other step a stutter.
* `NoRowOrphaned`: `Spec => []NoOrphanRunning`.  `OrphanInv` adds that an
  executor about to give its locks back has ended its row.  The statements come
  down to one lemma: none but MarkRunning makes a task running.  Anchors are the
  exception the property names, `faults = 0` the other.
* `PlainInOrder`: a task executes only once its predecessor is over, if its
  predecessor is the one its INSERT named, has no children, and no request chains
  the task behind another later.  A row the loop has picked may be chained anew
  before it is marked, and a rollup completes a parent whose own executor never
  ran: such tasks are not `Plain`.  `OrderInv` says that for plain
  tasks the predecessor stays the one of the INSERT, that a completed task without
  children was executed, and that what the loop has chosen has a predecessor that
  is over; over is stable, since no statement takes a row back from completed or
  cancelled.  `TasksInOrder` is `PredecessorOver` for a workload of plain
  tasks, which the workload of `queue_chain` is.

Of the box templates it checks, for any machines, roots, rows and number of
incidents, from `BoxAssumption` (the library is a root, the task's lookup is no
machine and not the handler, None is not a value):

* `BaseInUse`: `Spec => []LinkedBaseKept`.  That a linked base stays is not
  inductive, because a delete lists the holders in one call and closes the base
  in a later one.  `BaseInv` adds that a delete which goes on to the base has
  nobody linked to it (`Unlinked`), which holds while no create attaches in
  between; `Shape` has the types, and that a create about to finish has its link.
* `StaleRows`: `Spec => StaleRowsOnly`.  A reader acts on a row it read two steps
  before.  `LookInv` says that ids are not used again (`IdsInv`, what
  AUTOINCREMENT is for), that a pull makes a row only after it found none
  (`WorkerInv`), and that without a move beside it a row that was read is where it
  was read, and without an image once that was missed (`ReadInv`).  A new image
  appears only while there is no row, and a new row gets an id nobody has read.

Of the event stream it checks, for any clients, ring, backlog and numbers of
events, breaks and restarts, from `HubAssumption` (clients are finite, ring and
backlog hold one at least):

* `StreamTypes`: `Spec => []TypeOK`; in particular no channel exceeds its backlog
  and the subscribers are the connections whose channel is open.
* `EventsDelivered`: `Spec => []Delivery`.  The property looks at the next frame;
  the invariant has to know every frame that will follow.  `HubInv` says that the
  log is in the order of its ids with the ring as its end (`LogInv`), and, where no
  connection is lost while it opens (`steady`), for each client: only its events
  are owed to it (`OwedInv`); without a connection they are what came after its
  last id, unless the next process will reset it (`ClosedInv`); replay and channel
  bring the oldest of what is due, in order and without a repetition, and all of
  it while it is subscribed (`ComingInv`); and once its opening is written, what
  is owed is everything after its last id (`OpeningInv`).

Of the sign-ins, for any flows, accounts, number of kept keys, sign-ins and incidents,
from `SignInAssumption` (the bound on the incidents is a number; the sets may be
infinite):

* `NothingIsLeft`: `SceneSpec => []SignInLeavesNothing`.  The property looks at the
  moments when nothing is under way; in between a pruned key may still have its
  account, a source and a stored token.  `KeyInv` says who will take care of them:
  what is left of a removed key has a worker before its `record`, or for a source
  before its `forget` (`Dropping`); a key in the store has its account on record, a
  worker on the way to that, or a restart that ended its worker, and nothing is stored
  of a key that has no account on record (`Recorded`); and ids count up, so that a new
  key is none that a token was stored for (`Numbered`).
* `OneKeyEach`: the safety half of `SignInCompletes`.  `FlowInv` says that a flow has an
  unused state or one worker, never both and never two (`OneWorker`), that what was
  handed over is forgotten (`OneEach`), and that the status of a flow that is still
  being completed stays pending as long as there is time (`OnTime`).
  `SignInCorrect` has both invariants.

Of the tokens, for any sign-ins, goroutines, rotations, lost answers and exits,
from `TokensAssumption` (Empty is no token; the bounds are numbers):

* `TokenTypes`: `TokensSpec => []TokensTypeOK`.
* `TokensStayInStep`: `TokensSpec => []TokensInStep`, and `GrantStaysKept`:
  `TokensSpec => GrantKept`, an action property.  Both speak of a patient account; the
  file may lag while a write of it is under way.  `TokenInv` says that
  tokens are issued before they are held (`IssuedInv`), and for a patient account
  that one goroutine works at a time and none beside a sign-in (`SoloInv`), that
  all tokens are of one grant (`OneGrant`), that a stopped agent holds nothing
  (`DownInv`), that a token in memory has somebody who will renew or erase it
  (`WorkInv`), that what goroutines carry is what memory holds (`HandsInv`), and
  that without a lost answer or an exit the token in use is the provider's current
  one (`CurrentInv`).

Of the streams, for any writers, flushes, runs, loops, sessions and sockets, from
`StreamsAssumption` (the bounds are numbers, "none" is no run and no loop, a
session is of a machine or of the host).  Each part has its invariant, kept by
its own steps and untouched by the other scenes:

* `OutputKept`: `SceneSpec => []OutputStored`.  Added: there is a session just
  from Create to Finalize, nothing is written before it, and with `prompt` no
  flush holds a buffer once it is gone.
* `HubSingle`: the hub's types, `OneStream` and `SpacedLiveFollows`.  Added: with
  the runs spaced there is one at most.
* `LoopSingle`: the sampler's types and `OneLoop`.  Added (`SoleLoop`): the only
  loop is the one started last; it has not been told to stop while the sampler
  runs, and once told it is waited for before another starts.
* `TerminalsEndOnce`: the terminals' types, `GentleEndedOnce`, `NoLostShell`,
  `LatestReceives`.  Added (`SocketInv`, `LinkInv`, `SessionInv`): one socket at a
  time opens the shell of a session, and while it does the session is not over;
  a session that is over was ended once and has no shell; a shell has a
  watcher or its end is still to be seen.

The last three are the safety of `HubOneStream`, `LiveConverges` and
`TerminalEndsOnce`, whose other halves are liveness.

Of what keeps a machine going, for any requests, calls and documents, from
`UpkeepAssumption` (the calls are the ones `Plan` knows, the bound on what happens
outside is a number) and `RotationAssumption` (retention, age limit and bounds are
numbers):

* `SnapshotsRotate`: `UpkeepSpec => SnapshotRotationSingle`.  The tick lists twice and creates
  in a third step.  `ScheduledInv` says that what it has not met it will not meet
  while it goes on: no scheduled take waits after the first listing, none is left
  after the second, since nobody else makes one and a row that runs does not wait
  again.  For the prune `SnapExecInv` says of every doomed name that enough newer
  ones of its prefix exist (`MayGo`), and that without the doomed the retention is
  kept (`Remain`).  That the oldest goes first is what keeps the first true
  (`OldestGoes`); the second starts from a fact about counting (`Newest`): names with
  fewer than n newer ones are n at most.  Of the guest it says that a freeze that was
  answered is followed by the thaw call on every path out of the take; that the call
  succeeds nobody can promise.
* `EditsKept`: `UpkeepSpec => []PowerEditKept`.  The property looks at the edits; the
  danger is in the clear at the end of an apply, which drops what waits by then.
  `PowerInv` says that what a request has left is the end of its plan (`RestOf`),
  that it knows all edits that wait and is alone when it writes some, if requests
  stay apart (`Knows`, `Alone`), that an apply which will end with the clear carries
  all that waits (`RowInv`), and how far the executor has got with them (`ExecInv`).
* `BootsAndStops`: `UpkeepSpec => PowerBootsApplied`, an action property.  Added to the
  same invariant (`Covered`): the edits a start was chained behind (none if their
  task could not be queued) are set, or the modification before it will set them or has
  failed; and a stop has every start
  from before it on its list until it is cancelled.
* `DocumentsInOrder`: `UpkeepSpec => ProvisionDocumentOrder`.  `ChainInv`: the rows of a
  run are done, then at most one that runs, then what waits or was cancelled; a
  cancelled run has none of its own left.
* `PlansSound`: `UpkeepSpec => []PlanSound`.  The planner writes a walk and brackets and drops
  the entries that are no tasks.  With the walk's k-th task as the k-th position that is one
  (`RealAt`), a lemma about counting (`CountedOff`) says that there is one for each k and that they
  ascend; the plan is then three segments of which the one that `FinalOwner` names ends
  in the flag.
* `StampProvesDocument`: `UpkeepSpec => []ProvisionStampLast`.  A sound plan gives the rest, which
  is about order: what may fail, be cancelled or be missing between the insert of a task and
  its end (`StampInv`).

Of what the agent keeps of its own, for any VMs, creates, writers, files, requests,
processes and bounds, from four assumptions of `MCAgent` on the types of the constants
(`RegistryAssumption` also says that VMs made outside have names of their own, and
that discovery is one task, as its lock on the machine "system" makes it):

* `OneAgentServes`: `AgentSpec => HandoffOneServer`.  `HandoffInv` says what a process
  that holds a port, the databases or the services is doing (`HoldsInv`), that a process
  with a copy is on its way out (`CopyInv`), and that a copy which is still held
  waits for its own parent, and goes on only after that has closed its databases
  (`WaitInv`).
* `GoneKeysRefused`: `AgentSpec => KeysAccepted`, and `ClaimsReaped`: `AgentSpec =>
  KeysReaped`, from `KeysCorrect`.  A comparison of keys takes place outside the lock, on
  a copy; what saves it is that the verdict is looked up again under the lock.
  `KeysInv` says that the file holds every key of the memory, with ids that are not used
  again (`StoreInv`), that a claim's key is spared from its creation to its opening unless an
  administrator removed it or `Kept` later ones exist (`FreshInv`), that a pile above
  the bound has a reaper coming (`TrayInv`, where counting keys comes down to counting
  ids), and that claims and tokens together are as many as tokens were issued (`TokenInv`).
* `ConfigCorrect`: `AgentSpec => ConfigAgrees`.  `ConfigInv` says that whoever writes has the
  lock and has copied the file it is about to replace (`LockInv`), what a request's own
  progress says of its outcome (`Local`), and for requests that do not overlap that the view
  is the files except while a notice or the rest of a refill is still to come (`ViewInv`,
  `Synced`).  Of requests that overlap the theorem says nothing about the view, only about
  cache, list and backup.
* `RegistryCorrect`: `AgentSpec => RegistrySafe`.  A sweep acts on what it saw one or many steps
  before.  `RegistryInv` says that where nothing is renamed whatever remembers a VM - a row, a
  listing, a sight, a delete - has it under its name (`NameInv`), and where VMs are renamed
  that a sight still points at the VM's row or at none (`RenameInv`); that in a calm world a
  row is seen, about to be visited, or missed once, and twice if it is orphaned (`SeenBy`).
  Of creates it says which parts one has at each of its stages unless it was crossed
  (`PartsOf`), that one which was not crossed lives beside no other of its name but
  crossed ones that are done (`UniqueInv`), that a row some create made is the last word on its name but for creates
  that crossed it (`MadeInv`), that a delete which will remove a disk has no create with one
  for itself beside it (`DeleteInv`); and that a sweep which will remove what it flagged has
  seen every machine that landed and had its name for itself (`MadeSeen`).

The hypotheses inside the statements (`steady`, `patient`, `prompt`, `spaced`,
`gentle`) are the environments of the models; the runs reach both values of each,
and Findings says what happens without them.

Only model-checked: the liveness properties, with the fair refinement of the
queue; that a pull restores a box; that a sign-in ends; that the registry converges; and
`AssetStore`.
Liveness under fairness and ENABLED are out of the prover's reach, and so is
induction over data.

The proof that would come next is of the safety that `AssetStore` has: its types, and that
what a scan knows of a row is what the row was when it was listed.

## Not modelled

Most of the agent's lines are not protocol: the drivers of hypervisors and
guests build command lines and parse their output, the handlers decode a body,
validate it field by field and render an answer, the configuration model is data
for a schema, the provisioner's field language computes over one document.  What
such code does to shared state is one statement or one call, which the modules
above have as a step; its own correctness is a question of input and output that
tests answer.  The map therefore names the code that decides about order, and
not the code that formats.

Left out with that reason: the drivers (`vbox`, `utm`, `qga`, `sshrun`), the
network arithmetic, the filesystem API, host information and power, the web UI,
routing and rendering, generated documentation, the field language and the
catalog, certificates and the vault, the opening of the databases.

Left out inside a modelled component: what `PROJECT.json` names at the component.
The larger ones are the second hypervisor, the sync and deletion of storage
locations, export and publication of boxes, the exchange of resource tokens,
the periodic monitoring collector, and the shutdown of all machines by priority.
