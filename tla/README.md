# A TLA+ model of orciny

orciny keeps the configuration of Claude Code on a person's machines in step: a *hub* (Go,
PocketBase) holds config sets as numbered revisions, an *agent* on every machine writes them
into the home directory, merges the keys it manages into files it shares with Claude Code,
watches for changes made by hand and reports them to the hub's inbox. This directory holds the
specification of that system, the TLC runs that check it and the TLAPS proofs about it.

`PROJECT.json` maps every definition to the lines it models, and lists runs, mutants, hazards
and theorems. To check: `tlc -config MCApplierBounded.cfg MCApplierBounded`, and so on for each
run; `tlapm ApplierProofs.tla` for the proofs.

## 1. Inventory

| part (source) | state it keeps | operations | talks to |
|---|---|---|---|
| applier (`agent/internal/applier`) | pre-apply snapshots on disk, the managed home | BuildPlan, ApplyWithHook, merge, rollback | called by the syncer; races with the user and Claude Code on the files |
| syncer (`agent/internal/syncer`) | state.json, secrets.json, pending snapshot, hashes it waits for, contents | Handle: notify, snapshot, blob, collect request, drift command; survey; restore; report | hub over the websocket; applier; watcher |
| state (`agent/internal/state`, `agent/pause.go`) | state.json | Load, Save, SetPaused from the CLI | read whole and written whole by two processes |
| watcher (`agent/internal/watcher`) | baseline, last reports, timers | Run (events, debounce, settle, throttle, full scan), Scan, Reload | syncer, file system |
| conn, run (`agent/internal/conn`, `agent/run.go`) | connection state, backoff, session | Run, Dial, handshake, classify | hub; a new Syncer for every connection |
| blob cache (`agent/internal/blobcache`) | contents by hash | Has, Get, PutHash | syncer |
| sync, enroll, status commands (`agent/*.go`) | config and identity files | one-shot | hub, and the resident agent's files |
| configsync (`hub/internal/configsync`) | none of its own: assignments in the database | Notify*, Pull, Snapshot, BlobRequest, ApplyAck, ClearDegraded | machines (SendTo), drift, revisions |
| configsets, revisions, blobs | config sets with draft, head and manifest; immutable revisions; contents | Assign, drafts, Publish, Rollback, GCOrphans | configsync, drift |
| drift (`hub/internal/drift`) | drift events, ignore rules, partial full reports | HandleReport, Adopt, Restore, MarkRestored, Ignore, Supersede, Remanage, Override | configsync, revisions, overrides |
| machines, ws, handshake | registry of connections, grace timers, machine status | Register, Unregister, SendTo, handshake sessions, heartbeat | everything that sends |
| enroll, overrides, merge3, importer, providers, variables | tokens; per-machine overrides; import sessions; credentials | CRUD and pure merges | configsync, drift |
| routes, migrations, events, site, CLI, logging | no protocol of their own | | |

How they interact. The hub only *signals* (`ConfigNotify`); the agent *pulls*, gets a snapshot
(the files as hashes), asks for the contents it does not have, applies or surveys, and
acknowledges. The acknowledgement writes the assignment. A drift goes the other way: the
watcher compares files with the baseline in state.json, reports, and somebody adopts it (a new
revision), restores it (a command to the agent), ignores it or keeps it as an override.

What is hard about it:

* **partial failure**: an apply writes many files; one fails; what was written must be undone;
  the undo fails; the process dies in between; state.json cannot be saved;
* **shared files**: Claude Code rewrites `~/.claude.json` whenever it likes, the CLI rewrites
  state.json, and neither takes a lock;
* **ordering**: every connection has a read loop of its own at the hub, callbacks run in
  goroutines, calls change records first and notify afterwards, acknowledgements arrive late;
* **lost knowledge**: a notification or an acknowledgement that is never delivered, a state.json
  that is gone, an agent that does not know what is on its disk;
* **waiting**: for contents, for a grace period, for files to settle.

What makes each part correct:

* applier, syncer, state: an apply is all or nothing or says so; the merge loses no key; the
  baseline is what is on disk; a successful acknowledgement is true; degraded stays put.
* configsync, syncer: nothing waits for what is not coming; revisions arrive in order; what the
  hub tells is answered; an agent without a baseline is not written over.
* configsets, revisions, blobs: heads advance; what guards a provider is what the head is bound
  to; adopting changes what was adopted and nothing else; no content in use is collected.
* drift, watcher: what an apply goes over stays in the inbox; a full report closes what has
  vanished and nothing else; a drift that stays is shown in the end.
* overrides, merge3: a machine is served what its user selected; records do not contradict each
  other; who is to be served something else is told.
* enroll: a token enrols one key; a lost answer locks nobody out; success means the hub knows.
* providers, variables, render: the machine's files carry the hub's values or the failure shows;
  a report names placeholders and not values.
* machines, ws, handshake: the registry holds live connections, the status follows it, shutdown
  ends, an agent comes back.

## 2. Modules

| module | what it is |
|---|---|
| `AtomicApply` | the promise of one apply or restore, abstract |
| `Applier` | plan, snapshot, step-by-step writes, merge, rollback, restore, survey, state file, pause command, crash; implements `AtomicApply` |
| `ApplierProofs` | TLAPS: inductive invariant, type correctness, refinement, degraded; no false drift, truthful acknowledgements, merges keep foreign keys |
| `MCApplier` | the instance: a keyed file and whole files, two revisions, rotated secrets |
| `MCApplierBounded`, `MCApplierLive` | the same home with bounds on what happens; without bounds for liveness |
| `ConfigLoop` | assignment, notifications, connection, pull, snapshot, contents, acknowledgement |
| `ConfigLoopProofs` | TLAPS: type correctness; what is recorded was applied; whoever waits for contents is answered; a lost state is surveyed; revisions do not overtake each other |
| `Presence` | registry of connections, grace timer, status, handshake, deletion, shutdown, restart, the agent's dial loop |
| `PresenceProofs` | TLAPS: type correctness, and the four safety invariants |
| `MCPresence` | two records one after the other, two connections, a bound on events |
| `MCConfigLoop` | two config sets, three contents, three machines to start from, bounds on requests and failures |
| `ConfigSets`, `MCConfigSets` | draft, binding, revisions, head, contents and their collection, calls that run beside each other |
| `ConfigSetsProofs` | TLAPS: type correctness and the six properties of the run |
| `DriftInbox` | scans, reports, drift events and what is decided of them, for one machine |
| `DriftInboxProofs` | TLAPS: type correctness and the three safety properties |
| `MCDriftInbox`, `MCDriftReports` | one path with two contents and every kind of order; two paths and what the agent reports, with fairness |
| `Merge3` | the text diff, its hunks and the three-way merge, as functions |
| `Overrides`, `MCOverrides` | what one machine keeps of a file: split, records, merge over the head, the calls between |
| `OverridesProofs` | TLAPS: type correctness, and the two safety invariants; induction over the points of an object |
| `Enroll`, `MCEnroll` | tokens and records at the hub, the installer with key, pin and configuration file at the machines |
| `EnrollProofs` | TLAPS: type correctness and the three safety invariants |
| `Values`, `MCValues` | provider, variables, snapshot values, secrets.json, rendering and its inverse |
| `ValuesProofs` | TLAPS: type correctness and the two properties of the run |

How they fit together. `Applier` implements `AtomicApply`, and what it hands back at the end of an
apply is an outcome in `ConfigLoop`, `DriftInbox` and `Values`. A revision that `ConfigSets`
publishes is the head in `ConfigLoop`; what `ConfigSets` takes as the content of a drift is an event
of `DriftInbox`; `Overrides` lays its records over the head where `ConfigLoop` has a snapshot.
`Enroll` makes the record that is one in `Presence`. Each module keeps of its neighbours what
its properties need, so that each can be checked by itself.

### Applier

Paths are numbers in the order of their names, because the plan is sorted by name. A file is a
record of its managed part (`own`) and the keys nobody manages (`rest`); a file managed as a
whole has an empty rest. A blob is a content before rendering; `Render[b][s]` is what it becomes
with the secrets `s`, or `Undefined` where the code finds a reference it cannot resolve. The hash
of a file *is* the file, so two hashes are equal exactly when the contents are; a content and its
hash differ only in `NoHash` and `OtherHash`, for the empty hash and the two placeholder hashes
`restore` writes into its temporary state.

| variable | in the code |
|---|---|
| `disk` | the managed home |
| `saved`, `st` | state.json; `Syncer.st` |
| `sec` | secrets.json |
| `phase`, `restoring`, `rev`, `plan`, `at`, `next` | the locals of `ApplyWithHook` and of the loop in `fail` |
| `shot` | the pre-apply snapshot directory |
| `seen`, `tries` | the locals of `merge` |
| `ack` | the outcome sent as `ApplyAck` |
| `cli` | what `SetPaused` in the other process has read and is about to write |
| `touched`, `raced`, `mark` | history only: who wrote what since when |

`Apply`, `Survey`, `Restore`, `Decline`, `RestoreDeclined` and `SecretsArrive` are what the syncer
may start; a refused or undefined plan leaves only the secrets behind. `WriteStep`, `MergeRead`,
`MergeSame`, `MergeCheck`, `MergeAgain`, `MergeWrite` and the failing `MergeRefuses`,
`MergeGivesUp`, `StepFails` are the apply loop; `UndoStep` and `UndoFails` the rollback; `Finish`
is the end of `applyPending` or `restore`, with the save that may fail. `Edit` is any other
program at any moment, `PauseReads` and `PauseWrites` the CLI, `Crash` the end of the process and
the reload from state.json, which may be gone.

Abstractions. A write is one step, because it is a rename; so is reading a file back to hash it
after a merge (the code reads the file again a moment later, and hashes what is there then).
Permission bits are part of a content. The fingerprint of a merge, time of change and size, is
equality of contents, and a rewrite of the same contents may change it or not: a program that
changes the contents and leaves both as they were is not seen by the code and is not in the model. The
pre-apply snapshot takes a file that cannot be examined (`Stat` fails for another reason than that it
is not there) for absent, and a rollback would then remove it (`snapshot.go:44`); in the model files
can be examined. The pruning of old snapshots is left out; its effect, a
snapshot that is not there, is `UndoFails`. The state of an apply in memory and its save are one
step.

### ConfigLoop

One machine; machines share nothing but the config sets, which no machine writes. A revision is
`<<set, number>>`. What an apply does to files is an outcome here, with the state `Applier` hands
back for it. The outcome `"dropped"` is the handler that returns an error before it has anything
to acknowledge (secrets that cannot be read or saved, a survey without a content it needs): the
snapshot is gone and the hub hears nothing.

| variable | in the code |
|---|---|
| `head`, `paused`, `assign` | columns of config_sets and assignments |
| `todo` | calls that changed a record and have not notified yet; callbacks of `OnOnline` |
| `up`, `serving` | per connection: unread messages; what the read loop is in the middle of (`Pull`) |
| `link`, `down` | the connection of the agent and the messages it has not read; "greeting": `Connect` has not returned, `sess` is nil |
| `st`, `saved`, `pending`, `waiting`, `cache` | fields of the Syncer, state.json, the blob cache |
| `ver`, `owed`, `excuses`, `mixed`, `spoilt`, `blind`, `had` | history only |

`Pull` is three steps, because it writes the assignment, reads it again for the snapshot, and
sends: `ServePull`, `Assemble` (or `NothingToAssemble`, `AssembleFails`), `SendSnapshot`. Each
read-modify-write of a record is one step: PocketBase writes the columns a call changed, so the
interleavings left out give the records of some order of the calls, except that the change to
survey in `Pull` may win over an assignment made in the same instant. Messages of one connection
keep their order and are lost with it; the hub may read what came before the break while the next
connection is up, and its answers then go to that one. A second agent process (`orciny-agent
sync`) is not modelled. Two equal notifications that wait to be sent are one.

### Presence

The registry is keyed by fingerprint, and fingerprints share nothing, so one is modelled: a
machine whose record may be deleted and enrolled anew under another id. A connection that has
ended may be used again, so few of them are enough.

| variable | in the code |
|---|---|
| `rec`, `status` | the record of the fingerprint, and its column |
| `phase`, `hooked` | how far `Shutdown` is; `OnRecordDeleted` has still to run |
| `registered`, `pending` | `Manager.conns` and `Manager.pending` at this fingerprint |
| `loop`, `owner` | per connection: where its read loop is, and the machine its handshake found |
| `wait`, `parked` | per connection: where its `waitAndMarkOffline` is; one waits for a stopped timer |
| `cut`, `up`, `down` | the network, per connection |
| `dial`, `sock`, `connected`, `inbox`, `held`, `reason` | `Run`, `Dial`, the handler and the session of the agent |
| `raced`, `faulted`, `late`, `told` | history only |

Each lock section of the manager is a step, and each query and each save of `setStatus` another
one, because they are outside the lock: `Register`, `ReadOnline`, `SaveOnline`, `Withdraw` on the
one side, `CheckTimer`, `ReadOffline`, `SaveOffline` on the other. A save changes the record it
has read if that still exists. `OnMessage` of the agent is two steps, `Hear` and `Deliver`, because
`Dial` may set `connected` between the read of that flag and the delivery.

Abstractions. The agent is genuine and new enough, so `handleHello` refuses only for a record that
is not there or a query that fails. Deadlines and heartbeats are `Break`, which loses what is on
its way. Messages of a session other than the notice of removal are in `ConfigLoop`. A shutdown
begins when the listener is closed. A new record is enrolled when nothing of the deleted machine
is under way: somebody has fetched a token and starts the agent by hand in between. A machine that
enrols again while its record exists keeps record and status, and is no step here.

### ConfigSets

One config set with its draft, and the draft of another, which only matters to the contents it
refers to. A content is its hash. Calls (`StartPublish`, `StartRollback`, `StartAdopt`,
`StartRebind`, `StartEdit`, `StartBind`, `StartDelete`, `StartPurge`, `StartReport`, `StartClone`)
run beside each other without a lock; every query and every save is a step, and a save writes the
columns the call changed, as PocketBase does (`Written`).

| variable | in the code |
|---|---|
| `set`, `revs`, `other` | config_sets (draft, draft_binding, head, head_provider), revisions, the draft of another set |
| `blobs`, `drift`, `provs` | the stored contents, the contents of open drift events, providers |
| `call` | where each running call is, with its locals |
| `told`, `adopted`, `mishaps` | history only |

`SaveRevision` numbers and saves a revision (`nextSeq` and the save retried until the number is
free), `SetHead` saves head and head_provider together, `ReadDraft` and `SaveDraft` put adopted files
into the draft, `CollectRevisions`, `CollectDrafts` and `Sweep` are GCOrphans, `Crash` ends all
calls. What the properties except is named in `mishaps`: `crossed` (a head saved over another's),
`stale` (an adoption or rebinding that worked from a head that has moved since), `clobbered` (a
draft saved over another's), `overlap` (a collection or a deletion beside another call),
`unprovided` (a rollback to a binding whose provider is gone), `crashed`. Left out: names,
notes and authors, the advisory `Validate`, deletion of a whole set, imports.

### DriftInbox

One machine. The agent has two goroutines, the handler and the watcher, both of which send reports;
the hub handles the messages of the connection one after the other, the user's calls run beside.

| variable | in the code |
|---|---|
| `head`, `mode`, `rules` | files of the head revision, mode of the assignment, ignore rules |
| `events`, `fullSeen`, `pending` | drift_events; `Service.fullSeen`, `Service.pending` in memory |
| `work`, `adopting`, `asked`, `snapping`, `taken` | what `HandleReport`, `AdoptReviewed` and `Snapshot` (mode read, files read) are in the middle of |
| `disk`, `base`, `ignored` | the home, the entries of state.json, the agent's ignored paths |
| `watching` | the entries and ignored paths that `Reload` gave the watcher last |
| `reports`, `due`, `up`, `down`, `online` | batches and the acknowledgement to be sent, the connection |
| `lost`, `unseen`, `mishaps`, `left` | history, and the bounds |

`Scan` is partial or full; its report goes out in `SendBatch`es of one item, which may be lost with
the connection. `TakeReport`, `FindEvent`, `SaveEvent` and `PassOver` are the loop of HandleReport
with the query and the save of `upsert` apart; the last part of a full report closes what was not
seen. After an apply or a restore the watcher
goes on with the old entries until `ReloadWatcher`, which comes before the acknowledgement: a scan in
between compares new files with old entries and reports what the agent has just written. The files
of one apply, and state.json with them, are written in one step; `Applier` has the single writes.
`TakeAck` closes what an apply went over, or what a restore restored. A snapshot is put together in
three steps, `ReadMode`, `ReadHead` and, with the ignore rules, `SendSnapshot`. `StartAdopt` and
`MarkAdopted` are the two ends of adopting (its middle is in `ConfigSets`), `Restore`, `Ignore`,
`Remanage`, `Publish`, `Assign` the other calls. Timers (debounce, settle, throttle) are that a
scan may happen at any time. Left out: truncated contents, provider bindings in files, the conflict
check between machines when adopting, pause, keyed files, `restore_partial`, and another connection
of the same machine (that is `ConfigLoop`).

### Merge3 and Overrides

`Merge3` translates the pure functions: `Gaps` is the difference difflib finds (longest block first,
then left and right of it), `Merge` groups overlapping hunks of both sides as `merge3.go` does,
`SynthesizeMine` applies the selected hunks. Texts are sequences of lines. `Hunks` numbers the pieces a user may select; the lines of context
around them are a parameter.

`Overrides` is one path of one machine. `records` maps the selectors that have a record (`Whole` for
a text, a sequence of keys for a point of a JSON object) to what is kept. `mergeJSON` goes through
the selectors in the order of the database, one `mergePoint` after the other; it is a recursive
function, so that it can be reasoned about. `Override` plans a call (`planOverride`),
`FindOld` with `DeleteOld` and `OldDeleted` (the records it replaces, deleted one after the other),
`CreateRecord` and `Finish` (which closes the drift and notifies) are `commitOverride` step by step, `Fail` its error anywhere between, `Refused` the unique index. `DropOverride`, `Keep` and `Ignore` are the other
requests, `Publish` moves the head, `Pull` serves `Served(records, head)` and the machine applies
it; a merge that cannot be made ends the snapshot (`PullFails`). A drift is reported against what
the machine applied (`Bases`). JSON trees have two levels, enough for a selector to be the prefix of
another. Left out: several events in one call, escapes in selectors, merged contents among the
blobs, managed keys, the guards for binary and truncated contents.

### Enroll

| variable | in the code |
|---|---|
| `hubKey`, `token`, `machines`, `made` | the hub's key, enroll_tokens, machines, and how many records there were |
| `key`, `pin`, `config` | machine.key, hub.key and agent.yml of each home |
| `proc`, `late` | the installer that runs in a home; requests nobody waits for that still arrive |
| `granted` | history: which key was registered with which token |

The transaction of the hub is one step (`EnrollTx`: conditional update of the token, record by
fingerprint, consumption), because SQLite has one writer. `Serve` answers a request, `ServeLate` is
a request whose client has given up, `Retry` the timeouts and errors that make the client post again. The
installer writes its key, the pin and the configuration one after the other and may die between any
two; `HubLosesKey` is a hub that is set up anew. Left out: formats and permissions of the
files, rate limits, TLS.

### Values

One config set of one file, one provider with two endpoints, one variable, one machine. A file is
a row of slots, each a placeholder or a word.

| variable | in the code |
|---|---|
| `prov`, `var`, `head`, `old` | the provider's record, the variable, the published file and whether it binds the provider; an agent below the threshold |
| `assign`, `call` | the state of the assignment; the running calls with what they have read |
| `link`, `online`, `session` | the last connection, whether it is up, whether `Connect` has returned so that the Syncer can send |
| `up`, `asm` | of each connection: messages its read loop has not read, and the answer it is putting together |
| `down` | messages the agent has not read |
| `cache`, `pending`, `rec`, `sec` | secrets.json, the pending snapshot, the entry of state.json, the values the watcher restores with |
| `applied`, `mishaps`, `left` | history, and the bounds |

`StartUpdate`, `StartExtract`, `SaveProvider` and `NotifyProvider` are the calls on a provider, read
and save apart. Each connection has a read loop at the hub: `Pull` reads head and variable,
`Assemble` the provider, `Answer` sends over the connection that is up then. The loop of a broken
connection goes on with what it has begun, and with what it had not read until `OldLoopEnds`, while
the next connection has a loop of its own. A new connection has a new Syncer and a watcher that knows
no values before the first apply; a reply before `StoreSession` is refused and dropped.
`Render`, `Restore` and `Partial` translate `render.go` and
`restore.go`: which placeholder a value becomes again, and when a report asks for a review. Words do
not run into each other and hold no braces, so every value is found again and nothing is cut off.

`mishaps` names what may keep the machine behind: `untold` (a key taken out of a draft, a variable),
`raced` (a provider saved over another save), `overtaken` (an acknowledgement after a failure),
`mixed` (an older read loop answers while another connection is up), `early` (a message met the agent
before its session was stored). `untold`, `mixed` and `early` end when the machine is told again.
Left out: the models of a binding, several files, pause, survey, encryption at rest; the watcher is
taken to start before the first snapshot arrives.

## 3. Runs

| run | module, bounds | what it shows |
|---|---|---|
| `applier` | `MCApplierBounded`: 3 paths (1 keyed), 2 requests, 1 edit, 2 failures, 1 merge attempt | `ApplyIsAtomic`: refinement of `AtomicApply` |
| `applier_sequences` | 3 requests in a row, fewer paths | `NoFalseDrift`, `AckIsTrue`, `DegradedFreezes` across rotation, survey, restore, pause, crash |
| `applier_live` | `MCApplierLive`: 2 paths, 2 merge attempts, no bound on applies, restores, edits of the keyed file; about 576 000 states | `MergeKeepsForeignKeys`, `JobEnds` |
| `config_loop` | `MCConfigLoop`: 2 sets of 2 revisions, 3 contents; budget 4 (request 2, failure 1) from a new machine, an aligned one, and an aligned one whose state.json `pause` created anew; about 546 000 states | `TypeOK`, `NobodyWaitsAlone`, `AppliedWasReached`, `LostStateIsSurveyed`, `RevisionsAdvance`, `TellingSuffices` |
| `presence` | `MCPresence`: 2 records, 2 connections, 3 events out of deletion, enrolment, shutdown, start, crash, break, failing database; about 312 000 states | `RegistryIsLive`, `ConnectedShowsOnline`, `OnlineIsAccountedFor`, `StopsOnlyWhenRemoved`, `ShutdownEnds`, `AgentReturns` |
| `config_sets` | `MCConfigSets`: 2 paths, 2 contents, 1 provider, 4 calls, 2 at a time, 1 crash; about 2 030 000 states | `HeadProviderAgrees`, `AdoptedStays`, `ContentsKept`, `BoundExists`, `HeadAdvances`, `OthersUntouched` |
| `drift_inbox` | `MCDriftInbox`: 1 path, 2 contents, 2 events; from an aligned machine or, with fewer than two orders, a fresh one; edits, orders and faults in the mixtures of `SomeBudgets`; about 3 047 000 states | `TypeOK`, `NothingLost`, `SurveyFirst` |
| `drift_reports` | `MCDriftReports`: 2 paths, up to 7 events, the same kinds of orders, from an aligned machine or, without orders, a fresh one; fairness; about 467 000 states | `ClosedHadVanished`, `DriftShown`, `RevertCloses` |
| `overrides` | `MCOverrides`: objects with one object below, texts of up to 3 lines, 2 requests at a time; about 334 000 states | `TypeOK`, `NoneOverlap`, `MachineIsTold`, `KeepsTheSelected` |
| `enroll` | `MCEnroll`: 2 homes, 2 tokens, 3 keys, 3 records, 1 retry, 5 events out of issue, purge, death, loss, late request, deletion, new hub key; about 289 000 states under symmetry | `TypeOK`, `TokenEnrollsOne`, `RefusedIsUnknown`, `DoneIsKnown` |
| `values` | `MCValues`: 3 slots, 4 words, 3 files, 2 changes, 1 break or restart; about 2 294 000 states under symmetry | `CaughtUp`, `RestoreFaithful` |
| `overrides_add_up` | the instance of `overrides` | a claim that is violated, section 6 |

Why these bounds are enough. Three paths put a keyed file, a file that stays and a file that is
dropped into one plan, so a failure can come before, between and after writes, with something to
undo on either side. Two failures allow a write that fails and a rollback that fails; with one
edit they cover each place where another program can write. Three requests allow apply, rotate and
retry, survey-apply-restore, and apply-restore-apply. In the loop, two requests overlap at every
point of a round trip, and one request with two failures is enough for the long stories: loss of
state.json, reconnection, survey; a break, an old read loop that answers, and a publication. The
second revision needs two contents, so that one can be there and the other not. Two connections
are the one that is registered and the one that replaces it; three events allow a break, a
deletion and an enrolment, or a shutdown or crash with a start and one thing that goes wrong
before or after. Four calls with two at a time put a publication, an adoption and a
collection between the steps of one another, with something done before that they build on. One
path with two contents is enough for the life of an event (its content changes while it is open, it
is closed and opened again); two paths for a report of two parts, where one closes while the other
is seen; three lines for two hunks with a line between. Two homes and two tokens let two installers
race for a token and one installer use two. Three slots hold two placeholders and a plain word, or
one placeholder twice. Every action of the modules fires under these bounds, and every property is broken by a mutant of the code
within them. What is checked as unbounded liveness (`applier_live`) has a finite state space.

Deadlock is not checked: with the budget spent and no work left the models stop, and an idle agent
that nobody asks anything stops in reality as well. That nobody waits for what is not coming is a
property of its own (`NobodyWaitsAlone`, `ShutdownEnds`, `JobEnds`).

`TypeOK` of `Applier`, `Presence`, `ConfigSets` and `Values` is in no run: all four are proved. `MCApplier` is what
`MCApplierBounded` and `MCApplierLive` share. Configurations that belong to no run are
counterexamples to be looked at: `KeyedFileIsQuiet.cfg`, `RetryIsTrue.cfg`, `BrokenStops.cfg` with
`MCApplierBounded`, `RecordEmptied.cfg`, `OnlineCatchesUp.cfg` with `MCConfigLoop`,
`OfflineMeansGone.cfg`, `RemovedAgentStops.cfg` with `MCPresence`, `HeadIsTold.cfg` with
`MCConfigSets`, `NeverStuck.cfg` with `MCOverrides`, `KeptKeysAreNamed.cfg` with `MCValues`; section 6 says what they show.

## 4. Fairness

* `JobStep`: an apply that has begun is sequential code that waits for nobody; `WF` on its steps
  together. `JobEnds` needs no more, because the attempts of a merge are counted.
* `Notify(t)`: a call or a goroutine that has begun; `HubLoop("new")`: the read loop of a
  connection that is up; `AgentLoop`: the agent's read loop; `StoreSession`: `Connect` returns.
* `Presence`: `ReadLoop(c)` and `Waiter(c)` (a goroutine each, and timers end), `Dial`, `DialLoop`
  and `AgentReader` (the agent's two goroutines), `RecordDeleted` (a hook that has begun) and
  `Teardown` (a shutdown that has begun). `AgentReturns` is checked where things stop to break in
  the end, as they do when the events are spent.
* `DriftInbox` (`FairSpec`): `WF` for the goroutines of the agent and of the hub and for the
  reconnection; `SF` for the full scan, because its tick competes with other events in the select of
  the watcher, which chooses at random among those that are ready.
* `ConfigSets`, `Overrides`, `Enroll` and `Values` are checked for safety only and need none.
* No fairness for people, edits, failures, connections, or the read loop of a broken connection.

## 5. Proofs

Assumed: the named assumption of each module, which only says that the constants have the types
their comments give and that the special values differ from ordinary ones; TLC evaluates it. Two
say more. `ValuesAssumption`: no key is a text below the length that is restored, because the hub
refuses such keys (`providers/store.go:292`). `LeavesAssumption`: the order of the selectors puts a
selector before those it is a prefix of, as the database's sort does, and a value is an object or a
leaf and not both.

`ApplierProofs`, for every number of paths, revisions, secrets, contents and merge attempts:

* `TypeCorrect`, `TypesAndSplit`: `TypeOK /\ JobInv` is inductive. `JobInv` is the reason an apply
  is atomic: at any moment the paths nobody else wrote are split by the counter `at` into those
  that hold what is wanted and those that hold their snapshot. Writing moves the counter up,
  undoing moves it down, so a rollback needs no invariant of its own. The clause on `seen` is
  needed because a merge writes what it read two steps ago. There is one step per action.
* `AppliesAreAtomic`: every step is a step of `AtomicApply` or a stutter, under the mapping that
  shows the home as it was before the running apply, where nobody else wrote. `Finish` and `Crash`
  are the steps at which the home changes in the abstract; `JobInv` says to what.
* `DegradedWritesNothing`: while degraded only other programs change the home. It needs an
  invariant of its own: no apply is running with a degraded state in memory.

On top of it:

* `NoAlarmIsFalse`, `SuccessIsTrue`: `RecordInv` relates entry, mark and disk. While nothing runs an
  entry of state.json that nothing has happened to is true of the disk; while an apply runs the
  same holds of the entries it builds, a path it does not write keeps its entry, and a path it is
  past holds what the plan says. That a restore may record `plan[p].file` without having kept
  the entries of the run needs the last clause; that a skipped file holds what is wanted needs
  that a plan skips only what is recorded so, and that a restore skips nothing (`OtherHash`).
* `ForeignKeysStay`: what the merge is about to write was made of what is on disk, unless another
  program wrote after the second fingerprint.

`ConfigLoopProofs`, for every set of config sets and contents:

* `TypeCorrect`: the types, with the queues of both connections, and that a snapshot is pending
  exactly when hashes are waited for.
* `AppliedIsReached`: strengthened by "every state the agent has in memory or on disk, and every
  positive acknowledgement in a queue of either connection, names a revision the agent had".
* `WaitsAreAnswered`: a snapshot waits for contents only while the request, the
  answer or the reading of it is on some queue. `NobodyWaitsAlone` is almost inductive; what it lacks
  is in `WaitInv`: before the session is stored nothing has been asked on the new connection, without
  a connection nothing is on its way, and a connection that is being greeted carries no snapshot
  unless an older read loop put one there. The lemmas up to `ConcludeReplies` say what
  adding and taking a message does to the queues, so the step of each action is short.
* `LostIsSurveyed`: the hub sees the loss at the first pull that carries nothing, so the invariant
  `SurveyInv` follows the loss along its way: the record is not empty or the mode is survey; the
  agent's pulls carry no revision; what the read loop assembles, has in hand, has sent, and what
  the agent keeps pending, is a survey.
* `NeverBack`: `OrderInv` says that the agent's state, its pending snapshot, the snapshots on their
  way and the one in the read loop's hands are sorted by number, set by set. That a new snapshot
  comes last needs `PublishedInv`: no revision anywhere is newer than the head of its set, and
  heads only advance.

`PresenceProofs`, for every set of records and connections, without a bound on events:

* `TypeCorrect`, one lemma each for the hub, the network and the agent.
* `RegistryStaysLive`: `HubInv` says whose a waiter is (of a connection that has ended; at most one
  timer counts, and only while nothing is registered), that a connection past its handshake
  belongs to the record or to one that is gone, and that Stop begins without read loops.
* `ServedIsOnline`, `OnlineIsAwaited`: `WriterInv` says who may be writing the status. Without a
  race only the registered connection writes "online" and only the absence of one "offline"; a
  race is a `Register` that falls between the lock and the save of another writer.
* `StopsForRemoval`: `NoticeInv` follows the notice of removal along connection, reader, inbox and
  session: for a machine that exists there is none.

`EnrollProofs`, for every number of homes, tokens, keys and retries, without a bound on events:

* `TypeCorrect`: with it that no two records have one key.
* `OneKeyPerToken`, `RefusedNotRegistered`, `SuccessIsRegistered`: the invariant has four parts
  beside the types. `TokenInv`: a key that was answered with success used up the token, and the
  record the token points to has that key. `KeyInv` and `StartedInv`: a running installer has
  a key and a token that was issued. `HomeInv`: the record named in a positive answer is that of the
  key or is gone and any other is younger; a token that refused is used up or too old and
  points to another's record, and neither can change back. The step of the
  transaction is where all four meet; requests that are late are in it like any other.

`ConfigSetsProofs`, for every number of paths, contents, providers and concurrent calls, without a
bound on calls or crashes:

* `TypeCorrect`: the types with `Place`, the steps each kind of call can be at; without it no other
  invariant could tell whose step an action is. `To`, `Moved` and `Gone` say what a step does to
  its own call, once for each action, and every later step of the proof uses only that.
* `HeadProviderIsBound`, `HeadOnlyAdvances`: `HeadInv` says of a call about to save a head that its
  revision is the one it saved, is newer than the head it read, has never been anybody's head and is
  no other call's; and that who has read the present head has read its provider with it.
* `AdoptingTouchesItsPaths`: `UntouchedInv` follows the files and the binding an adoption or a
  rebinding took from a head to the revision it saves.
* `InUseIsKept`: `StoredInv` holds while no collection overlaps: whoever collects or deletes is the
  only call, what it has found so far is complete, and every content a call works with is stored
  already or is about to be by that call.
* `BoundIsKept`: `BoundInv` adds the bindings that have been looked up and not yet saved.
* `WhatWasAdoptedStays`: `AdoptedInv` adds that head and draft agree on what was adopted, but for an
  adoption that has published and not yet reached the draft, and that a call which saves the draft
  has changed only its own paths of the draft it read.

`DriftInboxProofs`, for every number of paths and contents and for every budget:

* `TypeCorrect`: with it that one event is open per path at most, and that what a goroutine has to
  send of a report are the one or two parts of it in order.
* `SeenBeforeApply`: `UnseenInv`. Until the user chooses "apply" the mode is survey and no snapshot
  to be applied is on its way that would write the path.
* `ShownIsKept`: `LostInv`. For each content an apply has gone over there is an event that holds it
  and will go on holding it: nobody is saving it, and if it is still open the acknowledgement that
  closes it comes before anything that reports the path.
* `ClosedWasGone`: `PartsInv`. When the last part of a full report arrives, what it does not hold
  itself has been seen, or is in a part before it on the queue with no other end between.

`ValuesProofs`, for every number of slots, words, calls and changes:

* `TypeCorrect`: `TypeInv`, which also says what each running call holds of the record.
* `ReportsAreFaithful`: `RecInv` says that the contents on record are those of the last file that was
  rendered wherever it has plain text. The rest is a lemma on `Restore` and `Partial` (`Faithful`):
  whatever the user makes of the file, a value that was put in is taken out as the placeholder it
  was, or as another the property names, or counts differently than in the template on record.
* `MachineCatchesUp`: `KeysInv` (an endpoint with an address has a key, as long as no two calls
  overlapped) and `Informed`: if nobody has still to tell the machine, and the agent can answer, then a
  pull is on the present connection, or what the present read loop is putting together, the last
  snapshot on its way, or what the agent holds, is what the hub would answer now. Only the read loop
  of the present connection counts: an older one that answers is what `mixed` excepts.

`OverridesProofs`, for every set of keys, values and texts, any order of selectors that is a sort, and
any number of requests:

* `TypeCorrect`: what a merge makes of the records needs induction over the points it goes through.
  The induction theorems of the library cannot be instantiated here, but that numbers are well
  founded can be cited (`NatLessThanWellFounded`, `WFMin`): `Least` and `Inductive` state the principle
  for sets, and `MergeIs` unfolds the recursive function of `mergeJSON` with it.
* `RecordsApart`: `ApartInv` adds that every record there is fits with all that a call has planned or
  is among those it has found and has still to delete, unless another request has changed them in
  between. It
  rests on `SplitApart` (the points in which two objects differ never lie below each other) and
  `ReplacedApart`.
* `NobodyForgotten`: `MachineIsTold` is inductive by itself, given that setting or clearing the flags
  of a record changes nothing in what is served (`ServedSame`, by the same induction).

What the proofs changed. In `DriftInbox` two arms of the choice of what a report may close were true at
the same time, and TLA+ leaves open which one counts; TLC takes the first. The arms exclude each other
now. `RestoreFaithful` was false for files that TLC's instance did not have: a revision whose file
renders to what is there is skipped, and the record keeps the template of an earlier one
(`plan.go:101`), so the count of a variable's places may be taken from that one. The property now names
that case and the instance has it. Absent values are `None` or `"none"` where they were the empty string, which the solver
does not take.

Only model-checked: liveness (`JobEnds`, `TellingSuffices`, `ShutdownEnds`, `AgentReturns`,
`DriftShown`, `RevertCloses`; fairness and `ENABLED` are out of the prover's reach) and
`KeepsTheSelected`, which says what the merge of two texts computes. `Merge3` finds the longest common
block by a recursion over four indices whose result has no simple shape; the proofs of `Overrides`
use of a text merge only that it gives lines and a conflict or none. That an invariant is proved for all
constants frees it of the bounds on *events* as well: `Spec` of `Applier`, `ConfigLoop`, `Presence`,
`Enroll` and `ConfigSets` has none, and in `DriftInbox`, `Overrides` and `Values` they are constants.

## 6. Where the code and its documents differ

One disagreement is a run, with the finding in `PROJECT.json`:

* `overrides_add_up` - the base of a drift is what the machine wrote last, and not the file of the
  head as the design has it. For a text of which the machine keeps one hunk already, the base of the
  second override has that hunk in it; the new record replaces the old one and does not count
  the hunk as its own, and the merge takes the lines of the head there (`override.go:227`). `KeepsTheSelected` is the same claim for
  a file that was the hub's own, and holds.

The others have a configuration beside the runs. Each checks one claim and ends in a counterexample:

* `KeyedFileIsQuiet.cfg` - after a merge the agent records the hash of the whole file, while the scan
  compares the managed keys: a keyed file with other keys is drift at once (`applier.go:226`
  against `scan.go:282`).
* `RetryIsTrue.cfg` - a rolled back apply hands back the entries of the files it undid; the
  retry skips these files and says OK (`applier.go:191` against `state.go:32`).
* `BrokenStops.cfg` - a restore whose rollback failed does not make the agent degraded
  (`syncer/drift.go:192` against `plan.go:6`).
* `OnlineCatchesUp.cfg` - the notification of `OnMachineOnline` may be handled before the agent
  has stored its session; the pull is refused, the error dropped (`run.go:99` against
  `notify.go:16`). `TellingSuffices` is the same claim without this case, and holds.
* `RecordEmptied.cfg` - the success of a restore on a state without a revision empties the record of
  what the machine applied; that it lost its state is then never noticed, and the next snapshot is
  applied over its files (`notify.go:168` against `service.go:191`).
* `OfflineMeansGone.cfg` - the grace period ends, the waiter leaves the lock to save "offline", and
  the machine registers: it finds itself "online", does not write, and is then saved as offline
  while it is served (`manager.go:209` against `manager.go:26`).
* `RemovedAgentStops.cfg` - a notice of removal that arrives before `Dial` has returned closes the
  socket, `Dial` fails with the error of its own send, and the agent dials again (`dial.go:259`
  against `hooks.go:41`). It is then told every five minutes that it is unknown.
* `HeadIsTold.cfg` - a rollback to a revision whose provider was deleted publishes, moves the head and
  writes the draft before it finds that the draft cannot be bound: it returns the error, the head
  stays where it is, and no machine is told (`revisions/service.go`, `Rollback`, against `api.go:29`).
* `KeptKeysAreNamed.cfg` - the watcher of a new connection has no values before its first apply, since
  `Syncer.New` loads state.json and not secrets.json: a file that drifts after a reconnection or a
  restart, before a snapshot arrives, is reported with its key as plain text (`syncer/drift.go:103`
  against `syncer.go:153`, which counts on the cache for that).
* `NeverStuck.cfg` - a record that keeps a key below an object, over a head in which that object has
  become an array: `sjson` refuses, and no snapshot can be made for the machine (`apply.go`).

Read in the models, without a claim of the documents against it:

* a keyed file that leaves the revision is deleted with the keys the agent does not manage
  (`plan.go:114`; `PRODUCT-DESIGN.md:196` says otherwise);
* the callbacks of a machine that came online run in goroutines nobody waits for (`manager.go:113`);
  snapshots are pruned by name, so one taken after the clock went back goes first
  (`snapshot.go:88`); any acknowledgement that is neither OK nor rolled back makes the assignment
  degraded (`notify.go:178`);
* `MarkRestored` takes every result of a restore for a success (`resolve.go:53`); an apply that
  creates files does not supersede their events (`resolve.go:190`); a full scan that finds nothing is not
  reported, so the last drift of a machine stays open when its file is put back (`syncer/drift.go:19`);
* the read loop of a broken connection may read the provider, and answer only after the loop of the next
  connection has answered with newer values: the agent takes what comes last
  (`syncer.go:152`), acknowledges it, and the assignment says aligned with the older key until
  somebody notifies again (`service.go:234`, `manager.go:118`);
* a scan between the writes of an apply and the reload of the watcher reports what the apply has
  just written, against the old baseline (`syncer.go:278`, `scan.go:137`); the event is closed by the
  acknowledgement if the apply went over its file, or by a later full report;
* a snapshot that is on its way while a path is managed again is put together with the mode that
  was (`resolve.go:259`);
* two calls of Override at the same time may leave selectors of which one is the prefix of the
  other; one that fails midway does not notify; a global ignore rule leaves the overrides of other
  machines; a reminder that was dismissed comes back with the next snapshot;
* an installer run against another hub that dies between pin and configuration leaves the key of the
  one with the address of the other; a late request may make a record anew that was deleted;
* taking a key out of a draft and setting a variable change values without telling the machines;
  the machine's name is never taken out of a report, nor is its report marked for review
  (`restore.go:34`); of two endpoints with one key a report names the first;
* a file whose new template renders to the contents it has is skipped, and state.json keeps the old
  template (`plan.go:101`, `applier.go:109`); the next report counts the places of a variable in it
  and may ask for no review of a text that happens to be the variable's value;
* an override that keeps a placeholder the head does not use any more makes its file unwritable,
  and a file that cannot be rendered is skipped with an acknowledgement that says OK; an
  acknowledgement of an earlier snapshot clears the failure of a later one; an endpoint that lost its
  key to two updates shows at no assignment.

Conditions the positive properties need, found while modelling. `ConfigLoop`: an older connection's
read loop may put an outdated snapshot on the new one (`mixed`); a content that cannot be cached
leaves its snapshot waiting until the next notification (`spoilt`); an agent that loses its state is
not recognised when the acknowledgement of what it applied was lost as well (`blind` starts from what
the hub saw, and ends when the record is emptied). `Presence`: the status is right only if no
connection was registered while the record was being written for another (`raced`) and no query or
save failed (`faulted`): a failed save of "offline", for instance, leaves the machine online until
it connects again. `Shutdown` waits for the deadline of a connection that was being opened when
`CloseAll` listed the live ones (`late`). `ConfigSets`, `DriftInbox`, `Overrides` and `Values` name
theirs in `mishaps`, `raced` and `failed`: each is set by the step at which the code lets it
happen, and each property lists those it cannot do without.

## 7. Plan

Done: `AtomicApply`, `Applier`, `ConfigLoop`, `Presence`, `Enroll`, `ConfigSets`, `DriftInbox`, `Overrides`
and `Values` with their proofs, `Merge3` with its runs. Next, in this order:

1. `KeepsTheSelected` for objects: what `Split` selects is what `mergeJSON` puts back, by induction.
2. The timers of the watcher (debounce, settle, throttle), composed with `Applier`.
3. `orciny-agent sync` as a second Syncer on one home and one state.json; sessions of a collection.

Not modelled, on purpose: rendering of the web site, logging, wording of errors, encryption at
rest, the CBOR encoding, the rules of paths, the database's own transactions, and the clock.
