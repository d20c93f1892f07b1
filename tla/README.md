# A verification project for trail-stash

`trail-stash` (Rust, `src/rust/`) is a RAM-only replica that phones use as a mailbox: it holds
read capabilities of iroh-docs namespaces, replicates their signed records, collects the encrypted
bytes ("ciphertext") the records name by hash, wakes subscribed devices once an entry can be served,
and lets go of ciphertext that newer records supersede or that has aged out.

This directory models that program, checks it with TLC on small instances and proves the central
facts with TLAPS for every instance.

## Inventory

| Component | Source | State | Operations | Talks to |
|---|---|---|---|---|
| Content index | `content.rs` | `states: hash → Wanted/Present`, `by_namespace: ns → hashes` | want, mark_present, forget, queries, referenced | every task of the node, under one mutex |
| Release policy | `retention.rs` | none | decode_fix_key, cutoff, release_decisions | the prune loop |
| Watcher (one task per namespace) | `node.rs` spawn_watch | its event stream, the entry at hand | want → probe the store → track → mark → wake | docs engine events, index, `tracked`, blob store, waker |
| Settle loop (one task) | `node.rs` run_settle_loop, settle_once, fetch_content | the pass's copy of the outstanding entries | probe → fetch → apply, then the wakes | `tracked`, index, blob store, peers, waker |
| Prune loop (one task) | `node.rs` run_prune_loop, prune_once | the hashes still to forget | read a replica → decide → forget → untrack | docs, index, `tracked` |
| Upload and read | `node.rs` put_content, content_bytes and their handlers | one handler per request | check → add → mark → status; check → read | registry, index, blob store, writers |
| Registration | `node.rs` register, `subscriptions.rs` | `handles`, `known`, subscriptions | import once, grant, spawn the watcher, unsubscribe | docs engine, watcher, wake_for |
| Control API | `api.rs`, `auth.rs`, handlers of `node.rs` | none | validation, pre-shared key, status codes | registration, upload, read |
| Waker and push | `waker.rs`, `push.rs` | the push environment | choose credential and route, build the request, one fire-and-forget task per target | APNs, FCM |
| Delivery service | `mls.rs` | none | admit (passthrough) | wake_for |
| Configuration | `config.rs` | the environment, read once | parse, default, clamp, trim | everything |
| Process | `bin/trail-stash.rs` | how far main has got, the serving task, a pending signal | read the key, set up tracing, spawn, wait for a signal or a failure, flush, end | supervisor, node, telemetry |
| Telemetry | `telemetry.rs` | the batch not yet exported, whether the pipeline is open | emit, export, shutdown | collector, console |
| Log redaction | `log_redaction.rs` | none | redact_log_line | console and telemetry |

External: iroh-docs (replica, reconciliation, live events, its own single download per record),
iroh-blobs (memory store, tags, downloader, garbage collection), the phones and the supervisor.

**What is hard.** The watcher, the settle loop, the prune loop, upload handlers and the collector
share the index, `tracked`, the store and the replicas with a lock each and no lock across two of
them (settle's apply step, which takes the index lock inside the `tracked` lock, is the exception). Every
`.await` is a point where another task runs, and each task keeps something it read before one and
uses after it: a probe, a copy of the outstanding entries, a list of hashes to forget, the set of
live blobs, the instant a pass began. A pass is serial and a fetch lasts up to 20 s, so an entry
depends on the peers of others. Nothing is persisted: a restart loses grants, records, references
and bytes, and the writers must find out from the answers they get. Devices that vanish, fetches
that time out and calls that fail are ordinary.

**What makes each component correct.**

- index: the reference count is exact; a hash loses its state with its last reference and not before;
- policy: the answer does not depend on the order of the stream, keeps one sequence number per
  author and always the latest fresh one, and is taken back only by an author who retires a record;
- watcher and settle loop: what is missing is chased until it lands or is released, every entry is
  announced, once, and in time however slow other peers are;
- prune loop and collector: a sweep releases only what the policy would still release, what is
  released stops being chased and is reclaimed, what is called present is there;
- upload and read: a receipt means that the bytes can be served until that record is released; no
  namespace reads what only another names; a writer that does what the answers say delivers every
  slot it can, through restarts;
- registration and waker: one watcher per namespace, every request answered, subscriptions and
  wakes as each phone was last told, each with the credential and route of its platform;
- process and configuration: knobs within their bounds, the gate as deployed, up means serving;
- logs: no part of a sensitive run is printed, or exported in the body of a record (attributes and
  spans are exported as they are, by design); the last batch is not lost.

## Modules

| Module | Models | Role |
|---|---|---|
| `ContentIndex` | `content.rs` | operators on the record `[state, by_namespace]` |
| `ContentRefs` | what the index promises | abstract specification: a relation of references and the set of confirmed hashes |
| `Retention` | `retention.rs` | operators on the set of entries one sweep read |
| `RetentionSweeps` | `release_decisions` over time | records arrive, and are retired by their authors, in any order while the clock runs; the fold over the stream is compared with the definition on sets |
| `StashNode` | `node.rs` | the concurrent node; EXTENDS `ContentIndex` and `Retention` |
| `SettleTimes` | the settle loop of `node.rs` in real time | fetches that last, peers that sleep, passes that read the clock once |
| `ControlApi` | `api.rs`, `auth.rs` | operators: pre-shared key, validation |
| `Push` | `push.rs`, `waker.rs`, `build_waker` | operators: credential, route and request of one target |
| `Registry` | `register` and its handlers, `subscriptions.rs`, `waker.rs` | phones and the control plane; EXTENDS `ControlApi`, instantiates `Push` |
| `Writers` | the PUT and GET handlers | phones, receipts and restarts; EXTENDS `ContentIndex` |
| `Config` | `config.rs`, the secret key, the collector endpoint | operators: what the process makes of its environment |
| `LogRedaction` | `log_redaction.rs` | operators: the scan, and the same by positions as its reference |
| `StashProcess` | `bin/trail-stash.rs`, the pipelines of `telemetry.rs` | one process after another; EXTENDS `Config` and `LogRedaction`, instantiates `ControlApi` with the configured key |
| `MCRetention`, `MCStashNode`, `MCSettleTimes`, `MCRegistry`, `MCWriters`, `MCProcess` | – | the instances TLC checks |
| `RetentionProofs`, `StashNodeProofs`, `UniqueProofs`, `WritersProofs`, `ProcessProofs`, `RegistryProofs`, `SettleTimesProofs` | – | theorems; `UniqueProofs` EXTENDS `StashNodeProofs` |
| `DataInduction` | – | theorems about recursions and folds of any operator, which `RetentionProofs`, `SettleTimesProofs` and `ProcessProofs` instantiate with theirs |

Operators marked "faulty variant" are the code with one plausible mistake in it. No specification
uses them; substituting one for the operator that follows it shows that a property can fail.

### `StashNode` and the code

A step is the code between two points where another task may run: one critical section, or one
call into the docs engine or the store. What a task carries over such a point is in its record.

| Variable | Code |
|---|---|
| `clock` | `now_ms()` |
| `doc`, `engine`, `inbox`, `missed` | the replica of each namespace, downloads the docs engine has queued, events not fully handled, and (history) records whose event nobody will see |
| `handles` | `StashNode.handles` |
| `watch` | the watcher tasks; `"absent"` is "not in `known`", since the first grant spawns the watcher |
| `content`, `tracked` | the fields of those names; of a tracked entry the model keeps what control depends on (`author`, `seq` and `delivered_by` only choose whom to ask, see `SettleTimes`) |
| `stored`, `tagged`, `gc` | the blob store, its persistent tags, the collector between its mark and its deletion |
| `settle`, `prune`, `uploads` | the two loops and the handlers, with `pc` and locals |
| `wakes` | history: how often a namespace was woken for a hash |

| Actions | Code |
|---|---|
| `Import`, `Grant` | `register`: the section under the `handles` lock; the registry call and the spawn |
| `Reconcile`, `EngineDownload`, `EngineGivesUp` | iroh-docs |
| `Subscribe`, `SubscribeFails`, `StreamFails`, `WatchWant`, `WatchProbe`, `WatchTrack`, `WatchMark`, `WatchWake` | `spawn_watch`, await by await |
| `SettleStart`, `SettleProbe`, `FetchOk`, `FetchFails`, `SettleApply`, `SettleWake` | `run_settle_loop`, `settle_once`, `fetch_content` |
| `PruneStart`, `PruneScan`, `PruneScanFails`, `PruneForget`, `PruneUntrack` | `run_prune_loop`, `prune_once` |
| `PutCheck`, `PutAdd`, `PutMark`, `PutAbort` | `put_content` and a handler that is dropped at its await |
| `GcMark`, `GcSweep` | the `add_protected` callback and the deletion of what it did not name |

`Faults` says which calls may fail in an instance: probes of the store, event streams, reads of a
replica, and the `add_bytes` of an upload. A key is a record of what `decode_fix_key` looks at (the
text before the slash, how many digits follow, the number they spell); `HexDecode` maps the texts
that are even-length hex to author bytes, in both cases. `Empty` is the hash of no bytes: a record
that carries it is a tombstone, by which an author retires what it had under the key
(`node.rs:702`). It reconciles in like any other record and the watcher takes it for one, so that
`Empty` is wanted and chased as well; a sweep's reading leaves it out, as `Query::all` does, and
with it what it retired. Write times are microseconds in the record
and milliseconds in the policy.

### `SettleTimes` and the code

Here a unit of time is explicit and everything takes none, except a fetch and the wait for the next
tick. `awake` says since when each peer can be reached; `Sources` are the two candidates of
`fetch_content` (who delivered the record, and its author). `PassStart` takes a tick of the interval;
missed ticks come one after another, as tokio's default does. `pass.now` is the one reading
of the clock a pass makes; `Probe`, `FetchOk`/`FetchFails` and `Apply` are one entry's turn and
`WakeAll` the end of the pass. A fetch fails at once or at any instant up to its deadline, unless a
source was there throughout. Sweeps, faults and watchers that find the bytes in place are left to
`StashNode`.

### `Registry` and the code

`StashNode` needs of registration only that a namespace is imported and then granted; `Registry`
has the rest. A phone sends one request at a time. `queue` is the tokio mutex of `handles`, which
is handed over first come, first served: its head holds it through `Lookup`, `ImportOk` and
`JoinOk`. `Grant` is `NamespaceRegistry::register`, `SpawnWatch` the task spawned when that says the
namespace is new. `GiveUp` is a call that fails (502) and also a handler dropped at one of its
awaits because the phone hung up; after the critical section there is no await, so a grant is never
cut in half. `Wake` is `wake_for` reading the targets and building, for each of them, the request
that `Push` describes, at any time after the watcher exists; `Sent` is the end of one push task,
which nothing but a log line depends on. `PushEnv` is the environment of `build_waker` and
`EnvCredentials`: a variable set to nothing counts as unset, a target without a credential is
skipped and the others are not. Requests the guard or the validation refuses (401, 400) change
nothing and are no step; the instance offers one of every kind all the same. `told` is history: what
the last answer meant.

### `Writers` and the code

`put_content_handler` answers with a status a writer is meant to act on (comments of `PutOutcome`
and of the handler): 404 register again, 409 skip this slot and offer the rest, 400 never this one.
`AfterPut` is a phone that does so; the phones are external. `PutCheck`, `PutAdd`, `PutMark` and
`PutFails` are one request; `GetCheck` and `GetRead` the two steps of `content_bytes`. `Fetch` and
`Apply` are the settle loop before and after the awaits between bytes that are found and
`mark_present`, which may come after a release and a collection. `Crash` and `Restart` are the end of a process and the next one: nothing survives
but the phones. Registration, a record that reconciles in and is taken up, a release and a
collection are here as their effect on index and store, each in one step; `StashNode` and
`Registry` have their interleavings. A record that no watcher sees (`v_missed`), one that is
overwritten (`v_orphan`) and one that its author retires do not occur here; in particular
`BatchDelivered` rests on every record being taken up.

### `StashProcess`, `Config`, `LogRedaction` and the code

`env` changes only between two processes. `BootRefused` and `Boot` are `main` up to `init_tracing`
(the key is read first, so a process without one logs nothing), `SpawnOk`/`SpawnFails` are
`StashNode::spawn` with the two tasks, `StopSignalled`/`ServeFailureEnds` the `select!`, `Shutdown`
the final `telemetry::shutdown`, `Return` the end of `main`. `Bind` is the listener of
`serve_control_api`, after which nothing ends that task. `Emit` is one log event, a
body with fields, through both layers. The console formats the message with its fields behind it
(timestamp, level and span context in front of it are left out) and redacts the whole line; the
processor in front of the OTLP batch redacts the body, and the fields leave as attributes, as they
are. `SpanEnds` is the end of a span such as `http.request`, which has no body and whose `url.path`
leaves as it is. `ExportBatch` hands a batch to the collector, whose refusal is dropped. `Killed` is an end
without a word.

A variable is described by what its parser looks at: a natural, junk, or a text that may be padded
or nothing but blanks (`padded` only says that blanks were there: every parser trims them, so that the
flag has no effect in the model). A log line is a sequence of characters of the classes the scan tells apart;
which texts parse as addresses is a parameter.

### What is assumed of the libraries

- iroh-docs keeps, per key, the record with the latest timestamp, a tombstone among them, which it
  shows to watchers and not to `Query::all`; a tombstone for a prefix counts as one for each key it
  covers. It queues one download for each
  inserted record, and sends each `InsertRemote` event once, in order, to those subscribed then.
- A read of a replica (`get_many`) sees one state of it.
- Whether the blob store says that it has the empty hash is left open (`Has`).
- A download with two candidates reaches the one that is awake even when the other, listed first,
  hangs; `PeerUsedInTime` needs it.
- The collector of iroh-blobs spares bytes added while it runs; `add_bytes(..).await` leaves a
  persistent tag, as the `TagInfo` it returns says; a download leaves none.
- A failed call of `import_namespace` or `start_sync` leaves no handle, so that a later
  registration starts over: it is a step that changes nothing.
- A batch processor exports every record it was given, or the collector refuses it; its queue does
  not overflow.

## Runs

| Run | Instance | Shows |
|---|---|---|
| `retention` | seven records of every key class, arriving and retired in any order, clock 0..6 | `StreamOrderIrrelevant`, `OneSeqPerAuthor`, `LatestSurvives`, `DecisionStable` |
| `shared` | one ciphertext in two namespaces, docs engine on | `TypeOK`, `RefcountExact`, and that the node implements `ContentRefs` |
| `unique` | two fixes of one author with their own bytes, a tombstone for the second, reads of the replica fail, the window expires | `WantedIsChased`, `WakeOnce`, `ParkedIsAnnounced`, `KeptIsReferenced` (3.5 million states) |
| `upload` | one fix, an honest and a mismatching upload, calls may fail | `PresentIsStored`, `StoredIsServable` |
| `liveness` | two fixes, reads of the replica fail now and then, no peer is promised | `EntryAnnounced`, `SupersededReleased`, `ReleasedReclaimed`; and `WantedSettles` for each hash whose peers are reachable now and then |
| `timing` | two entries, a friend who delivered both and wrote one, and a second author; a failed fetch lasts a tick; 13 instants | `WokenInTime`, `ArrivalUsed`, `PeerUsedInTime`, `BackoffKept` (3.65 million states) |
| `registry` | three phones on two platforms, two namespaces, one credential set to nothing, calls fail and phones hang up | `TypeOK`, `OneWatcher`, `GrantedIsJoined`, `SubscribedAsTold`, `WakesAsTold`, `RequestAnswered` |
| `writers` | two phones, each with a slot that is never accepted in front of a good one, one ciphertext in both namespaces, one restart | `TypeOK`, `ReceiptHonoured`, `NoCrossRead`, `BatchDelivered` |
| `process` | a deployment that gets one variable at a time wrong; sockets, signal handlers and the collector fail; every line of up to five characters; two events and a span | `KnobsSane`, `GateAsDeployed`, `ScrubbedExactly`, `ExportMirrorsConsole`, `CollectorSawConsole`, `ServesOrStops`, `SignalStops` |

The `v_*` runs check a sentence of the code's own documentation, or of a test, against an instance
in which the code does otherwise; TLC prints the schedule.

| Run | The code's words | What happens |
|---|---|---|
| `v_lost_wake` | "Woken immediately below when the content is already here" (`node.rs:474`) | the watcher reads back the `woken` it has just inserted, so nobody is woken |
| `v_orphan` | "no key class may outlive the retention window" (`retention.rs:443`) | the hash of an overwritten control slot is in no record, so no sweep forgets it |
| `v_missed` | "Transient by nature" (`node.rs:102`) | a record reconciles in before the watcher subscribes |

### Conditions of the passing runs

`WantedIsChased`, `WakeOnce`, `ParkedIsAnnounced` and `KeptIsReferenced` are checked where no two
records carry the same ciphertext (tombstones aside), the ordinary case for encrypted envelopes, although the code sets out to handle
identical ciphertext (`node.rs:719`). They need that condition:

- `WantedIsChased` (`node.rs:801`): a sweep drops the last reference, another namespace's watcher
  wants the hash again and finds it in `tracked`, and the sweep then removes it there;
- `WakeOnce` (`node.rs:585`): a settle pass holds a copy of an entry while a sweep and a second
  namespace's watcher replace the live one; the pass wakes the copy's namespace a second time, and
  the second namespace is never woken; for `ParkedIsAnnounced`, that is an entry nobody will look at
  again and nobody was told of;
- `KeptIsReferenced` (`node.rs:794`): a control record with the ciphertext of a superseded fix is
  taken up while a sweep acts on its older reading.

The first two schedules appear when `MCUnique.cfg` is given `SharedEntries`, two namespaces, the
one hash `h1`, `RetentionMs = 1`, `Horizon = 2` and `Faults = {}`.

`ParkedIsAnnounced` says nothing of bytes that were in the store before the watcher looked (`Early`:
the docs engine's download, an upload, the empty hash): the flag `woken` is then set and nobody is
told, which is `v_lost_wake`.

`KeptIsReferenced` and `DecisionStable` are about authors who may retire records. A decision to
release an older fix is taken back when its author retires the newer one: `DecisionStable` says that
this is the only way. The older fix may be long gone by then, and nothing takes it up again, so
`KeptIsReferenced` asks what the policy would keep of all that was *written* (`Written`), not of what
is left. It could not ask the latter: a phone that retires its latest fix leaves the stash with a
record that the policy would keep and the index does not have.

`PresentIsStored` and `EntryAnnounced` are checked where the docs engine's own download does not
beat the watcher. For `EntryAnnounced` the run `v_lost_wake` shows why. For `PresentIsStored`
(`node.rs:465`): the collector asks for the protected hashes between the engine's download and
`want`, so the watcher sees bytes that are about to be deleted; `EngineFetchable = {h1}` in
`MCUpload.cfg` shows it. `Writers`, where taking up a record is one step, leaves that window out.
`PresentIsStored` also needs unique ciphertext (`node.rs:567`): a settle pass finds bytes, a sweep
drops the last reference to them and the collector marks without it, a second namespace wants the
hash again, and the pass, whose entry is still in `tracked`, marks it present; then the collector
deletes the bytes. `MCShared.cfg` with `EngineFetchable = {}` and this invariant alone shows it. The
code means to handle the case ("must not have one's prune free bytes the other still needs",
`content.rs:44`).

`StoredIsServable` leaves out one case that the words "the stash can now serve these bytes"
(`node.rs:97`) do not: a sweep may release the hash between the check of an upload and its
`mark_present` (`node.rs:328`), which then has no effect, and the receipt is sent all the same.

`ReleasedReclaimed` is checked where the bytes come by fetches. "The next sweep frees the bytes"
(`node.rs:207`) is not so for an upload: the tag `add_bytes` leaves (`node.rs:324`) is never
deleted, so the bytes stay for the life of the process. `MCUpload.cfg` with `FairSpec`,
`Uploads <- OneUpload`, `Faults = {}` and this one property shows it.

`ChasedIsReferenced` of `StashNode` is what the comment of `tracked` promises ("Entries live here
until the release policy decides …", `node.rs:122`). No run checks it, because a sweep between
`want` and the insertion into `tracked` (`node.rs:482`) leaves an entry that is fetched until the
process ends; `MCUnique.cfg` with this invariant and `Faults = {}` shows the schedule.

`SupersededReleased` is checked in one namespace. Sweeps walk a hash map and end at the first
replica that cannot be read (`node.rs:743`), so a namespace that can never be read keeps those
behind it from being swept.

`SubscribedAsTold` is checked with unsubscriptions that carry the bare token. Registration trims
the token (`api.rs:72`) and unsubscription does not (`node.rs:1003`), so a phone that pads it in
both requests is told 204 and stays subscribed.

`CollectorSawConsole` is about graceful ends. When the serving task fails, `?` ends `main` before
`telemetry::shutdown`, and the last batch, which says why, is lost.

`ExportMirrorsConsole` is about the bodies of log records. Attributes and spans are exported
unredacted (`telemetry.rs:20`), full namespaces and hashes in `url.path` among them, while the
console hides what its fields have of them.

No run is about the counters of `/healthz`: they count the index, and the schedules above and
`v_orphan` and `v_missed` show how it comes to differ from store and replica.

### Observations

Behaviour met while modelling that is worth knowing and that no run is about:

- An address that touches a further `:` or ends with a `.` (the end of a sentence) is part of a
  longer run that does not parse, and is printed. `ScrubbedExactly` takes the runs as the code finds
  them.
- When the handler of SIGTERM cannot be installed, `shutdown_signal` returns at once and the process
  stops.
- With one platform routed and the other's bearer set, the second platform's pushes go out with an
  empty topic or project.
- A tombstone names the empty hash, which the watcher wants like any other: it is on the ledger and is
  chased until the store says that it has it, subscribers are woken for it after the fallback at the
  latest, and no sweep ever forgets it.
- The hash of a record that is retired before a sweep releases it is in no later reading, so its
  ciphertext stays referenced, as that of an overwritten slot does (`v_orphan`).
- A number too wide for u64 counts as unset and yields the default, not the upper bound.
- Control keys age out like any other (`retention.rs:189`, and the comment of `release_decisions`
  argues why), while the head of the module still says that it "deliberately leaves them alone"
  (`retention.rs:14`).

### Bounds

- `StashNode`: `Horizon` is the last clock value and stands for every later instant: a deadline is
  reached when the clock has passed it or is at `Horizon`. The window either ends before `Horizon`
  (1) or outlasts the run (9); in `unique` it is 0 and `Horizon` 1, an instant within the window and
  one past it. `MaxShift` caps `attempts` as `attempts.min(7)` does in
  `backoff_ms`: from there on another attempt changes nothing. `BASE_MS`, `CEILING_MS` and
  `WAKE_FALLBACK_MS` are 1, 2 and 1, so that growth and the ceiling both occur (in `unique` the
  backoff does not grow). `WakeCap` is how far
  `wakes` counts: 2 where "at most once" is checked, 1 where "at all" is, 0 (no history) elsewhere.
  Each entry reconciles in at most once, so inboxes are at most as long as there are records. Two
  namespaces and one hash, or one namespace and two hashes, are the smallest instances in which
  the races above occur. Namespaces are not declared symmetric: the records name them.
- `SettleTimes`: here `Horizon` is where the run stops. A tick and a timeout last 1, so a pass over
  two sleeping peers takes two ticks and the bound of two such passes is 5; the backoff grows 2, 4
  and meets its ceiling 6. Records arrive at instant 0 (`LastArrival`), so that 13 instants are
  enough for every one of the four bounds (at most 11) to be exceeded. Deadlock is not checked, as
  the clock stops.
- `Writers`: `MaxRestarts = 1`; a second restart meets the same phones in the same states.
- `StashProcess`: five characters with `MIN_OPAQUE = 3` and addresses of three characters give runs
  that nest, overlap by one or two, coincide and touch; two events are logged, one whose body hides a
  run that is an identifier and an address at once, and one whose field would complete an identifier
  begun in the body if no blank stood between them. The knobs keep the
  order of the real bounds (`U64_MAX` 60, `MS_PER_HOUR` 10), the environment differs from a good one
  in one variable, and processes follow one another without bound.

### Fairness

`FairSpec` of `StashNode` has weak fairness of the clock, each watcher, the settle loop, the prune
loop and the collector: tokio polls every task, and the timers of the loops fire again and again.
Nothing is assumed of phones, peers, uploads or failures. A pass that has nothing outstanding changes
nothing and is left out, so are sweeps before the first grant. `LiveSpec` adds strong fairness of a
successful read of each replica: reads fail now and then, not always. `PeersReachable(h)`, strong
fairness of the fetch of `h`, is about the world and no part of the specification: it is the
hypothesis of `WantedSettles`, hash by hash, and the other properties hold without it.

`Registry` has weak fairness of each handler: it is polled, and the docs engine answers.
`StashProcess` has weak fairness of `main` and the serving task, none of signals, log lines, batches
or the supervisor. `Writers` has weak fairness of the supervisor's restart, of replication and of each
phone's next step, since an app syncs again and again, and strong fairness of the store taking each
slot: `add_bytes` may fail now and then. Deadlock is checked in every run but `retention` and
`timing`, whose clocks run out.

## Proofs

Every safety property of the passing runs, invariant or action property, is a theorem, except
`ExportMirrorsConsole`.

`DataInduction` (any operator, first value and sequence) has what the provers lack for recursive
functions and folds:

- The induction theorems of the library take an operator, which none of the provers can instantiate.
  `WFMin` takes a set: it gives `LeastNumber`, and that gives `Induction` and `BoundedInduction` over
  the set of the numbers for which a statement holds.
- `Recursion`: a recursion over the natural numbers defines a function. `FoldSteps`: `FoldLeft` over a
  sequence passes through accumulators `F[0] = Base`, `F[k] = Op(ctx, F[k-1], seq[k])`. The community
  modules define `FoldLeft` by a function on the subsets of the domain that picks its maximum first;
  `UnrollsSome` shows that there is one. Operator and first accumulator are constants of
  the module: who needs the facts for an operator instantiates it.

`RetentionProofs` (for every window, key format and set of records):

- `StableDecisions`: `Spec => DecisionStable` — releasability is monotone in the clock and in the
  records, and what a tombstone takes away can be the reason for a release only if it is a later fix
  of the same author; that is what makes it sound that a sweep acts on an old reading;
- `OneSeq`, `LatestKept`: the kept records hold one sequence number per author, and an author's
  highest fix is kept while it is fresh. Both need that a replica is never more than the records;
- `AnyOrder`: `StreamOrderIrrelevant`. By induction over the stream, the fold of `latest_by_author`
  has exactly the authors seen so far, each with the highest of its sequence numbers (`LatestOf`,
  kept by `BumpLatest`); a stream has every record of the replica, so the order plays no part, and
  `latest[author]` is never read where there is none.

`StashNodeProofs` (for every instance of the constants under `NodeAssumption` and
`RetentionAssumption`; no assumption that ciphertext is distinct):

- `TypeCorrect`: `TypeOK` is inductive because it says of each task in the middle of something
  that it still has that something: a watcher past `"idle"` has its event, a pass that fetches has
  its item, a sweep that forgets has its namespace. It is split by task; `SameParts` discharges the
  parts an action leaves alone.
- `ReferenceCount`: every step leaves the index alone or makes one `want`, `mark_present` or
  `forget` (`IndexStep`); each keeps the count exact.
- `Refinement`: `Spec => ImplementsContentRefs`, with the index read as the relation of pairs and
  the set of present hashes. `IndexStep` and exactness make each step a reference, a confirmation,
  a release or a stutter.

`UniqueProofs` (the node again; the hypothesis of a theorem is part of its statement). Unique
ciphertext (`UniqueCiphertext`: no two records have the same hash) is what encryption makes the
ordinary case; *Conditions of the passing runs* says what happens without it. It allows a single
tombstone; `KeptReferenced` needs only `SealedUnique`, which allows any number. A hash then has a
life: it is `Ahead` of its event, then with the one watcher that handles that event, then on the
settle loop's list, then with a sweep. The invariants say who may hold it when, and TLC has checked
each of them on the instances of `unique` and `upload` besides:

- `InboxInv`: a queue holds each record of its namespace once; `LedgerInv`: a hash that is ahead of
  its event, or with its watcher before the insertion into `tracked`, is `Unlisted` (no entry, no pass, no wake has
  it), and ahead of it also `Unnamed` (no index, sweep or upload has it);
- `Chased` (`WantedIsChased`) needs of a sweep that between `forget` and the removal from `tracked`
  the hash has no state; no other watcher can want it in that gap, since its one record is no longer ahead;
- `WokenOnce` (`WakeOnce`) needs that an entry not woken yet has no wake behind it and none under way
  (`WakeInv`), also for the copy a pass holds;
- `ParkedAnnounced` (`ParkedIsAnnounced`, where `WakeCap > 0` so that wakes are counted) needs that an
  entry that says `woken` has its wake behind it or in the list of the pass under way, and that bytes
  which are not `Early` are not stored before the hash is listed (`AnnounceInv`), so that a pass and not
  a watcher finds them; and that the pass's copy names the namespace of the hash's one record
  (`OwnerInv`);
- `KeptReferenced` (`KeptIsReferenced`) needs that what a sweep has listed is releasable *now* with
  respect to all that was written (`ForgetInv`): a tombstone takes the place of what it retires, under
  the same key, so that this only grows and the old reading carries over the steps of all others;
- `PresentStored` (`PresentIsStored`), where moreover the docs engine's download does not come first
  (`EngineFetchable = {}`): whoever is about to mark a hash has it in the store, and the collector
  between mark and deletion has it among the live ones (`BytesInv`);
- `ReceiptIsServable` (`StoredIsServable`) holds of shared ciphertext, too: what an upload added is
  tagged, and what has a tag is never collected (`TagInv`).

`WritersProofs` (any phones, batches, corrupt and late records, reads and restarts, under
`WritersAssumption`: a phone offers records of its own namespace, and at least one):

- one inductive invariant carries all three theorems. The index has exactly the records that are
  here and not released (`RefsExact`) and a state for exactly the hashes they name (`StateExact`);
  an upload under way is for a record that is
  here, and what it added is tagged, so that the collector spares it until `mark_present`
  (`UploadsHere`); a receipt's record is released, or its hash present and tagged
  (`ReceiptsPresent`); a read under way is of a record that is here (`ReadsHere`). That what is called
  present is stored is no part of it and not so: bytes that came by the settle loop may be deleted
  before they are marked.
- `TypeCorrect`, `ReceiptsLast` (`ReceiptHonoured`) and `ReadsStayInside` (`NoCrossRead`) follow from
  it.

`ProcessProofs` (any deployment, faults, messages and lines):

- `Knobs`: `KnobsSane` from `KnobsInv` (a running process has the configuration of some environment)
  and lemmas about `Parse`, `Clamp` and `FromHours`; `ConfigAssumption` has what the constants of
  `config.rs` satisfy, among it that the longest window does not saturate u64 in milliseconds.
- `LastBatch`: `CollectorSawConsole` from `PipeInv`, which says where each record and span is at any
  time: in the batch, with the collector, or refused.
- `BodiesLeaveScrubbed`: with `LineScrubbed` (below), `PipeInv` also has that the body of whatever is
  batched, taken or refused is the body of an event with exactly its sensitive runs taken out. It says
  nothing of attributes and spans, which the code does not redact.
- `GateHolds`: `GateAsDeployed`, since a process runs with the environment it read and nothing listens
  between two of them (`GateInv`). `ProcessAssumption` says that a key that is set has a text, and
  that a line is a sequence.
- `LineScrubbed`, and from it `Scrubs` (`ScrubbedExactly`): lines of any length, any classes of
  characters, any notion of an address. There are finitely many ranges, so the sorted sequence exists
  and has each of them (`SortedSome`, `SortedRanges`). `Q[d]` is what the first `d` positions of the
  masked line are squeezed to. After each range the loop has put out what squeezes to `Q[copied]`, and
  no range so far reaches beyond `copied` (`Through`). A range that ends behind `copied` changes
  nothing; one that begins behind it and ends ahead hides all it adds; before one that begins ahead, the stretch up to
  its start is in no range, since the earlier ones end before it and the later ones start after
  (`CopyStep`). `KeptStretch` and `HiddenStretch` are the two kinds of stretch.

`RegistryProofs` (any number of phones, namespaces and requests):

- `Joined`: `GrantedIsJoined`, strengthened by "a handler about to grant has left a handle behind".
- `SingleWatcher`: `OneWatcher`, from the invariant that a granted namespace either has its one
  watcher and nobody about to start another, or has none and exactly one handler about to.
- `Types`: `TypeOK`. `HandlerInv` says that what a handler serves was accepted, and that those in the
  queue of the lock are exactly the handlers between lookup and handle, each once, the one inside
  at its head. The lemmas `Enqueued`, `Dequeued` and `Left` are about sequences that hold each
  element once; `Left` is a handler that is dropped somewhere in the queue.
- `Told`: `SubscribedAsTold` from `ToldInv`. Only between a first grant and its answer
  is the registry ahead of the phone (`Agrees`). Its hypothesis `OwnTokens` is what identifies a
  phone to the registry: the token a phone presents, trimmed when it registers, is its own, and no
  other phone has it.
- `WakesReachTold`: `WakesAsTold` from `ToldInv` and what `Push` builds of one subscription. Its further
  hypothesis `Routed` is a deployment that sets a provider's routing id with its credential
  (*Observations* says what happens without). `MCRegistry` assumes both of its instance.

`SettleTimesProofs` (any number of entries and peers, any interval, timeout, fallback and backoff):

- `TimesInv` is the loop in time: a pass has one timeout for each entry still to be handled and so
  ends one `Pass` after its start at the latest, and the tick after it is due one interval after
  that start (`Budget`); what a pass is about to handle is outstanding, and a wake that is owed is
  one of the pass under way (`Shape`).
- `WokenBy`, `UsedBy`, `FetchedBy` (`WokenInTime`, `ArrivalUsed`, `PeerUsedInTime`) share one form,
  `OnTime`: for an entry that matters since some instant, an idle loop is not late, and a pass began
  before it could be late or has the entry still before it. They differ in what "before it" is and
  in the slack: the fallback, nothing, and the ceiling of the backoff. For `FetchedBy`, an attempt that
  failed although the peer is awake means that the peer woke up after the pass began, so
  the backoff it sets ends in time.
- `BackoffHolds`: `BackoffKept`. `NthTryIs` solves the recursion of the schedule. `ScheduleInv` says
  that the next attempt of an entry is no earlier than the schedule has it, counted in fetches
  that have been settled: the one under way, or just failed, is not among them yet (`Counted`). It
  needs that an entry in a pass was first seen no later than the pass began, since the pass stamps
  the backoff with that instant; and that capping the count first and the exponent again
  is capping once (`BackoffCapped`). TLC has checked `ScheduleInv` on the instance of `timing`.

**Only model-checked.** `ExportMirrorsConsole`, which would need that no run of a line reaches over
the blank between message and fields. And what holds under fairness: `WantedSettles`, `SupersededReleased`,
`ReleasedReclaimed`, `EntryAnnounced`, `RequestAnswered`, `BatchDelivered`, `ServesOrStops` and
`SignalStops`. No backend here reasons about ENABLED, which weak and strong fairness are made of.

**Assumptions about constants.** `RegistryAssumption`: requests name namespaces of the model or
nothing, tokens are described as `ControlApi` says, and `None` is none of the values beside it;
`SettleAssumption`: the intervals are positive, entries finite, and the powers of two up to
`MaxShift` natural numbers (a fact the provers do not know); `NodeAssumption`, `RetentionAssumption`,
`WritersAssumption`, `ConfigAssumption`, `ProcessAssumption` are alike. TLC evaluates all of them.

## Not modelled

- JSON decoding, body limits and malformed-path answers of the control API: axum's work, refusals
  that change nothing.
- The counters of `/healthz`: see *Conditions of the passing runs*.
- The parents of spans, trace propagation (`traceparent` in a push) and the shortening of identifiers in logs: no
  state the rest reads.
- A delivery service that rejects: only a test double does.
- The reason attached to a release, and log texts.
- The Helm chart and the workflows (no program logic).
- Restarts in `StashNode` itself: a restart is its `Init`, and what outlives it, the phones, is in
  `Writers`.

## Plan

1. *Done:* content index, release policy, the node's concurrent core, its abstract specification
   and first theorems; the control plane with registration, subscriptions and pushes.
2. *Done:* configuration, process, log pipeline and redaction; writers through restarts; the settle
   loop in real time; push requests; proofs about `Writers`, `StashProcess` and `Registry`.
3. Composition of the wakes of `StashNode` with the subscriptions of `Registry`, per namespace: who
   is woken for an entry that two namespaces share (`node.rs:486`).
4. *Done:* proofs about `StashNode` under `UniqueCiphertext`, the rest of `Registry`, the gate of
   `StashProcess`, and the deadlines of `SettleTimes`.
5. What of these theorems holds of shared ciphertext: the sweep's gap closed (`node.rs:801`) would
   make `WantedIsChased` unconditional, and is the next thing to state.
6. *Done:* induction over data: `StreamOrderIrrelevant`, `BackoffKept` and `ScrubbedExactly` for every
   stream, schedule and line.
