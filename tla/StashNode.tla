------------------------------ MODULE StashNode ------------------------------
(***************************************************************************)
(* node.rs: the concurrent core of the stash.  One watcher task per        *)
(* namespace, one settle loop, one prune loop, the PUT handlers and the    *)
(* blob collector share four things: the content index, the map of tracked *)
(* entries, the blob store and the replicated documents.                   *)
(*                                                                         *)
(* A step is one critical section or one call into the docs engine or the  *)
(* blob store, that is, the code between two points where another task may *)
(* run.  Control that survives such a point (a snapshot, a flag, the       *)
(* current item of a loop) is part of the task's record.                   *)
(***************************************************************************)
EXTENDS ContentIndex, Retention, Sequences

CONSTANTS
    Entries,          \* the signed records the phones may write
    EngineFetchable,  \* hashes the docs engine's own single download may get
    Uploads,          \* PUT requests [ns, hash, matches]: does the body hash to the URL
    Faults,           \* which calls may fail: "store", "stream", "replica", "upload"
    WAKE_FALLBACK_MS, \* an entry this old is announced without its bytes
    BASE_MS, CEILING_MS, MaxShift,   \* backoff_ms
    Horizon,          \* the last clock value; stands for every later instant too
    WakeCap,          \* how far `wakes` counts; 0 keeps no history
    Empty,            \* the hash of no bytes: a record that carries it is a tombstone
    None              \* no hash, no namespace

ASSUME NodeAssumption ==
    /\ \A e \in Entries : e.ns \in Namespaces /\ e.hash \in Hashes /\ e.timestamp \in Nat
    /\ \A u \in Uploads : u.ns \in Namespaces /\ u.hash \in Hashes /\ u.matches \in BOOLEAN
    /\ EngineFetchable \subseteq Hashes
    /\ Faults \subseteq {"store", "stream", "replica", "upload"}
    /\ Horizon \in Nat /\ MaxShift \in Nat /\ WAKE_FALLBACK_MS \in Nat /\ WakeCap \in Nat

VARIABLES
    clock,      \* now_ms()
    doc,        \* ns -> the last record under each key of the replica, tombstones too
    engine,     \* downloads the docs engine has queued
    handles,    \* StashNode.handles: the namespaces imported
    watch,      \* ns -> the watcher task
    inbox,      \* ns -> entries whose InsertRemote event is not fully handled, oldest first
    missed,     \* history: entries whose event no watcher will see
    content,    \* StashNode.content
    tracked,    \* StashNode.tracked
    stored,     \* hashes whose bytes are in the blob store
    tagged,     \* hashes with a persistent tag
    gc,         \* the blob collector
    settle,     \* run_settle_loop
    prune,      \* run_prune_loop
    uploads,    \* request -> how far its handler got
    wakes       \* history: ns -> hash -> number of wakes, capped at WakeCap

world     == <<doc, engine, handles, inbox, missed>>
blobs     == <<stored, tagged, gc>>
vars == <<clock, doc, engine, handles, watch, inbox, missed, content, tracked,
          stored, tagged, gc, settle, prune, uploads, wakes>>

(***************************************************************************)
(* Data.                                                                   *)
(***************************************************************************)
Least(a, b) == IF a <= b THEN a ELSE b

\* The clock has passed t.  Horizon is later than every deadline.
Reached(now, t) == now >= t \/ now = Horizon

\* TrackedEntry::backoff_ms
Backoff(attempts) == Least(BASE_MS * 2^Least(attempts, MaxShift), CEILING_MS)

\* Values of next_attempt_ms.
Instants == {0} \cup {t + Backoff(a) : t \in 0..Horizon, a \in 0..MaxShift}

TrackedEntry == [namespace : Namespaces, first_seen_ms : 0..Horizon,
                 content_present : BOOLEAN, woken : BOOLEAN,
                 next_attempt_ms : Instants, attempts : 0..MaxShift]

\* What a settle pass copies of an outstanding entry, and the wake it may owe for it.
Copies == [hash : Hashes, namespace : Namespaces, next_attempt_ms : Instants]
Wakes  == [hash : Hashes, namespace : Namespaces]

WatchPc  == {"absent", "spawned", "idle", "probe", "track", "mark", "wake", "dead"}
At(pc)   == [pc |-> pc, present |-> FALSE, known |-> FALSE]
SettlePc == {"idle", "pass", "fetch", "apply", "wake"}
PrunePc  == {"idle", "scan", "forget", "untrack"}
UploadPc == {"idle", "checked", "added", "Stored", "UnknownNamespace",
             "UntrackedHash", "HashMismatch", "failed"}

SettleIdle == [pc |-> "idle", now |-> 0, todo |-> {}, item |-> None,
               present |-> FALSE, wake |-> {}]
PruneIdle  == [pc |-> "idle", now |-> 0, todo |-> {}, ns |-> None, forget |-> {}, hash |-> None]
GcIdle     == [pc |-> "idle", live |-> {}]

\* NamespaceRegistry::known_namespaces: the first registration spawns the watcher.
Known == {ns \in Namespaces : watch[ns].pc # "absent"}

\* A watcher holds an event stream.
Subscribed(ns) == watch[ns].pc \notin {"absent", "spawned", "dead"}

Without(f, x) == [y \in DOMAIN f \ {x} |-> f[y]]

Init ==
    /\ clock = 0
    /\ doc = [ns \in Namespaces |-> {}]
    /\ engine = {}
    /\ handles = {}
    /\ watch = [ns \in Namespaces |-> At("absent")]
    /\ inbox = [ns \in Namespaces |-> <<>>]
    /\ missed = {}
    /\ content = NewIndex
    /\ tracked = [h \in {} |-> 0]
    /\ stored = {}
    /\ tagged = {}
    /\ gc = GcIdle
    /\ settle = SettleIdle
    /\ prune = PruneIdle
    /\ uploads = [u \in Uploads |-> "idle"]
    /\ wakes = [ns \in Namespaces |-> [h \in Hashes |-> 0]]

(***************************************************************************)
(* Registration and replication.  Import is the critical section of        *)
(* `register` (a repeated call finds the handle and changes nothing),      *)
(* Grant the registry call and the spawn of the watcher.                   *)
(***************************************************************************)
Import(ns) ==
    /\ ns \notin handles
    /\ handles' = handles \cup {ns}
    /\ UNCHANGED <<clock, doc, engine, watch, inbox, missed, content, tracked,
                   blobs, settle, prune, uploads, wakes>>

Grant(ns) ==
    /\ ns \in handles
    /\ watch[ns].pc = "absent"
    /\ watch' = [watch EXCEPT ![ns] = At("spawned")]
    /\ UNCHANGED <<clock, world, content, tracked, blobs, settle, prune, uploads, wakes>>

\* Range reconciliation or gossip inserts e, which replaces an older record
\* under the same key; the engine queues one download and tells subscribers.
\* (A download that no peer could serve changes nothing and is not queued.)
\* A tombstone is such a record: it retires what its author had under the key
\* (one for a whole prefix counts as one for each key) and raises the same
\* event, which the watcher does not tell from any other.
Reconcile(e) ==
    /\ e.ns \in handles
    /\ e \notin doc[e.ns]
    /\ \A f \in doc[e.ns] : f.key = e.key => f.timestamp < e.timestamp
    /\ doc' = [doc EXCEPT ![e.ns] = {f \in @ : f.key # e.key} \cup {e}]
    /\ engine' = engine \cup (({e.hash} \cap EngineFetchable) \ stored)
    /\ IF Subscribed(e.ns)
       THEN inbox' = [inbox EXCEPT ![e.ns] = Append(@, e)] /\ UNCHANGED missed
       ELSE missed' = missed \cup {e} /\ UNCHANGED inbox
    /\ UNCHANGED <<clock, handles, watch, content, tracked, blobs, settle, prune, uploads, wakes>>

\* Bytes arrive in the store; a collector sweep under way spares them.
Arrives(h) ==
    /\ stored' = stored \cup {h}
    /\ gc' = IF gc.pc = "sweep" THEN [gc EXCEPT !.live = @ \cup {h}] ELSE gc

EngineDownload(h) ==
    /\ h \in engine
    /\ engine' = engine \ {h}
    /\ Arrives(h)
    /\ UNCHANGED <<clock, doc, handles, inbox, missed, watch, content, tracked, tagged,
                   settle, prune, uploads, wakes>>

EngineGivesUp(h) ==
    /\ h \in engine
    /\ engine' = engine \ {h}
    /\ UNCHANGED <<clock, doc, handles, inbox, missed, watch, content, tracked, blobs,
                   settle, prune, uploads, wakes>>

Tick ==
    /\ clock < Horizon
    /\ clock' = clock + 1
    /\ UNCHANGED <<world, watch, content, tracked, blobs, settle, prune, uploads, wakes>>

(***************************************************************************)
(* spawn_watch: the watcher of one namespace.                              *)
(***************************************************************************)
Subscribe(ns) ==
    /\ watch[ns].pc = "spawned"
    /\ watch' = [watch EXCEPT ![ns] = At("idle")]
    /\ UNCHANGED <<clock, world, content, tracked, blobs, settle, prune, uploads, wakes>>

SubscribeFails(ns) ==
    /\ "stream" \in Faults
    /\ watch[ns].pc = "spawned"
    /\ watch' = [watch EXCEPT ![ns] = At("dead")]
    /\ UNCHANGED <<clock, world, content, tracked, blobs, settle, prune, uploads, wakes>>

\* The event stream yields an error: the task ends and nobody restarts it.
StreamFails(ns) ==
    /\ "stream" \in Faults
    /\ watch[ns].pc = "idle"
    /\ watch' = [watch EXCEPT ![ns] = At("dead")]
    /\ missed' = missed \cup {inbox[ns][i] : i \in DOMAIN inbox[ns]}
    /\ inbox' = [inbox EXCEPT ![ns] = <<>>]
    /\ UNCHANGED <<clock, doc, engine, handles, content, tracked, blobs, settle, prune, uploads, wakes>>

\* The entry whose event the watcher is handling.
Current(ns) == Head(inbox[ns])

\* want: the record is here, its bytes are a separate transfer.
WatchWant(ns) ==
    /\ watch[ns].pc = "idle"
    /\ inbox[ns] # <<>>
    /\ content' = Want(content, ns, Current(ns).hash)
    /\ watch' = [watch EXCEPT ![ns] = [@ EXCEPT !.pc = "probe"]]
    /\ UNCHANGED <<clock, world, tracked, blobs, settle, prune, uploads, wakes>>

\* The answers of has(h).await.unwrap_or(false): an error counts as no, and
\* whether a store that was never given no bytes has them is its own affair.
Has(h) == {answer \in BOOLEAN : IF answer THEN h \in stored \/ h = Empty
                                 ELSE h \notin stored \/ "store" \in Faults}

WatchProbe(ns) ==
    /\ watch[ns].pc = "probe"
    /\ \E present \in Has(Current(ns).hash) :
           watch' = [watch EXCEPT ![ns] = [@ EXCEPT !.pc = "track", !.present = present]]
    /\ UNCHANGED <<clock, world, content, tracked, blobs, settle, prune, uploads, wakes>>

\* The record the watcher offers to `tracked`.
FreshEntry(ns) ==
    [namespace |-> ns, first_seen_ms |-> clock, content_present |-> watch[ns].present,
     woken |-> watch[ns].present, next_attempt_ms |-> 0, attempts |-> 0]

\* The watcher is done with the current event.
NextEvent(ns) == /\ watch' = [watch EXCEPT ![ns] = At("idle")]
                 /\ inbox' = [inbox EXCEPT ![ns] = Tail(@)]

\* entry(hash).or_insert_with(..): what is tracked already stays as it is.
OrInsert(h, entry) ==
    [g \in DOMAIN tracked \cup {h} |-> IF g \in DOMAIN tracked THEN tracked[g] ELSE entry]

WatchTrack(ns) ==
    /\ watch[ns].pc = "track"
    /\ tracked' = OrInsert(Current(ns).hash, FreshEntry(ns))
    /\ IF watch[ns].present
       THEN /\ watch' = [watch EXCEPT ![ns] =
                            [@ EXCEPT !.pc = "mark", !.known = tracked'[Current(ns).hash].woken]]
            /\ UNCHANGED inbox
       ELSE NextEvent(ns)
    /\ UNCHANGED <<clock, doc, engine, handles, missed, content, blobs, settle, prune, uploads, wakes>>

WatchMark(ns) ==
    /\ watch[ns].pc = "mark"
    /\ content' = MarkPresent(content, Current(ns).hash)
    /\ IF watch[ns].known
       THEN NextEvent(ns)
       ELSE watch' = [watch EXCEPT ![ns] = [@ EXCEPT !.pc = "wake"]] /\ UNCHANGED inbox
    /\ UNCHANGED <<clock, doc, engine, handles, missed, tracked, blobs, settle, prune, uploads, wakes>>

\* wake_for reaching the waker (the delivery service admits everything).
WakeFor(ns, h) == wakes' = [wakes EXCEPT ![ns][h] = Least(@ + 1, WakeCap)]

WatchWake(ns) ==
    /\ watch[ns].pc = "wake"
    /\ WakeFor(ns, Current(ns).hash)
    /\ NextEvent(ns)
    /\ UNCHANGED <<clock, doc, engine, handles, missed, content, tracked, blobs, settle, prune, uploads>>

(***************************************************************************)
(* run_settle_loop / settle_once.  `now` is read once per pass; `todo` is  *)
(* the pass's copy of the outstanding entries and `item` the one at hand.  *)
(* A pass with nothing outstanding changes nothing and is left out.        *)
(***************************************************************************)
Outstanding == {h \in DOMAIN tracked : ~tracked[h].content_present}

Copy(h) == [hash |-> h, namespace |-> tracked[h].namespace,
            next_attempt_ms |-> tracked[h].next_attempt_ms]

SettleStart ==
    /\ settle.pc = "idle"
    /\ Outstanding # {}
    /\ settle' = [SettleIdle EXCEPT !.pc = "pass", !.now = clock,
                                    !.todo = {Copy(h) : h \in Outstanding}]
    /\ UNCHANGED <<clock, world, watch, content, tracked, blobs, prune, uploads, wakes>>

\* Faulty variant: one attempt per entry.
DueOnce(o) == o.next_attempt_ms = 0

\* The pass may try to fetch: now >= entry.next_attempt_ms, of the copy.
Due(o) == Reached(settle.now, o.next_attempt_ms)

\* has(hash) || (now >= next_attempt_ms && ..
SettleProbe(o) ==
    /\ settle.pc = "pass"
    /\ \E has \in Has(o.hash) :
           settle' = [settle EXCEPT !.todo = @ \ {o}, !.item = o, !.present = has,
                                    !.pc = IF ~has /\ Due(o) THEN "fetch" ELSE "apply"]
    /\ UNCHANGED <<clock, world, watch, content, tracked, blobs, prune, uploads, wakes>>

\* .. && fetch_content(..)): some source had the bytes, or none did within the timeout.
FetchOk ==
    /\ settle.pc = "fetch"
    /\ Arrives(settle.item.hash)
    /\ settle' = [settle EXCEPT !.pc = "apply", !.present = TRUE]
    /\ UNCHANGED <<clock, world, watch, content, tracked, tagged, prune, uploads, wakes>>

FetchFails ==
    /\ settle.pc = "fetch"
    /\ settle' = [settle EXCEPT !.pc = "apply"]
    /\ UNCHANGED <<clock, world, watch, content, tracked, blobs, prune, uploads, wakes>>

\* The rest of the pass, then the wakes it produced, then the next tick.
SettleOn(wake) ==
    IF settle.todo = {} /\ wake = {}
    THEN SettleIdle
    ELSE [settle EXCEPT !.pc = IF settle.todo = {} THEN "wake" ELSE "pass",
                        !.item = None, !.present = FALSE, !.wake = wake]

\* saturating_add(1); from MaxShift on, one more changes nothing.  Faulty without the cap.
TriesUncapped(h) == tracked[h].attempts + 1
Tries(h) == Least(tracked[h].attempts + 1, MaxShift)

\* The live record of h with its flags set and its backoff grown after a failed attempt.
SettledAs(h, parked, woken) ==
    LET retry == ~settle.present /\ Due(settle.item)
    IN  [tracked[h] EXCEPT !.content_present = parked, !.woken = woken,
                           !.attempts        = IF retry THEN Tries(h) ELSE @,
                           !.next_attempt_ms = IF retry THEN settle.now + Backoff(Tries(h)) ELSE @]

Overdue(h) == Reached(settle.now, tracked[h].first_seen_ms + WAKE_FALLBACK_MS)

\* Faulty variants: bytes landing wake nobody; an overdue entry counts as
\* settled; an overdue entry is not announced.
SettledQuiet(h) ==
    SettledAs(h, tracked[h].content_present \/ settle.present, tracked[h].woken \/ Overdue(h))
SettledGivesUp(h) ==
    SettledAs(h, tracked[h].content_present \/ settle.present \/ Overdue(h),
                 tracked[h].woken \/ settle.present \/ Overdue(h))
SettledNoFallback(h) ==
    SettledAs(h, tracked[h].content_present \/ settle.present, tracked[h].woken \/ settle.present)

\* What one pass makes of the live record of h.
Settled(h) ==
    SettledAs(h, tracked[h].content_present \/ settle.present,
                 tracked[h].woken \/ settle.present \/ Overdue(h))

\* The pass's wake for h is addressed from the pass's copy of the entry.
WakeOf(o) == [hash |-> o.hash, namespace |-> o.namespace]

\* Faulty variant: whoever finds the entry ready announces it.
OwedWakeAgain(h) == IF Settled(h).woken THEN {WakeOf(settle.item)} ELSE {}

\* The wake is owed exactly when this pass is the one that sets `woken`.
OwedWake(h) == IF Settled(h).woken /\ ~tracked[h].woken THEN {WakeOf(settle.item)} ELSE {}

SettleApply ==
    /\ settle.pc = "apply"
    /\ LET h == settle.item.hash
       IN  IF h \in DOMAIN tracked
           THEN /\ tracked' = [tracked EXCEPT ![h] = Settled(h)]
                /\ content' = IF settle.present THEN MarkPresent(content, h) ELSE content
                /\ settle' = SettleOn(settle.wake \cup OwedWake(h))
           ELSE /\ settle' = SettleOn(settle.wake)     \* pruned out from under us mid-pass
                /\ UNCHANGED <<tracked, content>>
    /\ UNCHANGED <<clock, world, watch, blobs, prune, uploads, wakes>>

SettleWake(w) ==
    /\ settle.pc = "wake"
    /\ WakeFor(w.namespace, w.hash)
    /\ settle' = SettleOn(settle.wake \ {w})
    /\ UNCHANGED <<clock, world, watch, content, tracked, blobs, prune, uploads>>

(***************************************************************************)
(* run_prune_loop / prune_once.  `now` is read once per sweep, and the     *)
(* release decisions of a namespace come from one read of its records.     *)
(***************************************************************************)
\* A record as the sweep sees it; iroh-docs stamps microseconds.
PruneCandidate(e) == [key |-> e.key, hash |-> e.hash, written_ms |-> e.timestamp \div 1000]

\* Query::all leaves the tombstones out.
Candidates(ns) == {PruneCandidate(e) : e \in {f \in doc[ns] : f.hash # Empty}}

\* Faulty variant: the first fix of an author is kept instead of the last.
ForgetNewer(ns, now) ==
    LET newer(c) == \E d \in Candidates(ns) :
                        /\ IsFixKey(c.key) /\ IsFixKey(d.key)
                        /\ FixAuthor(c.key) = FixAuthor(d.key) /\ FixSeq(d.key) < FixSeq(c.key)
    IN  {c.hash : c \in {x \in Candidates(ns) : newer(x)}}

\* Hashes only releasable records name.
ForgetHashes(ns, now) ==
    LET all  == Candidates(ns)
        kept == {c \in all : ~Releasable(c, all, now)}
    IN  {c.hash : c \in all \ kept} \ {c.hash : c \in kept}

PruneStart ==
    /\ prune.pc = "idle"
    /\ Known # {}
    /\ prune' = [PruneIdle EXCEPT !.pc = "scan", !.now = clock, !.todo = Known]
    /\ UNCHANGED <<clock, world, watch, content, tracked, blobs, settle, uploads, wakes>>

\* What the sweep does once `forget` is what is left of this namespace.
PruneOn(todo, forget) ==
    IF forget # {} THEN [prune EXCEPT !.pc = "forget", !.todo = todo, !.forget = forget, !.hash = None]
    ELSE IF todo # {} THEN [PruneIdle EXCEPT !.pc = "scan", !.now = prune.now, !.todo = todo]
    ELSE PruneIdle

PruneScan(ns) ==
    /\ prune.pc = "scan"
    /\ ns \in prune.todo \cap handles
    /\ LET forget == ForgetHashes(ns, prune.now)
           next   == PruneOn(prune.todo \ {ns}, forget)
       IN  prune' = IF forget # {} THEN [next EXCEPT !.ns = ns] ELSE next
    /\ UNCHANGED <<clock, world, watch, content, tracked, blobs, settle, uploads, wakes>>

\* get_many or its stream fails: the whole sweep ends.
PruneScanFails ==
    /\ "replica" \in Faults
    /\ prune.pc = "scan"
    /\ prune' = PruneIdle
    /\ UNCHANGED <<clock, world, watch, content, tracked, blobs, settle, uploads, wakes>>

PruneForget(h) ==
    /\ prune.pc = "forget"
    /\ h \in prune.forget
    /\ content' = Forget(content, prune.ns, h)
    /\ prune' = IF DropsLast(content, prune.ns, h)
                THEN [prune EXCEPT !.pc = "untrack", !.hash = h, !.forget = @ \ {h}]
                ELSE PruneOn(prune.todo, prune.forget \ {h})
    /\ UNCHANGED <<clock, world, watch, tracked, blobs, settle, uploads, wakes>>

PruneUntrack ==
    /\ prune.pc = "untrack"
    /\ tracked' = Without(tracked, prune.hash)
    /\ prune' = PruneOn(prune.todo, prune.forget)
    /\ UNCHANGED <<clock, world, watch, content, blobs, settle, uploads, wakes>>

(***************************************************************************)
(* put_content: the handler of one PUT.                                    *)
(***************************************************************************)
\* The answer of the checks before the bytes are added.
PutVerdict(u) ==
    CASE u.ns \notin Known                        -> "UnknownNamespace"
      [] u.ns \in Known /\ ~IsTrackedFor(content, u.ns, u.hash) -> "UntrackedHash"
      [] u.ns \in Known /\  IsTrackedFor(content, u.ns, u.hash) ->
             IF u.matches THEN "checked" ELSE "HashMismatch"

\* A writer told that nothing wants its bytes yet may try again.
PutCheck(u) ==
    /\ uploads[u] \in {"idle", "UnknownNamespace", "UntrackedHash"}
    /\ uploads' = [uploads EXCEPT ![u] = PutVerdict(u)]
    /\ UNCHANGED <<clock, world, watch, content, tracked, blobs, settle, prune, wakes>>

\* add_bytes(..).await stores the bytes under a tag of their own.
PutAdd(u) ==
    /\ uploads[u] = "checked"
    /\ Arrives(u.hash)
    /\ tagged' = tagged \cup {u.hash}
    /\ uploads' = [uploads EXCEPT ![u] = "added"]
    /\ UNCHANGED <<clock, world, watch, content, tracked, settle, prune, wakes>>

\* Faulty variant: the receipt is given without the confirmation.
PutMarkNothing(u) ==
    /\ uploads[u] = "added"
    /\ uploads' = [uploads EXCEPT ![u] = "Stored"]
    /\ UNCHANGED <<clock, world, watch, content, tracked, blobs, settle, prune, wakes>>

PutMark(u) ==
    /\ uploads[u] = "added"
    /\ content' = MarkPresent(content, u.hash)
    /\ uploads' = [uploads EXCEPT ![u] = "Stored"]
    /\ UNCHANGED <<clock, world, watch, tracked, blobs, settle, prune, wakes>>

\* The store refuses, or the client hangs up and the handler is dropped at its await.
PutAbort(u) ==
    /\ "upload" \in Faults
    /\ uploads[u] \in {"checked", "added"}
    /\ uploads' = [uploads EXCEPT ![u] = "failed"]
    /\ UNCHANGED <<clock, world, watch, content, tracked, blobs, settle, prune, wakes>>

(***************************************************************************)
(* The blob collector of iroh-blobs: it asks for the protected hashes,     *)
(* adds what is tagged, then deletes the rest.                             *)
(***************************************************************************)
GcMark ==
    /\ gc.pc = "idle"
    /\ gc' = [pc |-> "sweep", live |-> Referenced(content) \cup tagged]
    /\ UNCHANGED <<clock, world, watch, content, tracked, stored, tagged, settle, prune, uploads, wakes>>

GcSweep ==
    /\ gc.pc = "sweep"
    /\ stored' = stored \cap gc.live
    /\ gc' = GcIdle
    /\ UNCHANGED <<clock, world, watch, content, tracked, tagged, settle, prune, uploads, wakes>>

(***************************************************************************)
(* The node.                                                               *)
(***************************************************************************)
Replication ==
    \/ \E ns \in Namespaces : Import(ns) \/ Grant(ns)
    \/ \E e \in Entries : Reconcile(e)
    \/ \E h \in Hashes : EngineDownload(h) \/ EngineGivesUp(h)

\* The watcher's own progress; the two error arms are below, in Errors.
Watch(ns) == \/ Subscribe(ns) \/ WatchWant(ns) \/ WatchProbe(ns)
             \/ WatchTrack(ns) \/ WatchMark(ns) \/ WatchWake(ns)

Settle == \/ SettleStart \/ FetchOk \/ FetchFails \/ SettleApply
          \/ \E o \in settle.todo : SettleProbe(o)
          \/ \E w \in settle.wake : SettleWake(w)

Prune == \/ PruneStart \/ PruneUntrack
         \/ \E ns \in Namespaces : PruneScan(ns)
         \/ \E h \in Hashes : PruneForget(h)

Put(u) == PutCheck(u) \/ PutAdd(u) \/ PutMark(u)

Gc == GcMark \/ GcSweep

Errors == \/ \E ns \in Namespaces : SubscribeFails(ns) \/ StreamFails(ns)
          \/ PruneScanFails
          \/ \E u \in Uploads : PutAbort(u)

Next == \/ Replication \/ Tick \/ Settle \/ Prune \/ Gc \/ Errors
        \/ \E ns \in Namespaces : Watch(ns)
        \/ \E u \in Uploads : Put(u)

Spec == Init /\ [][Next]_vars

\* The runtime polls every spawned task, and the timers of the three loops fire again and again.
Fairness ==
    /\ WF_vars(Tick) /\ WF_vars(Settle) /\ WF_vars(Prune) /\ WF_vars(Gc)
    /\ \A ns \in Namespaces : WF_vars(Watch(ns))

FairSpec == Spec /\ Fairness

\* A replica that is read sweep after sweep can be read now and then.
LiveSpec == FairSpec /\ \A ns \in Namespaces : SF_vars(PruneScan(ns))

\* What is promised of peers, where anything is: h is tried, now and then,
\* while a peer that holds its bytes is awake.
FetchOf(h) == FetchOk /\ settle.item.hash = h
PeersReachable(h) == SF_vars(FetchOf(h))

(***************************************************************************)
(* Safety.                                                                 *)
(***************************************************************************)
WorldOK ==
    /\ clock \in 0..Horizon
    /\ doc \in [Namespaces -> SUBSET Entries]
    /\ engine \subseteq Hashes
    /\ handles \subseteq Namespaces
    /\ missed \subseteq Entries
    /\ uploads \in [Uploads -> UploadPc]
    /\ wakes \in [Namespaces -> [Hashes -> 0..WakeCap]]

BlobsOK ==
    /\ stored \subseteq Hashes
    /\ tagged \subseteq Hashes
    /\ gc \in [pc : {"idle", "sweep"}, live : SUBSET Hashes]

WatchOK ==
    /\ watch \in [Namespaces -> [pc : WatchPc, present : BOOLEAN, known : BOOLEAN]]
    /\ inbox \in [Namespaces -> Seq(Entries)]
    /\ \A ns \in Namespaces : watch[ns].pc \in {"probe", "track", "mark", "wake"} => inbox[ns] # <<>>

TrackedOK ==
    /\ DOMAIN tracked \subseteq Hashes
    /\ \A h \in DOMAIN tracked : tracked[h] \in TrackedEntry

SettleOK ==
    /\ settle \in [pc : SettlePc, now : 0..Horizon, todo : SUBSET Copies,
                   item : Copies \cup {None}, present : BOOLEAN, wake : SUBSET Wakes]
    /\ settle.pc \in {"fetch", "apply"} => settle.item \in Copies

PruneOK ==
    /\ prune \in [pc : PrunePc, now : 0..Horizon, todo : SUBSET Namespaces,
                  ns : Namespaces \cup {None}, forget : SUBSET Hashes, hash : Hashes \cup {None}]
    /\ prune.pc \in {"forget", "untrack"} => prune.ns \in Namespaces
    /\ prune.pc = "untrack" => prune.hash \in Hashes

\* Types, and that a task in the middle of something has that something.
TypeOK == WorldOK /\ BlobsOK /\ WatchOK /\ content \in Index /\ TrackedOK /\ SettleOK /\ PruneOK

\* The reference count of the content index is exact: a hash has a state if
\* and only if some namespace still names it, whatever the order in which the
\* watchers, the settle loop, the sweeps and the uploads touched it.
RefcountExact ==
    \A h \in Hashes :
        IsTracked(content, h) <=> \E ns \in Namespaces : IsTrackedFor(content, ns, h)

\* The index as the relation of ContentRefs.
NamedPairs == {x \in Namespaces \X Hashes : IsTrackedFor(content, x[1], x[2])}
Landed     == {h \in Hashes : IsPresent(content, h)}
Refs == INSTANCE ContentRefs WITH refs <- NamedPairs, landed <- Landed

\* The whole node, tasks and all, changes the index only by referencing,
\* confirming and releasing: no interleaving of want, mark_present and forget
\* loses a reference or keeps a confirmation past the last one.
ImplementsContentRefs == Refs!Spec

(***************************************************************************)
(* What follows holds while no two records carry the same ciphertext (and, *)
(* for PresentIsStored, while the docs engine's own download never beats   *)
(* the watcher): on SharedEntries, or with EngineFetchable, it does not.   *)
(* Tombstones all carry the same hash, so UniqueCiphertext allows one of   *)
(* them, SealedUnique any number.                                          *)
(***************************************************************************)
UniqueCiphertext == \A e, f \in Entries : e.hash = f.hash => e = f
SealedUnique     == \A e, f \in Entries : e.hash = f.hash /\ e.hash # Empty => e = f

\* "Anything still Wanted is work the settle loop retries": a hash on the
\* missing-content ledger is on the settle loop's list, or a watcher is
\* between putting it on the one and on the other.
WantedIsChased ==
    \A h \in Hashes : content.state[h] = "Wanted" =>
        \/ h \in Outstanding
        \/ \E ns \in Namespaces :
               watch[ns].pc \in {"probe", "track", "mark"} /\ Current(ns).hash = h

\* "Wakes fire once": subscribers of a namespace hear of a hash at most once.
WakeOnce == \A ns \in Namespaces, h \in Hashes : wakes[ns][h] <= 1

\* Hashes whose bytes may be in the store before the watcher asks for them.
Early == EngineFetchable \cup {u.hash : u \in Uploads} \cup {Empty}

\* The settle loop never looks at an entry again once its bytes are here, so
\* by then its namespace has been told, bytes or no bytes, or this very pass
\* is about to.  (Not so of bytes that were there before the watcher looked.)
ParkedIsAnnounced ==
    \A h \in DOMAIN tracked \ Early :
        tracked[h].content_present =>
            \/ wakes[tracked[h].namespace][h] > 0
            \/ [hash |-> h, namespace |-> tracked[h].namespace] \in settle.wake

\* The watcher has put e on the ledger.
TakenUp(e) ==
    /\ e \in doc[e.ns] \ missed
    /\ \A i \in DOMAIN inbox[e.ns] :
           inbox[e.ns][i] = e => i = 1 /\ watch[e.ns].pc # "idle"

\* What the authors of ns have written, the retired included: a tombstone
\* has the key of what it retires.
Written(ns) == {PruneCandidate(e) : e \in doc[ns]}

\* "A blob is released only when the last unreleased entry referencing it is
\* gone": although it decided on an older reading, a sweep never drops what
\* the policy, asked now, would keep of what the authors have written.  (Of
\* what they have not retired it may: when the latest fix is retired, the one
\* before it was let go long ago.)
KeptIsReferenced ==
    \A ns \in Namespaces : \A e \in doc[ns] :
        /\ e.hash # Empty /\ TakenUp(e)
        /\ ~Releasable(PruneCandidate(e), Written(ns), clock)
        => IsTrackedFor(content, ns, e.hash)

\* "The stash has both the entry and its bytes": what the index calls present
\* is in the blob store, through every overlap of a collector sweep with the
\* watchers, fetches and uploads.
PresentIsStored == \A h \in Hashes \ {Empty} : IsPresent(content, h) => h \in stored

\* content_bytes: what a GET of h in ns would find.
Servable(ns, h) == IsPresentFor(content, ns, h) /\ h \in stored

\* "Stored: accepted; the stash can now serve these bytes", through every
\* overlap with fetches, sweeps and the collector: a writer who gets the
\* receipt could read its upload back, unless a sweep has released the hash
\* since the handler checked it.
StoredIsServable ==
    [][\A u \in Uploads : PutMark(u) =>
          Servable(u.ns, u.hash)' \/ ~IsTrackedFor(content, u.ns, u.hash)]_vars

(***************************************************************************)
(* What the code's comments and tests say of it and the code does not do.  *)
(***************************************************************************)
\* "Entries live here until the release policy decides no unreleased docs
\* entry still needs the hash": nothing is chased after its release.
ChasedIsReferenced ==
    \A h \in DOMAIN tracked :
        \/ IsTracked(content, h)
        \/ prune.pc = "untrack" /\ prune.hash = h
        \/ \E ns \in Namespaces :
               watch[ns].pc \in {"track", "mark", "wake"} /\ Current(ns).hash = h

(***************************************************************************)
(* Liveness.                                                               *)
(***************************************************************************)
\* A missing hash does not stay missing: its bytes land or it is released.
WantedSettles ==
    \A h \in Hashes :
        PeersReachable(h) => (content.state[h] = "Wanted" ~> content.state[h] # "Wanted")

\* Every tracked entry is announced, without its bytes if need be, unless it
\* is released first.
EntryAnnounced ==
    \A h \in Hashes :
        h \in DOMAIN tracked ~> (h \notin DOMAIN tracked \/ \E ns \in Namespaces : wakes[ns][h] > 0)

\* A superseded fix is let go by a later sweep, unless its author retires it
\* or all that superseded it.
SupersededReleased ==
    \A e \in Entries :
        LET supersededHere == e \in doc[e.ns] /\ Superseded(PruneCandidate(e), Candidates(e.ns))
        IN  (TakenUp(e) /\ supersededHere) ~> (~IsTrackedFor(content, e.ns, e.hash) \/ ~supersededHere)

\* "No key class may outlive the retention window": no reference is for ever.
ReferenceExpires ==
    \A ns \in Namespaces, h \in Hashes :
        IsTrackedFor(content, ns, h) ~> ~IsTrackedFor(content, ns, h)

\* Released bytes are reclaimed by the collector.
ReleasedReclaimed ==
    \A h \in Hashes : (h \in stored /\ ~IsTracked(content, h))
                          ~> (h \notin stored \/ IsTracked(content, h))

\* "UntrackedHash .. transient by nature": a record that has reconciled in is
\* taken up, so that a writer trying again is accepted.
RecordTakenUp ==
    \A e \in Entries :
        (e \in doc[e.ns] /\ e.ns \in Known) ~> IsTrackedFor(content, e.ns, e.hash)

=============================================================================
