--------------------------- MODULE StashNodeProofs ---------------------------
(***************************************************************************)
(* Theorems about StashNode, for every choice of namespaces, hashes,       *)
(* records, uploads, faults and time bounds.                               *)
(***************************************************************************)
EXTENDS StashNode, TLAPS, SequenceTheorems

(***************************************************************************)
(* The operations of the content index keep its type.                      *)
(***************************************************************************)
LEMMA IndexOps ==
    ASSUME NEW ix \in Index, NEW h \in Hashes
    PROVE  /\ MarkPresent(ix, h) \in Index
           /\ \A ns \in Namespaces : Want(ix, ns, h) \in Index /\ Forget(ix, ns, h) \in Index
  <1>1. MarkPresent(ix, h) \in Index
    BY DEF MarkPresent, Index, State
  <1>2. ASSUME NEW ns \in Namespaces PROVE Want(ix, ns, h) \in Index
    BY DEF Want, Index, State
  <1>3. ASSUME NEW ns \in Namespaces PROVE Forget(ix, ns, h) \in Index
    BY DEF Forget, Index, State
  <1> QED BY <1>1, <1>2, <1>3

\* Queues of entries.
LEMMA InboxOps ==
    /\ \A s \in Seq(Entries), e \in Entries : Append(s, e) \in Seq(Entries) /\ Append(s, e) # <<>>
    /\ \A s \in Seq(Entries) : s # <<>> => Head(s) \in Entries /\ Tail(s) \in Seq(Entries)
    /\ \A s \in Seq(Entries) : \A i \in DOMAIN s : s[i] \in Entries
  <1>1. \A s \in Seq(Entries), e \in Entries : Append(s, e) \in Seq(Entries) /\ Append(s, e) # <<>>
    BY AppendProperties
  <1>2. \A s \in Seq(Entries) : s # <<>> => Head(s) \in Entries /\ Tail(s) \in Seq(Entries)
    BY HeadTailProperties
  <1>3. \A s \in Seq(Entries) : \A i \in DOMAIN s : s[i] \in Entries
    BY LenProperties, ElementOfSeq
  <1> QED BY <1>1, <1>2, <1>3

LEMMA InitType == Init => TypeOK
  <1> SUFFICES ASSUME Init PROVE TypeOK
    OBVIOUS
  <1> USE NodeAssumption DEF Init
  <1>1. WorldOK
    BY DEF WorldOK, UploadPc
  <1>2. BlobsOK
    BY DEF BlobsOK, GcIdle
  <1>3. WatchOK
    BY DEF WatchOK, WatchPc, At
  <1>4. content \in Index
    BY DEF NewIndex, Index, State
  <1>5. TrackedOK
    BY DEF TrackedOK
  <1>6. SettleOK
    BY DEF SettleOK, SettleIdle, SettlePc
  <1>7. PruneOK
    BY DEF PruneOK, PruneIdle, PrunePc
  <1> QED BY <1>1, <1>2, <1>3, <1>4, <1>5, <1>6, <1>7 DEF TypeOK

(***************************************************************************)
(* A part of TypeOK none of whose variables change holds after the step.   *)
(***************************************************************************)
LEMMA SameParts ==
    /\ WorldOK /\ UNCHANGED <<clock, doc, engine, handles, missed, uploads, wakes>> => WorldOK'
    /\ BlobsOK /\ UNCHANGED blobs => BlobsOK'
    /\ WatchOK /\ UNCHANGED <<watch, inbox>> => WatchOK'
    /\ content \in Index /\ UNCHANGED content => content' \in Index
    /\ TrackedOK /\ UNCHANGED tracked => TrackedOK'
    /\ SettleOK /\ UNCHANGED settle => SettleOK'
    /\ PruneOK /\ UNCHANGED prune => PruneOK'
  <1>1. WorldOK /\ UNCHANGED <<clock, doc, engine, handles, missed, uploads, wakes>> => WorldOK'
    BY DEF WorldOK
  <1>2. BlobsOK /\ UNCHANGED blobs => BlobsOK'
    BY DEF BlobsOK, blobs
  <1>3. WatchOK /\ UNCHANGED <<watch, inbox>> => WatchOK'
    BY DEF WatchOK
  <1>4. TrackedOK /\ UNCHANGED tracked => TrackedOK'
    BY DEF TrackedOK
  <1>5. SettleOK /\ UNCHANGED settle => SettleOK'
    BY DEF SettleOK
  <1>6. PruneOK /\ UNCHANGED prune => PruneOK'
    BY DEF PruneOK
  <1> QED BY <1>1, <1>2, <1>3, <1>4, <1>5, <1>6

\* The step of every action of the replication side.
LEMMA ReplicationType == TypeOK /\ Replication => TypeOK'
  <1> SUFFICES ASSUME TypeOK, Replication PROVE TypeOK'
    OBVIOUS
  <1> USE NodeAssumption DEF TypeOK
  <1>1. ASSUME NEW ns \in Namespaces, Import(ns) PROVE TypeOK'
    <2>1. WorldOK'
      BY <1>1 DEF Import, WorldOK
    <2> QED BY <1>1, <2>1, SameParts DEF Import
  <1>2. ASSUME NEW ns \in Namespaces, Grant(ns) PROVE TypeOK'
    <2>1. WatchOK'
      BY <1>2 DEF Grant, WatchOK, WatchPc, At, world
    <2> QED BY <1>2, <2>1, SameParts DEF Grant, world
  <1>3. ASSUME NEW e \in Entries, Reconcile(e) PROVE TypeOK'
    <2>1. WorldOK'
      BY <1>3 DEF Reconcile, WorldOK
    <2>2. WatchOK'
      <3>1. CASE Subscribed(e.ns)
        <4>1. /\ watch' = watch
              /\ inbox' = [inbox EXCEPT ![e.ns] = Append(@, e)]
          BY <1>3, <3>1 DEF Reconcile
        <4> QED BY <4>1, InboxOps DEF WatchOK
      <3>2. CASE ~Subscribed(e.ns)
        BY <1>3, <3>2, SameParts DEF Reconcile
      <3> QED BY <3>1, <3>2
    <2> QED BY <1>3, <2>1, <2>2, SameParts DEF Reconcile
  <1>4. ASSUME NEW h \in Hashes, EngineDownload(h) PROVE TypeOK'
    <2>1. WorldOK'
      BY <1>4 DEF EngineDownload, WorldOK
    <2>2. BlobsOK'
      BY <1>4 DEF EngineDownload, Arrives, BlobsOK
    <2> QED BY <1>4, <2>1, <2>2, SameParts DEF EngineDownload
  <1>5. ASSUME NEW h \in Hashes, EngineGivesUp(h) PROVE TypeOK'
    <2>1. WorldOK'
      BY <1>5 DEF EngineGivesUp, WorldOK
    <2> QED BY <1>5, <2>1, SameParts DEF EngineGivesUp
  <1> QED BY <1>1, <1>2, <1>3, <1>4, <1>5 DEF Replication

\* A watcher in the middle of an event moves on, or is done with it.
LEMMA WatchMoves ==
    ASSUME WatchOK, NEW ns \in Namespaces, inbox[ns] # <<>>
    PROVE  /\ \A r \in [pc : WatchPc, present : BOOLEAN, known : BOOLEAN] :
                  watch' = [watch EXCEPT ![ns] = r] /\ inbox' = inbox => WatchOK'
           /\ NextEvent(ns) => WatchOK'
  <1>1. ASSUME NEW r \in [pc : WatchPc, present : BOOLEAN, known : BOOLEAN],
               watch' = [watch EXCEPT ![ns] = r], inbox' = inbox
        PROVE  WatchOK'
    BY <1>1 DEF WatchOK
  <1>2. ASSUME NextEvent(ns) PROVE WatchOK'
    <2>1. Tail(inbox[ns]) \in Seq(Entries)
      BY InboxOps DEF WatchOK
    <2>2. At("idle") \in [pc : WatchPc, present : BOOLEAN, known : BOOLEAN] /\ At("idle").pc = "idle"
      BY DEF At, WatchPc
    <2>3. /\ watch' = [watch EXCEPT ![ns] = At("idle")]
          /\ inbox' = [inbox EXCEPT ![ns] = Tail(inbox[ns])]
      BY <1>2 DEF NextEvent
    <2>4. inbox' \in [Namespaces -> Seq(Entries)]
      BY <2>1, <2>3 DEF WatchOK
    <2>5. watch' \in [Namespaces -> [pc : WatchPc, present : BOOLEAN, known : BOOLEAN]]
      BY <2>2, <2>3 DEF WatchOK
    <2>6. \A m \in Namespaces :
              watch'[m].pc \in {"probe", "track", "mark", "wake"} => inbox'[m] # <<>>
      BY <2>2, <2>3 DEF WatchOK
    <2> QED BY <2>4, <2>5, <2>6 DEF WatchOK
  <1> QED BY <1>1, <1>2

\* The wake counters stay below their cap.
LEMMA WakeForType ==
    ASSUME WorldOK, NEW ns \in Namespaces, NEW h \in Hashes, WakeFor(ns, h)
    PROVE  wakes' \in [Namespaces -> [Hashes -> 0..WakeCap]]
  <1>1. wakes[ns] \in [Hashes -> 0..WakeCap] /\ wakes[ns][h] \in 0..WakeCap
    BY DEF WorldOK
  <1>2. Least(wakes[ns][h] + 1, WakeCap) \in 0..WakeCap
    BY <1>1, NodeAssumption DEF Least
  <1>3. [wakes[ns] EXCEPT ![h] = Least(@ + 1, WakeCap)] \in [Hashes -> 0..WakeCap]
    BY <1>1, <1>2
  <1> QED BY <1>3 DEF WakeFor, WorldOK

\* The step of every action of a watcher, its two error arms included.
LEMMA WatchType ==
    ASSUME TypeOK, NEW ns \in Namespaces, Watch(ns) \/ SubscribeFails(ns) \/ StreamFails(ns)
    PROVE  TypeOK'
  <1> USE NodeAssumption DEF TypeOK
  <1>c. inbox[ns] # <<>> => Current(ns).hash \in Hashes
    BY InboxOps DEF WatchOK, Current
  <1>1. CASE Subscribe(ns)
    <2>1. WatchOK'
      BY <1>1 DEF Subscribe, WatchOK, WatchPc, At, world
    <2> QED BY <1>1, <2>1, SameParts DEF Subscribe, world
  <1>2. CASE WatchWant(ns)
    <2>1. WatchOK'
      BY <1>2 DEF WatchWant, WatchOK, WatchPc, world
    <2>2. content' \in Index
      BY <1>2, <1>c, IndexOps DEF WatchWant
    <2> QED BY <1>2, <2>1, <2>2, SameParts DEF WatchWant, world
  <1>3. CASE WatchProbe(ns)
    <2>1. PICK present \in Has(Current(ns).hash) :
              watch' = [watch EXCEPT ![ns] = [@ EXCEPT !.pc = "track", !.present = present]]
      BY <1>3 DEF WatchProbe
    <2>2. present \in BOOLEAN
      BY DEF Has
    <2>3. [watch[ns] EXCEPT !.pc = "track", !.present = present]
              \in [pc : WatchPc, present : BOOLEAN, known : BOOLEAN]
      BY <2>2 DEF WatchOK, WatchPc
    <2>4. inbox[ns] # <<>> /\ inbox' = inbox
      BY <1>3 DEF WatchProbe, WatchOK, world
    <2>5. WatchOK'
      BY <2>1, <2>3, <2>4, WatchMoves
    <2> QED BY <1>3, <2>5, SameParts DEF WatchProbe, world
  <1>4. CASE WatchTrack(ns)
    <2>1. Current(ns).hash \in Hashes
      BY <1>4, <1>c DEF WatchTrack, WatchOK
    <2>2. FreshEntry(ns) \in TrackedEntry
      BY DEF FreshEntry, TrackedEntry, WatchOK, WorldOK, Instants
    <2>3. TrackedOK'
      BY <1>4, <2>1, <2>2 DEF WatchTrack, TrackedOK, OrInsert
    <2>4. tracked'[Current(ns).hash].woken \in BOOLEAN
      BY <1>4, <2>1, <2>3 DEF WatchTrack, TrackedOK, OrInsert, TrackedEntry
    <2>5. [watch[ns] EXCEPT !.pc = "mark", !.known = tracked'[Current(ns).hash].woken]
              \in [pc : WatchPc, present : BOOLEAN, known : BOOLEAN]
      BY <2>4 DEF WatchOK, WatchPc
    <2>6. inbox[ns] # <<>>
      BY <1>4 DEF WatchTrack, WatchOK
    <2>7. WatchOK'
      BY <1>4, <2>5, <2>6, WatchMoves DEF WatchTrack
    <2> QED BY <1>4, <2>3, <2>7, SameParts DEF WatchTrack
  <1>5. CASE WatchMark(ns)
    <2>1. Current(ns).hash \in Hashes /\ inbox[ns] # <<>>
      BY <1>5, <1>c DEF WatchMark, WatchOK
    <2>a. [watch[ns] EXCEPT !.pc = "wake"] \in [pc : WatchPc, present : BOOLEAN, known : BOOLEAN]
      BY DEF WatchOK, WatchPc
    <2>2. WatchOK'
      BY <1>5, <2>1, <2>a, WatchMoves DEF WatchMark
    <2>3. content' \in Index
      BY <1>5, <2>1, IndexOps DEF WatchMark
    <2> QED BY <1>5, <2>2, <2>3, SameParts DEF WatchMark
  <1>6. CASE WatchWake(ns)
    <2>1. Current(ns).hash \in Hashes /\ inbox[ns] # <<>>
      BY <1>6, <1>c DEF WatchWake, WatchOK
    <2>2. WatchOK'
      BY <1>6, <2>1, WatchMoves DEF WatchWake
    <2>3. WorldOK'
      BY <1>6, <2>1, WakeForType DEF WatchWake, WorldOK
    <2> QED BY <1>6, <2>2, <2>3, SameParts DEF WatchWake
  <1>7. CASE SubscribeFails(ns)
    <2>1. WatchOK'
      BY <1>7 DEF SubscribeFails, WatchOK, WatchPc, At, world
    <2> QED BY <1>7, <2>1, SameParts DEF SubscribeFails, world
  <1>8. CASE StreamFails(ns)
    <2>1. WatchOK'
      BY <1>8, EmptySeq DEF StreamFails, WatchOK, WatchPc, At
    <2>2. WorldOK'
      BY <1>8, InboxOps DEF StreamFails, WorldOK, WatchOK
    <2> QED BY <1>8, <2>1, <2>2, SameParts DEF StreamFails
  <1> QED BY <1>1, <1>2, <1>3, <1>4, <1>5, <1>6, <1>7, <1>8 DEF Watch

\* What a pass makes of a tracked record is a tracked record.
LEMMA SettledType ==
    ASSUME TypeOK, NEW h \in DOMAIN tracked, settle.item \in Copies
    PROVE  Settled(h) \in TrackedEntry
  <1> USE DEF TypeOK
  <1>1. tracked[h] \in TrackedEntry /\ settle.now \in 0..Horizon /\ settle.present \in BOOLEAN
    BY DEF TrackedOK, SettleOK
  <1>2. Tries(h) \in 0..MaxShift
    BY <1>1, NodeAssumption DEF Tries, Least, TrackedEntry
  <1>3. settle.now + Backoff(Tries(h)) \in Instants
    BY <1>1, <1>2 DEF Instants
  <1>4. (tracked[h].content_present \/ settle.present) \in BOOLEAN
    OBVIOUS
  <1>5. (tracked[h].woken \/ settle.present \/ Overdue(h)) \in BOOLEAN
    OBVIOUS
  <1>6. ASSUME NEW parked \in BOOLEAN, NEW woken \in BOOLEAN
        PROVE  SettledAs(h, parked, woken) \in TrackedEntry
    BY <1>1, <1>2, <1>3 DEF SettledAs, TrackedEntry
  <1> QED BY <1>4, <1>5, <1>6 DEF Settled

LEMMA SettleOnType ==
    ASSUME SettleOK, NEW wake \in SUBSET Wakes
    PROVE  settle' = SettleOn(wake) => SettleOK'
  <1> SUFFICES ASSUME settle' = SettleOn(wake) PROVE SettleOK'
    OBVIOUS
  <1>1. CASE settle.todo = {} /\ wake = {}
    <2>1. settle' = SettleIdle
      BY <1>1 DEF SettleOn
    <2> QED BY <2>1, NodeAssumption DEF SettleOK, SettleIdle, SettlePc
  <1>2. CASE ~(settle.todo = {} /\ wake = {})
    <2>1. \E pc \in {"wake", "pass"} :
              settle' = [settle EXCEPT !.pc = pc, !.item = None, !.present = FALSE, !.wake = wake]
      BY <1>2 DEF SettleOn
    <2> QED BY <2>1 DEF SettleOK, SettlePc
  <1> QED BY <1>1, <1>2

\* The step of every action of the settle loop.
LEMMA SettleType == TypeOK /\ Settle => TypeOK'
  <1> SUFFICES ASSUME TypeOK, Settle PROVE TypeOK'
    OBVIOUS
  <1> USE NodeAssumption DEF TypeOK
  <1>1. CASE SettleStart
    <2>1. \A h \in Outstanding : Copy(h) \in Copies
      BY DEF Outstanding, Copy, Copies, TrackedOK, TrackedEntry
    <2> DEFINE todo == {Copy(h) : h \in Outstanding}
    <2>a. todo \in SUBSET Copies
      BY <2>1
    <2>b. settle' = [pc |-> "pass", now |-> clock, todo |-> todo, item |-> None,
                     present |-> FALSE, wake |-> {}]
      BY <1>1 DEF SettleStart, SettleIdle
    <2> HIDE DEF todo
    <2>2. SettleOK'
      BY <2>a, <2>b DEF SettleOK, SettlePc, WorldOK
    <2> QED BY <1>1, <2>2, SameParts DEF SettleStart, world
  <1>2. CASE FetchOk
    <2>1. settle.item.hash \in Hashes
      BY <1>2 DEF FetchOk, SettleOK, Copies
    <2>2. BlobsOK'
      BY <1>2, <2>1 DEF FetchOk, Arrives, BlobsOK
    <2>3. SettleOK'
      BY <1>2 DEF FetchOk, SettleOK, SettlePc
    <2> QED BY <1>2, <2>2, <2>3, SameParts DEF FetchOk, world
  <1>3. CASE FetchFails
    <2>1. SettleOK'
      BY <1>3 DEF FetchFails, SettleOK, SettlePc
    <2> QED BY <1>3, <2>1, SameParts DEF FetchFails, world
  <1>4. CASE SettleApply
    <2>1. settle.item \in Copies /\ settle.item.hash \in Hashes
      BY <1>4 DEF SettleApply, SettleOK, Copies
    <2> DEFINE h == settle.item.hash
    <2>2. CASE h \in DOMAIN tracked
      <3>a. Settled(h) \in TrackedEntry /\ tracked' = [tracked EXCEPT ![h] = Settled(h)]
        BY <1>4, <2>1, <2>2, SettledType DEF SettleApply
      <3>1. TrackedOK'
        BY <2>2, <3>a DEF TrackedOK
      <3>2. content' \in Index
        BY <1>4, <2>1, <2>2, IndexOps DEF SettleApply
      <3>b. WakeOf(settle.item) \in Wakes
        BY <2>1 DEF WakeOf, Wakes, Copies
      <3>3. OwedWake(h) \subseteq Wakes
        BY <3>b DEF OwedWake
      <3>4. SettleOK'
        <4>1. settle' = SettleOn(settle.wake \cup OwedWake(h))
          BY <1>4, <2>2 DEF SettleApply
        <4>2. settle.wake \cup OwedWake(h) \in SUBSET Wakes
          BY <3>3 DEF SettleOK
        <4> QED BY <4>1, <4>2, SettleOnType
      <3> QED BY <1>4, <3>1, <3>2, <3>4, SameParts DEF SettleApply, world
    <2>3. CASE h \notin DOMAIN tracked
      <3>1. settle' = SettleOn(settle.wake) /\ settle.wake \in SUBSET Wakes
        BY <1>4, <2>3 DEF SettleApply, SettleOK
      <3>2. SettleOK'
        BY <3>1, SettleOnType
      <3> QED BY <1>4, <2>3, <3>2, SameParts DEF SettleApply, world
    <2> QED BY <2>2, <2>3
  <1>5. ASSUME NEW o \in settle.todo, SettleProbe(o) PROVE TypeOK'
    <2>1. o \in Copies
      BY DEF SettleOK
    <2>2. PICK has \in Has(o.hash) :
              settle' = [settle EXCEPT !.todo = @ \ {o}, !.item = o, !.present = has,
                                       !.pc = IF ~has /\ Due(o) THEN "fetch" ELSE "apply"]
      BY <1>5 DEF SettleProbe
    <2>3. has \in BOOLEAN
      BY DEF Has
    <2>4. SettleOK'
      BY <2>1, <2>2, <2>3 DEF SettleOK, SettlePc
    <2> QED BY <1>5, <2>4, SameParts DEF SettleProbe, world
  <1>6. ASSUME NEW w \in settle.wake, SettleWake(w) PROVE TypeOK'
    <2>1. w.namespace \in Namespaces /\ w.hash \in Hashes
      BY DEF SettleOK, Wakes
    <2>2. wakes' \in [Namespaces -> [Hashes -> 0..WakeCap]]
      BY <1>6, <2>1, WakeForType DEF SettleWake
    <2>3. WorldOK'
      BY <1>6, <2>2 DEF SettleWake, WorldOK, world
    <2>4. settle' = SettleOn(settle.wake \ {w}) /\ settle.wake \ {w} \in SUBSET Wakes
      BY <1>6 DEF SettleWake, SettleOK
    <2>5. SettleOK'
      BY <2>4, SettleOnType
    <2> QED BY <1>6, <2>3, <2>5, SameParts DEF SettleWake, world
  <1> QED BY <1>1, <1>2, <1>3, <1>4, <1>5, <1>6 DEF Settle

LEMMA PruneOnType ==
    ASSUME PruneOK, NEW todo \in SUBSET Namespaces, NEW forget \in SUBSET Hashes
    PROVE  /\ PruneOn(todo, forget) \in [pc : PrunePc, now : 0..Horizon, todo : SUBSET Namespaces,
                  ns : Namespaces \cup {None}, forget : SUBSET Hashes, hash : Hashes \cup {None}]
           /\ forget # {} => PruneOn(todo, forget).pc = "forget" /\ PruneOn(todo, forget).ns = prune.ns
           /\ forget = {} => PruneOn(todo, forget).pc \in {"idle", "scan"}
  <1>1. CASE forget # {}
    <2>1. PruneOn(todo, forget) =
              [prune EXCEPT !.pc = "forget", !.todo = todo, !.forget = forget, !.hash = None]
      BY <1>1 DEF PruneOn
    <2> QED BY <1>1, <2>1 DEF PruneOK, PrunePc
  <1>2. CASE forget = {} /\ todo # {}
    <2>1. PruneOn(todo, forget) = [PruneIdle EXCEPT !.pc = "scan", !.now = prune.now, !.todo = todo]
      BY <1>2 DEF PruneOn
    <2> QED BY <1>2, <2>1 DEF PruneOK, PrunePc, PruneIdle
  <1>3. CASE forget = {} /\ todo = {}
    <2>1. PruneOn(todo, forget) = PruneIdle
      BY <1>3 DEF PruneOn
    <2> QED BY <1>3, <2>1, NodeAssumption DEF PrunePc, PruneIdle
  <1> QED BY <1>1, <1>2, <1>3

\* Hence the sweep goes on to a state of the right type.
LEMMA PruneGoesOn ==
    ASSUME PruneOK, prune.ns \in Namespaces, NEW forget \in SUBSET Hashes,
           prune' = PruneOn(prune.todo, forget)
    PROVE  PruneOK'
  <1>1. prune.todo \in SUBSET Namespaces
    BY DEF PruneOK
  <1>2. prune'.pc \in {"forget", "idle", "scan"} /\ (prune'.pc = "forget" => prune'.ns \in Namespaces)
    BY <1>1, PruneOnType
  <1>3. prune' \in [pc : PrunePc, now : 0..Horizon, todo : SUBSET Namespaces,
                    ns : Namespaces \cup {None}, forget : SUBSET Hashes, hash : Hashes \cup {None}]
    BY <1>1, PruneOnType
  <1> QED BY <1>2, <1>3 DEF PruneOK

\* The step of every action of the prune loop, the failing read included.
LEMMA PruneType == TypeOK /\ (Prune \/ PruneScanFails) => TypeOK'
  <1> SUFFICES ASSUME TypeOK, Prune \/ PruneScanFails PROVE TypeOK'
    OBVIOUS
  <1> USE NodeAssumption DEF TypeOK
  <1>1. CASE PruneStart
    <2>1. prune' = [pc |-> "scan", now |-> clock, todo |-> Known, ns |-> None,
                    forget |-> {}, hash |-> None]
      BY <1>1 DEF PruneStart, PruneIdle
    <2>2. PruneOK'
      BY <2>1 DEF PruneOK, PrunePc, Known, WorldOK
    <2> QED BY <1>1, <2>2, SameParts DEF PruneStart, world
  <1>2. CASE PruneUntrack
    <2>1. TrackedOK'
      BY <1>2 DEF PruneUntrack, TrackedOK, Without
    <2>2. PruneOK'
      BY <1>2, PruneGoesOn DEF PruneUntrack, PruneOK
    <2> QED BY <1>2, <2>1, <2>2, SameParts DEF PruneUntrack, world
  <1>3. ASSUME NEW ns \in Namespaces, PruneScan(ns) PROVE TypeOK'
    <2> DEFINE forget == ForgetHashes(ns, prune.now)
               next   == PruneOn(prune.todo \ {ns}, forget)
    <2>1. forget \in SUBSET Hashes
      <3>1. \A c \in Candidates(ns) : c.hash \in Hashes
        BY DEF Candidates, PruneCandidate, WorldOK
      <3> QED BY <3>1 DEF ForgetHashes
    <2>2. prune' = IF forget # {} THEN [next EXCEPT !.ns = ns] ELSE next
      BY <1>3 DEF PruneScan
    <2>3. prune.todo \ {ns} \in SUBSET Namespaces
      BY DEF PruneOK
    <2> HIDE DEF forget
    <2>4. PruneOK'
      BY <2>1, <2>2, <2>3, PruneOnType DEF PruneOK
    <2> QED BY <1>3, <2>4, SameParts DEF PruneScan, world
  <1>4. ASSUME NEW h \in Hashes, PruneForget(h) PROVE TypeOK'
    <2>1. content' \in Index
      BY <1>4, IndexOps DEF PruneForget, PruneOK
    <2>2. PruneOK'
      <3>1. CASE DropsLast(content, prune.ns, h)
        <4>1. prune' = [prune EXCEPT !.pc = "untrack", !.hash = h, !.forget = @ \ {h}]
          BY <1>4, <3>1 DEF PruneForget
        <4> QED BY <1>4, <4>1 DEF PruneOK, PrunePc, PruneForget
      <3>2. CASE ~DropsLast(content, prune.ns, h)
        <4>1. prune' = PruneOn(prune.todo, prune.forget \ {h})
          BY <1>4, <3>2 DEF PruneForget
        <4>2. prune.ns \in Namespaces /\ prune.forget \ {h} \in SUBSET Hashes
          BY <1>4 DEF PruneOK, PruneForget
        <4> QED BY <4>1, <4>2, PruneGoesOn
      <3> QED BY <3>1, <3>2
    <2> QED BY <1>4, <2>1, <2>2, SameParts DEF PruneForget, world
  <1>5. CASE PruneScanFails
    <2>1. PruneOK'
      BY <1>5 DEF PruneScanFails, PruneOK, PruneIdle, PrunePc
    <2> QED BY <1>5, <2>1, SameParts DEF PruneScanFails, world
  <1> QED BY <1>1, <1>2, <1>3, <1>4, <1>5 DEF Prune

\* The step of every action of an upload and of the collector, and the clock.
LEMMA OtherType ==
    /\ TypeOK /\ Tick => TypeOK'
    /\ TypeOK /\ Gc => TypeOK'
    /\ \A u \in Uploads : TypeOK /\ (Put(u) \/ PutAbort(u)) => TypeOK'
  <1> USE NodeAssumption DEF TypeOK
  <1>1. ASSUME TypeOK, Tick PROVE TypeOK'
    <2>1. WorldOK'
      BY <1>1 DEF Tick, WorldOK, world
    <2> QED BY <1>1, <2>1, SameParts DEF Tick, world
  <1>2. ASSUME TypeOK, Gc PROVE TypeOK'
    <2>1. BlobsOK'
      BY <1>2 DEF Gc, GcMark, GcSweep, GcIdle, BlobsOK, Referenced
    <2> QED BY <1>2, <2>1, SameParts DEF Gc, GcMark, GcSweep, world
  <1>3. ASSUME NEW u \in Uploads, TypeOK, Put(u) \/ PutAbort(u) PROVE TypeOK'
    <2>1. WorldOK'
      <3>1. PutVerdict(u) \in UploadPc
        BY DEF PutVerdict, UploadPc
      <3>2. \E pc \in UploadPc : uploads' = [uploads EXCEPT ![u] = pc]
        BY <1>3, <3>1 DEF Put, PutCheck, PutAdd, PutMark, PutAbort, UploadPc
      <3> QED BY <1>3, <3>2 DEF Put, PutCheck, PutAdd, PutMark, PutAbort, WorldOK, world
    <2>2. BlobsOK'
      BY <1>3, SameParts DEF Put, PutCheck, PutAdd, PutMark, PutAbort, Arrives, BlobsOK
    <2>3. content' \in Index
      BY <1>3, IndexOps DEF Put, PutCheck, PutAdd, PutMark, PutAbort
    <2> QED BY <1>3, <2>1, <2>2, <2>3, SameParts
            DEF Put, PutCheck, PutAdd, PutMark, PutAbort, world
  <1> QED BY <1>1, <1>2, <1>3

LEMMA NextType == TypeOK /\ [Next]_vars => TypeOK'
  <1> SUFFICES ASSUME TypeOK, [Next]_vars PROVE TypeOK'
    OBVIOUS
  <1>1. CASE UNCHANGED vars
    BY <1>1, SameParts DEF vars, TypeOK, blobs
  <1>2. CASE Next
    BY <1>2, ReplicationType, WatchType, SettleType, PruneType, OtherType DEF Next, Errors
  <1> QED BY <1>1, <1>2

\* Type correctness of the node: in particular, a watcher, a settle pass and a
\* sweep interrupted anywhere still hold the item they are working on.
THEOREM TypeCorrect == Spec => []TypeOK
  BY InitType, NextType, PTL DEF Spec

(***************************************************************************)
(* The content index.  Whatever the tasks do, a step leaves the index      *)
(* alone or applies one of its three operations; what is true of the index *)
(* need only be shown for those.                                           *)
(***************************************************************************)
IndexStep ==
    \/ UNCHANGED content
    \/ \E h \in Hashes :
          \/ content' = MarkPresent(content, h)
          \/ \E ns \in Namespaces :
                content' = Want(content, ns, h) \/ content' = Forget(content, ns, h)

LEMMA NextIndex == TypeOK /\ [Next]_vars => IndexStep
  <1> SUFFICES ASSUME TypeOK, [Next]_vars PROVE IndexStep
    OBVIOUS
  <1>1. CASE UNCHANGED vars
    BY <1>1 DEF vars, IndexStep
  <1>2. ASSUME NEW ns \in Namespaces, Watch(ns) PROVE IndexStep
    <2>1. inbox[ns] # <<>> => Current(ns).hash \in Hashes
      BY InboxOps, NodeAssumption DEF TypeOK, WatchOK, Current
    <2>2. CASE WatchWant(ns)
      BY <2>1, <2>2 DEF WatchWant, IndexStep
    <2>3. CASE WatchMark(ns)
      BY <2>1, <2>3 DEF WatchMark, IndexStep, TypeOK, WatchOK
    <2> QED BY <1>2, <2>2, <2>3
            DEF Watch, Subscribe, WatchProbe, WatchTrack, WatchWake, IndexStep
  <1>3. CASE Settle
    <2>1. CASE SettleApply
      BY <2>1 DEF SettleApply, IndexStep, TypeOK, SettleOK, Copies
    <2> QED BY <1>3, <2>1
            DEF Settle, SettleStart, FetchOk, FetchFails, SettleProbe, SettleWake, IndexStep
  <1>4. CASE Prune
    <2>1. ASSUME NEW h \in Hashes, PruneForget(h) PROVE IndexStep
      BY <2>1 DEF PruneForget, IndexStep, TypeOK, PruneOK
    <2> QED BY <1>4, <2>1 DEF Prune, PruneStart, PruneUntrack, PruneScan, IndexStep
  <1>5. ASSUME NEW u \in Uploads, Put(u) PROVE IndexStep
    BY <1>5, NodeAssumption DEF Put, PutCheck, PutAdd, PutMark, IndexStep
  <1>6. CASE Replication \/ Tick \/ Gc \/ Errors
    BY <1>6 DEF Replication, Import, Grant, Reconcile, EngineDownload, EngineGivesUp, Tick,
                Gc, GcMark, GcSweep, Errors, SubscribeFails, StreamFails, PruneScanFails,
                PutAbort, IndexStep
  <1> QED BY <1>1, <1>2, <1>3, <1>4, <1>5, <1>6 DEF Next

LEMMA IndexExact ==
    ASSUME content \in Index, RefcountExact, IndexStep
    PROVE  RefcountExact'
  <1> USE DEF RefcountExact, IsTracked, IsTrackedFor, Index, State
  <1>1. CASE UNCHANGED content
    BY <1>1
  <1>2. ASSUME NEW h \in Hashes, content' = MarkPresent(content, h) PROVE RefcountExact'
    BY <1>2 DEF MarkPresent
  <1>3. ASSUME NEW h \in Hashes, NEW ns \in Namespaces, content' = Want(content, ns, h)
        PROVE  RefcountExact'
    BY <1>3 DEF Want
  <1>4. ASSUME NEW h \in Hashes, NEW ns \in Namespaces, content' = Forget(content, ns, h)
        PROVE  RefcountExact'
    <2>1. \A g \in Hashes, m \in Namespaces :
              g \in content'.by_namespace[m] <=> g \in content.by_namespace[m] /\ ~(g = h /\ m = ns)
      BY <1>4 DEF Forget
    <2>2. \A g \in Hashes \ {h} : content'.state[g] = content.state[g]
      BY <1>4 DEF Forget
    <2>3. content'.state[h] = IF DropsLast(content, ns, h) THEN "Absent" ELSE content.state[h]
      BY <1>4 DEF Forget
    <2>4. \A g \in Hashes \ {h} :
              content'.state[g] # "Absent" <=> \E m \in Namespaces : g \in content'.by_namespace[m]
      BY <2>1, <2>2
    <2>5. content'.state[h] # "Absent" <=> \E m \in Namespaces : h \in content'.by_namespace[m]
      BY <2>1, <2>3 DEF DropsLast
    <2> QED BY <2>4, <2>5
  <1> QED BY <1>1, <1>2, <1>3, <1>4 DEF IndexStep

\* The reference count of the content index is exact in every reachable state.
THEOREM ReferenceCount == Spec => []RefcountExact
  <1>1. Init => RefcountExact
    BY DEF Init, NewIndex, RefcountExact, IsTracked, IsTrackedFor
  <1>2. TypeOK /\ RefcountExact /\ [Next]_vars => RefcountExact'
    BY NextIndex, IndexExact DEF TypeOK
  <1> QED BY <1>1, <1>2, TypeCorrect, PTL DEF Spec

(***************************************************************************)
(* The node implements ContentRefs: `want` is Reference, `mark_present`    *)
(* is Confirm when somebody names the hash and nothing otherwise, `forget` *)
(* is Release.  The exact reference count is what makes the state of a     *)
(* hash vanish precisely with the last pair that names it.                 *)
(***************************************************************************)
LEMMA Members ==
    /\ \A m \in Namespaces, g \in Hashes : <<m, g>> \in NamedPairs <=> g \in content.by_namespace[m]
    /\ \A x \in NamedPairs : \E m \in Namespaces, g \in Hashes : x = <<m, g>>
    /\ \A g \in Hashes : g \in Landed <=> content.state[g] = "Present"
    /\ Landed \subseteq Hashes
  BY DEF NamedPairs, Landed, IsTrackedFor, IsPresent

\* The same of the next state.
LEMMA MembersNext ==
    /\ \A m \in Namespaces, g \in Hashes : <<m, g>> \in NamedPairs' <=> g \in content'.by_namespace[m]
    /\ \A x \in NamedPairs' : \E m \in Namespaces, g \in Hashes : x = <<m, g>>
    /\ \A g \in Hashes : g \in Landed' <=> content'.state[g] = "Present"
    /\ Landed' \subseteq Hashes
  BY DEF NamedPairs, Landed, IsTrackedFor, IsPresent

\* A hash is named in the abstract relation exactly when it has a state.
LEMMA NamedIsTracked ==
    ASSUME RefcountExact, NEW h \in Hashes
    PROVE  h \in Refs!Named(NamedPairs) <=> content.state[h] # "Absent"
  BY Members DEF Refs!Named, RefcountExact, IsTracked, IsTrackedFor

LEMMA IndexRefines ==
    ASSUME content \in Index, RefcountExact, RefcountExact', IndexStep
    PROVE  Refs!Next \/ UNCHANGED <<NamedPairs, Landed>>
  <1> USE DEF Index, State
  <1>1. CASE UNCHANGED content
    BY <1>1 DEF NamedPairs, Landed, IsTrackedFor, IsPresent
  <1>2. ASSUME NEW h \in Hashes, content' = MarkPresent(content, h)
        PROVE  Refs!Next \/ UNCHANGED <<NamedPairs, Landed>>
    <2>1. CASE content.state[h] = "Absent"
      <3>1. content' = content
        BY <1>2, <2>1 DEF MarkPresent
      <3> QED BY <3>1 DEF NamedPairs, Landed, IsTrackedFor, IsPresent
    <2>2. CASE content.state[h] # "Absent"
      <3>1. content'.by_namespace = content.by_namespace
        BY <1>2 DEF MarkPresent
      <3>2. NamedPairs' = NamedPairs
        BY <3>1 DEF NamedPairs, IsTrackedFor
      <3>3. \A g \in Hashes : content'.state[g] = IF g = h THEN "Present" ELSE content.state[g]
        BY <1>2, <2>2 DEF MarkPresent
      <3>4. Landed' = Landed \cup {h}
        BY <3>3, Members, MembersNext
      <3>5. Refs!Confirm(h)
        BY <2>2, <3>2, <3>4, NamedIsTracked DEF Refs!Confirm
      <3> QED BY <3>5 DEF Refs!Next
    <2> QED BY <2>1, <2>2
  <1>3. ASSUME NEW h \in Hashes, NEW ns \in Namespaces, content' = Want(content, ns, h)
        PROVE  Refs!Next
    <2>1. \A m \in Namespaces, g \in Hashes :
              g \in content'.by_namespace[m] <=> g \in content.by_namespace[m] \/ (g = h /\ m = ns)
      BY <1>3 DEF Want
    <2>2. \A g \in Hashes : content'.state[g] = "Present" <=> content.state[g] = "Present"
      BY <1>3 DEF Want
    <2>3. NamedPairs' = NamedPairs \cup {<<ns, h>>}
      BY <2>1, Members, MembersNext
    <2>4. Landed' = Landed
      BY <2>2, Members, MembersNext
    <2>5. Refs!Reference(ns, h)
      BY <2>3, <2>4 DEF Refs!Reference
    <2> QED BY <2>5 DEF Refs!Next
  <1>4. ASSUME NEW h \in Hashes, NEW ns \in Namespaces, content' = Forget(content, ns, h)
        PROVE  Refs!Next
    <2>1. \A m \in Namespaces, g \in Hashes :
              g \in content'.by_namespace[m] <=> g \in content.by_namespace[m] /\ ~(g = h /\ m = ns)
      BY <1>4 DEF Forget
    <2>2. NamedPairs' = NamedPairs \ {<<ns, h>>}
      BY <2>1, Members, MembersNext
    <2>3. \A g \in Hashes : content'.state[g] \in {content.state[g], "Absent"}
      BY <1>4 DEF Forget
    <2>4. \A g \in Hashes : g \in Refs!Named(NamedPairs') <=> content'.state[g] # "Absent"
      BY MembersNext DEF Refs!Named, RefcountExact, IsTracked, IsTrackedFor
    <2>5. Refs!Named(NamedPairs') \subseteq Hashes
      BY DEF Refs!Named
    <2>6. Landed' = Landed \cap Refs!Named(NamedPairs')
      BY <2>3, <2>4, <2>5, Members, MembersNext
    <2>7. Refs!Release(ns, h)
      BY <2>2, <2>6 DEF Refs!Release
    <2> QED BY <2>7 DEF Refs!Next
  <1> QED BY <1>1, <1>2, <1>3, <1>4 DEF IndexStep

\* The node, with all its tasks, implements the abstract specification of the
\* content index.
THEOREM Refinement == Spec => ImplementsContentRefs
  <1>1. Init => Refs!Init
    BY DEF Init, NewIndex, Refs!Init, NamedPairs, Landed, IsTrackedFor, IsPresent
  <1>2. TypeOK /\ RefcountExact /\ RefcountExact' /\ [Next]_vars => [Refs!Next]_(Refs!vars)
    BY NextIndex, IndexRefines DEF TypeOK, Refs!vars
  <1> QED BY <1>1, <1>2, TypeCorrect, ReferenceCount, PTL DEF Spec, ImplementsContentRefs, Refs!Spec

=============================================================================
