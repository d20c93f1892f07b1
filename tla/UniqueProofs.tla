----------------------------- MODULE UniqueProofs -----------------------------
(***************************************************************************)
(* What StashNode guarantees while no two records carry the same           *)
(* ciphertext, which is how phones write them: every record is sealed      *)
(* under a nonce of its own.                                               *)
(***************************************************************************)
EXTENDS StashNodeProofs

(***************************************************************************)
(* The event of a record.  A record the replica has seen, or a newer one   *)
(* under its key, is never inserted again, so its event is raised at most  *)
(* once; New(e) says that no watcher has taken it yet.                     *)
(***************************************************************************)
Mid == {"probe", "track", "mark", "wake"}

Seen(e) == \E f \in doc[e.ns] : f.key = e.key /\ e.timestamp <= f.timestamp

Untaken(ns, i) == i > 1 \/ watch[ns].pc \notin Mid

New(e) == \/ ~Seen(e)
          \/ \E i \in DOMAIN inbox[e.ns] : inbox[e.ns][i] = e /\ Untaken(e.ns, i)

\* The records a queue holds are of its namespace, were inserted, and occur once.
InboxInv ==
    \A ns \in Namespaces :
        /\ \A e \in doc[ns] : e.ns = ns
        /\ \A i \in DOMAIN inbox[ns] : inbox[ns][i].ns = ns /\ Seen(inbox[ns][i])
        /\ \A i, j \in DOMAIN inbox[ns] : inbox[ns][i] = inbox[ns][j] => i = j

(***************************************************************************)
(* The life of a hash: first Ahead of its event, then with a watcher that  *)
(* has put it on the ledger and not yet on the settle loop's list.         *)
(***************************************************************************)
Ahead(h) == \A e \in Entries : e.hash = h => New(e)

Handled(h) == \E ns \in Namespaces : watch[ns].pc \in {"probe", "track"} /\ Current(ns).hash = h

Fresh(h) == Ahead(h) \/ Handled(h)

\* Nobody chases h or has announced it.
Unlisted(h) ==
    /\ h \notin DOMAIN tracked
    /\ \A o \in settle.todo : o.hash # h
    /\ settle.pc \in {"fetch", "apply"} => settle.item.hash # h
    /\ \A w \in settle.wake : w.hash # h
    /\ \A ns \in Namespaces : wakes[ns][h] = 0

\* Nobody names h, and no sweep or upload is in the middle of h.
Unnamed(h) ==
    /\ content.state[h] = "Absent"
    /\ \A ns \in Namespaces : h \notin content.by_namespace[ns]
    /\ ~(prune.pc = "untrack" /\ prune.hash = h)
    /\ \A u \in Uploads : uploads[u] \in {"checked", "added"} => u.hash # h

LedgerInv ==
    /\ \A h \in Hashes : Fresh(h) => Unlisted(h)
    /\ \A h \in Hashes : Ahead(h) => Unnamed(h)
    /\ \A ns \in Namespaces : watch[ns].pc # "wake"
    /\ \A ns \in Namespaces : watch[ns].pc = "mark" => watch[ns].known /\ watch[ns].present

ChaseInv ==
    /\ WantedIsChased
    /\ prune.pc = "untrack" => content.state[prune.hash] = "Absent"

WakeInv ==
    /\ \A h \in DOMAIN tracked : ~tracked[h].woken =>
           /\ \A ns \in Namespaces : wakes[ns][h] = 0
           /\ \A w \in settle.wake : w.hash # h
    /\ \A w \in settle.wake : wakes[w.namespace][w.hash] = 0
    /\ WakeOnce

\* No need of unique ciphertext for this one.
TagInv ==
    /\ tagged \subseteq stored
    /\ gc.pc = "sweep" => tagged \subseteq gc.live
    /\ \A u \in Uploads : uploads[u] = "added" => u.hash \in tagged

BytesInv ==
    /\ engine = {}
    /\ \A h \in Hashes : Ahead(h) => h \notin stored
    /\ gc.pc = "sweep" => stored \cap Referenced(content) \subseteq gc.live
    /\ \A ns \in Namespaces :
          watch[ns].pc \in {"track", "mark"} /\ watch[ns].present /\ IsTracked(content, Current(ns).hash)
              => Current(ns).hash \in stored \cup {Empty}
    /\ settle.pc = "fetch" => ~settle.present
    /\ settle.pc = "apply" /\ settle.present /\ IsTracked(content, settle.item.hash)
           => settle.item.hash \in stored \cup {Empty}
    /\ PresentIsStored

ForgetInv ==
    /\ prune.now <= clock
    /\ prune.pc \in {"forget", "untrack"} =>
         \A e \in Entries : e.ns = prune.ns /\ e.hash \in prune.forget
             => Releasable(PruneCandidate(e), Written(prune.ns), clock)

(***************************************************************************)
(* What a step does to the queues.                                         *)
(***************************************************************************)
InboxStep ==
    \/ /\ UNCHANGED <<doc, inbox>>
       /\ \A ns \in Namespaces : watch'[ns].pc \in Mid <=> watch[ns].pc \in Mid
    \/ \E ns \in Namespaces : WatchWant(ns) \/ StreamFails(ns)
    \/ \E ns \in Namespaces : watch[ns].pc \in Mid /\ NextEvent(ns) /\ UNCHANGED doc
    \/ \E e \in Entries : Reconcile(e)

LEMMA NextInbox == TypeOK /\ [Next]_vars => InboxStep
  <1> SUFFICES ASSUME TypeOK, [Next]_vars PROVE InboxStep
    OBVIOUS
  <1>a. watch \in [Namespaces -> [pc : WatchPc, present : BOOLEAN, known : BOOLEAN]]
    BY DEF TypeOK, WatchOK
  <1>1. CASE UNCHANGED <<doc, inbox, watch>>
    BY <1>1 DEF InboxStep
  <1>2. ASSUME NEW ns \in Namespaces, Watch(ns) \/ Grant(ns) \/ SubscribeFails(ns) \/ StreamFails(ns)
        PROVE  InboxStep
    <2>1. CASE Subscribe(ns) \/ Grant(ns) \/ SubscribeFails(ns)
      BY <1>a, <2>1 DEF Subscribe, Grant, SubscribeFails, At, Mid, InboxStep, world
    <2>2. CASE WatchProbe(ns)
      <3>1. PICK present : watch' = [watch EXCEPT ![ns] = [@ EXCEPT !.pc = "track", !.present = present]]
        BY <2>2 DEF WatchProbe
      <3> QED BY <1>a, <2>2, <3>1 DEF WatchProbe, Mid, InboxStep, world
    <2>3. CASE WatchTrack(ns)
      BY <1>a, <2>3 DEF WatchTrack, Mid, InboxStep
    <2>4. CASE WatchMark(ns)
      BY <1>a, <2>4 DEF WatchMark, Mid, InboxStep
    <2>5. CASE WatchWake(ns)
      BY <2>5 DEF WatchWake, Mid, InboxStep
    <2> QED BY <1>2, <2>1, <2>2, <2>3, <2>4, <2>5 DEF Watch, InboxStep
  <1>3. CASE Settle
    BY <1>1, <1>3 DEF Settle, SettleStart, FetchOk, FetchFails, SettleApply, SettleProbe, SettleWake, world
  <1>4. CASE Prune \/ PruneScanFails
    BY <1>1, <1>4 DEF Prune, PruneStart, PruneUntrack, PruneScan, PruneForget, PruneScanFails, world
  <1>5. ASSUME NEW u \in Uploads, Put(u) \/ PutAbort(u) PROVE InboxStep
    BY <1>1, <1>5 DEF Put, PutCheck, PutAdd, PutMark, PutAbort, world
  <1>6. CASE Tick \/ Gc \/ UNCHANGED vars
    BY <1>1, <1>6 DEF Tick, Gc, GcMark, GcSweep, vars, world
  <1>7. CASE Replication
    <2>1. ASSUME NEW h \in Hashes, EngineDownload(h) \/ EngineGivesUp(h) PROVE InboxStep
      BY <1>1, <2>1 DEF EngineDownload, EngineGivesUp
    <2>2. ASSUME NEW ns \in Namespaces, Import(ns) PROVE InboxStep
      BY <1>1, <2>2 DEF Import
    <2>3. ASSUME NEW e \in Entries, Reconcile(e) PROVE InboxStep
      BY <2>3 DEF InboxStep
    <2> QED BY <1>2, <1>7, <2>1, <2>2, <2>3 DEF Replication
  <1> QED BY <1>2, <1>3, <1>4, <1>5, <1>6, <1>7 DEF Next, Errors

\* A record stays seen: what replaces a record under a key is newer.
LEMMA SeenStays ==
    ASSUME TypeOK, NEW e \in Entries, Seen(e), UNCHANGED doc \/ \E f \in Entries : Reconcile(f)
    PROVE  Seen(e)'
  <1>1. CASE UNCHANGED doc
    BY <1>1 DEF Seen
  <1>2. ASSUME NEW f \in Entries, Reconcile(f) PROVE Seen(e)'
    <2>1. PICK g \in doc[e.ns] : g.key = e.key /\ e.timestamp <= g.timestamp
      BY DEF Seen
    <2>2. e.ns \in Namespaces /\ f.ns \in Namespaces /\ g \in Entries
      BY NodeAssumption DEF TypeOK, WorldOK
    <2>3. doc' = [doc EXCEPT ![f.ns] = {d \in @ : d.key # f.key} \cup {f}]
      BY <1>2 DEF Reconcile
    <2>4. CASE g \in doc'[e.ns]
      BY <2>1, <2>4 DEF Seen
    <2>5. CASE g \notin doc'[e.ns]
      <3>1. e.ns = f.ns /\ g.key = f.key
        BY <2>1, <2>2, <2>3, <2>5 DEF TypeOK, WorldOK
      <3>2. f \in doc'[e.ns] /\ g.timestamp < f.timestamp
        BY <1>2, <2>1, <2>2, <2>3, <3>1 DEF Reconcile, TypeOK, WorldOK
      <3>3. e.timestamp <= f.timestamp
        BY <2>1, <2>2, <3>2, NodeAssumption
      <3> QED BY <2>1, <3>1, <3>2, <3>3 DEF Seen
    <2> QED BY <2>4, <2>5
  <1> QED BY <1>1, <1>2

\* The record a step inserts was not seen before and is seen after.
LEMMA ReconcileSeen ==
    ASSUME TypeOK, NEW e \in Entries, Reconcile(e)
    PROVE  ~Seen(e) /\ Seen(e)'
  <1>1. e.ns \in Namespaces /\ e.timestamp \in Nat
    BY NodeAssumption
  <1>2. \A f \in doc[e.ns] : f.timestamp \in Nat
    BY <1>1, NodeAssumption DEF TypeOK, WorldOK
  <1>3. ~Seen(e)
    BY <1>1, <1>2 DEF Reconcile, Seen
  <1>4. e \in doc'[e.ns]
    BY <1>1 DEF Reconcile, TypeOK, WorldOK
  <1> QED BY <1>1, <1>3, <1>4 DEF Seen

\* A queue with one record more: the old positions keep what they held.
LEMMA Appended ==
    ASSUME NEW s \in Seq(Entries), NEW e \in Entries, NEW t, t = Append(s, e)
    PROVE  /\ \A i \in DOMAIN s : i \in DOMAIN t /\ t[i] = s[i]
           /\ \A i \in DOMAIN t : i \in DOMAIN s \/ (i = Len(s) + 1 /\ t[i] = e)
           /\ Len(s) + 1 \in DOMAIN t
           /\ s # <<>> => Head(t) = Head(s)
  BY AppendProperties

\* A queue without its head: every position moves down by one.
LEMMA Dropped ==
    ASSUME NEW s \in Seq(Entries), s # <<>>
    PROVE  /\ \A i \in DOMAIN Tail(s) : i \in Nat /\ i >= 1 /\ i + 1 \in DOMAIN s /\ Tail(s)[i] = s[i + 1]
           /\ 1 \in DOMAIN s /\ Head(s) = s[1]
  BY HeadTailProperties

LEMMA InboxInit == Init => InboxInv
  <1>1. DOMAIN <<>> = {}
    OBVIOUS
  <1> QED BY <1>1 DEF Init, InboxInv

LEMMA InboxKept == TypeOK /\ InboxInv /\ [Next]_vars => InboxInv'
  <1> SUFFICES ASSUME TypeOK, InboxInv, [Next]_vars PROVE InboxInv'
    OBVIOUS
  <1>a. /\ inbox \in [Namespaces -> Seq(Entries)] /\ doc \in [Namespaces -> SUBSET Entries]
        /\ \A ns \in Namespaces : watch[ns].pc \in Mid => inbox[ns] # <<>>
    BY DEF TypeOK, WatchOK, WorldOK, Mid
  <1>1. CASE UNCHANGED <<doc, inbox>>
    BY <1>1 DEF InboxInv, Seen
  <1>2. ASSUME NEW ns \in Namespaces, StreamFails(ns) PROVE InboxInv'
    <2>1. doc' = doc /\ inbox' = [inbox EXCEPT ![ns] = <<>>]
      BY <1>2 DEF StreamFails
    <2> QED BY <1>a, <2>1 DEF InboxInv, Seen
  <1>3. ASSUME NEW ns \in Namespaces, watch[ns].pc \in Mid, NextEvent(ns), UNCHANGED doc
        PROVE  InboxInv'
    <2>1. inbox' = [inbox EXCEPT ![ns] = Tail(inbox[ns])] /\ inbox[ns] # <<>>
      BY <1>a, <1>3 DEF NextEvent
    <2>2. \A i \in DOMAIN inbox'[ns] :
              i \in Nat /\ i + 1 \in DOMAIN inbox[ns] /\ inbox'[ns][i] = inbox[ns][i + 1]
      BY <1>a, <2>1, Dropped
    <2>3. \A m \in Namespaces \ {ns} : inbox'[m] = inbox[m]
      BY <1>a, <2>1
    <2>4. \A m \in Namespaces : \A i \in DOMAIN inbox'[m] : inbox'[m][i].ns = m /\ Seen(inbox[m][i])'
      BY <1>3, <2>2, <2>3 DEF InboxInv, Seen
    <2>5. \A m \in Namespaces : \A i, j \in DOMAIN inbox'[m] : inbox'[m][i] = inbox'[m][j] => i = j
      BY <2>2, <2>3 DEF InboxInv
    <2> QED BY <1>3, <2>4, <2>5 DEF InboxInv
  <1>4. ASSUME NEW e \in Entries, Reconcile(e) PROVE InboxInv'
    <2>1. ~Seen(e) /\ Seen(e)' /\ e.ns \in Namespaces
      BY <1>4, ReconcileSeen, NodeAssumption
    <2>2. \A ns \in Namespaces : \A i \in DOMAIN inbox[ns] : \A f :
              f = inbox[ns][i] => f.ns = ns /\ f # e /\ Seen(f)'
      <3> SUFFICES ASSUME NEW ns \in Namespaces, NEW i \in DOMAIN inbox[ns], NEW f, f = inbox[ns][i]
                   PROVE  f.ns = ns /\ f # e /\ Seen(f)'
        OBVIOUS
      <3>1. f \in Entries /\ f.ns = ns /\ Seen(f)
        BY <1>a, InboxOps DEF InboxInv
      <3> QED BY <1>4, <2>1, <3>1, SeenStays
    <2>3. \A ns \in Namespaces : \A f \in doc'[ns] : f.ns = ns
      BY <1>4, <1>a, <2>1 DEF Reconcile, InboxInv
    <2>4. CASE inbox' = inbox
      BY <2>2, <2>3, <2>4 DEF InboxInv
    <2>5. CASE inbox' = [inbox EXCEPT ![e.ns] = Append(inbox[e.ns], e)]
      <3>1. /\ \A i \in DOMAIN inbox'[e.ns] :
                   \/ i \in DOMAIN inbox[e.ns] /\ inbox'[e.ns][i] = inbox[e.ns][i]
                   \/ i = Len(inbox[e.ns]) + 1 /\ inbox'[e.ns][i] = e
            /\ \A m \in Namespaces \ {e.ns} : inbox'[m] = inbox[m]
        BY <1>a, <2>1, <2>5, Appended
      <3>2. \A m \in Namespaces : \A i \in DOMAIN inbox'[m] : inbox'[m][i].ns = m /\ Seen(inbox[m][i])'
        BY <2>1, <2>2, <3>1 DEF Seen
      <3>3. \A m \in Namespaces : \A i, j \in DOMAIN inbox'[m] : inbox'[m][i] = inbox'[m][j] => i = j
        BY <2>2, <3>1 DEF InboxInv
      <3> QED BY <2>3, <3>2, <3>3 DEF InboxInv
    <2> QED BY <1>4, <2>4, <2>5 DEF Reconcile
  <1> QED BY <1>1, <1>2, <1>3, <1>4, NextInbox DEF InboxStep, WatchWant, world

\* The event a watcher is handling has been taken.
LEMMA TakenNotNew ==
    ASSUME TypeOK, InboxInv, NEW ns \in Namespaces, watch[ns].pc \in Mid
    PROVE  /\ Current(ns) \in Entries /\ Current(ns).ns = ns /\ ~New(Current(ns))
           /\ Current(ns).hash \in Hashes /\ ~Ahead(Current(ns).hash)
  <1>1. inbox[ns] \in Seq(Entries) /\ inbox[ns] # <<>>
    BY DEF TypeOK, WatchOK, Mid
  <1>2. Current(ns) = inbox[ns][1] /\ 1 \in DOMAIN inbox[ns] /\ Current(ns) \in Entries
    BY <1>1, Dropped, InboxOps DEF Current
  <1>3. Current(ns).ns = ns /\ Seen(Current(ns))
    BY <1>2 DEF InboxInv
  <1>4. \A i \in DOMAIN inbox[ns] : inbox[ns][i] = Current(ns) => i = 1
    BY <1>2 DEF InboxInv
  <1>5. ~New(Current(ns))
    BY <1>3, <1>4 DEF New, Untaken
  <1> QED BY <1>2, <1>3, <1>5, NodeAssumption DEF Ahead

\* The event a watcher takes was new.
LEMMA TakesNew ==
    ASSUME UniqueCiphertext, TypeOK, InboxInv, NEW ns \in Namespaces, WatchWant(ns)
    PROVE  Current(ns).hash \in Hashes /\ Ahead(Current(ns).hash)
  <1>1. inbox[ns] \in Seq(Entries) /\ inbox[ns] # <<>> /\ watch[ns].pc = "idle"
    BY DEF TypeOK, WatchOK, WatchWant
  <1>2. Current(ns) = inbox[ns][1] /\ 1 \in DOMAIN inbox[ns] /\ Current(ns) \in Entries
    BY <1>1, Dropped, InboxOps DEF Current
  <1>3. New(Current(ns))
    BY <1>1, <1>2 DEF New, Untaken, InboxInv, Mid
  <1> QED BY <1>2, <1>3, NodeAssumption DEF Ahead, UniqueCiphertext

\* An event that is new after a step was new before it: events are only taken.
LEMMA NewStep ==
    ASSUME TypeOK, InboxInv, [Next]_vars, NEW e \in Entries, New(e)'
    PROVE  New(e)
  <1>a. /\ inbox \in [Namespaces -> Seq(Entries)] /\ doc \in [Namespaces -> SUBSET Entries]
        /\ \A ns \in Namespaces : watch[ns].pc \in Mid => inbox[ns] # <<>>
        /\ e.ns \in Namespaces
        /\ watch \in [Namespaces -> [pc : WatchPc, present : BOOLEAN, known : BOOLEAN]]
    BY NodeAssumption DEF TypeOK, WatchOK, WorldOK, Mid
  <1>b. UNCHANGED doc \/ (\E f \in Entries : Reconcile(f)) => (Seen(e) => Seen(e)')
    BY SeenStays
  <1>c. SUFFICES ASSUME Seen(e) PROVE New(e)
    BY DEF New
  <1>1. CASE /\ UNCHANGED <<doc, inbox>>
             /\ \A ns \in Namespaces : watch'[ns].pc \in Mid <=> watch[ns].pc \in Mid
    BY <1>1, <1>a, <1>b, <1>c DEF New, Untaken
  <1>2. ASSUME NEW ns \in Namespaces, WatchWant(ns) PROVE New(e)
    <2>1. /\ doc' = doc /\ inbox' = inbox /\ watch[ns].pc = "idle"
          /\ \A m \in Namespaces \ {ns} : watch'[m] = watch[m]
      BY <1>2, <1>a DEF WatchWant, world
    <2>2. PICK i \in DOMAIN inbox'[e.ns] : inbox'[e.ns][i] = e /\ Untaken(e.ns, i)'
      BY <1>b, <1>c, <2>1 DEF New
    <2>3. Untaken(e.ns, i)
      BY <1>a, <2>1, <2>2 DEF Untaken, Mid
    <2> QED BY <2>1, <2>2, <2>3 DEF New
  <1>3. ASSUME NEW ns \in Namespaces, StreamFails(ns) PROVE New(e)
    <2>1. /\ doc' = doc /\ inbox' = [inbox EXCEPT ![ns] = <<>>]
          /\ \A m \in Namespaces \ {ns} : watch'[m] = watch[m]
      BY <1>3, <1>a DEF StreamFails
    <2>2. PICK i \in DOMAIN inbox'[e.ns] : inbox'[e.ns][i] = e /\ Untaken(e.ns, i)'
      BY <1>b, <1>c, <2>1 DEF New
    <2> QED BY <1>a, <2>1, <2>2 DEF New, Untaken
  <1>4. ASSUME NEW ns \in Namespaces, watch[ns].pc \in Mid, NextEvent(ns), UNCHANGED doc
        PROVE  New(e)
    <2>1. /\ inbox' = [inbox EXCEPT ![ns] = Tail(inbox[ns])] /\ inbox[ns] # <<>>
          /\ \A m \in Namespaces \ {ns} : watch'[m] = watch[m]
      BY <1>a, <1>4 DEF NextEvent
    <2>2. PICK i \in DOMAIN inbox'[e.ns] : inbox'[e.ns][i] = e /\ Untaken(e.ns, i)'
      BY <1>b, <1>c, <1>4 DEF New
    <2>3. CASE e.ns = ns
      <3>1. i \in Nat /\ i >= 1 /\ i + 1 \in DOMAIN inbox[ns] /\ inbox[ns][i + 1] = e
        BY <1>a, <2>1, <2>2, <2>3, Dropped
      <3> QED BY <2>3, <3>1 DEF New, Untaken
    <2>4. CASE e.ns # ns
      BY <1>a, <2>1, <2>2, <2>4 DEF New, Untaken
    <2> QED BY <2>3, <2>4
  <1>5. ASSUME NEW f \in Entries, Reconcile(f) PROVE New(e)
    <2>1. f.ns \in Namespaces /\ watch' = watch /\ e # f
      BY <1>5, <1>c, ReconcileSeen, NodeAssumption DEF Reconcile
    <2>2. PICK i \in DOMAIN inbox'[e.ns] : inbox'[e.ns][i] = e /\ Untaken(e.ns, i)'
      BY <1>b, <1>c, <1>5 DEF New
    <2>3. i \in DOMAIN inbox[e.ns] /\ inbox[e.ns][i] = e
      <3>1. CASE inbox' = inbox
        BY <2>2, <3>1
      <3>2. CASE inbox' = [inbox EXCEPT ![f.ns] = Append(inbox[f.ns], f)]
        BY <1>a, <2>1, <2>2, <3>2, Appended
      <3> QED BY <1>5, <3>1, <3>2 DEF Reconcile
    <2> QED BY <2>1, <2>2, <2>3 DEF New, Untaken
  <1> QED BY <1>1, <1>2, <1>3, <1>4, <1>5, NextInbox DEF InboxStep

(***************************************************************************)
(* A hash never goes back: it is Ahead until its one event is taken, and   *)
(* Fresh until the watcher that took the event has tracked it.             *)
(***************************************************************************)
LEMMA AheadStep ==
    ASSUME TypeOK, InboxInv, [Next]_vars, NEW h \in Hashes, Ahead(h)'
    PROVE  Ahead(h)
  BY NewStep DEF Ahead

\* After a watcher took an event, the event is not new.
LEMMA WantTakes ==
    ASSUME TypeOK, InboxInv, NEW ns \in Namespaces, WatchWant(ns)
    PROVE  \A h \in Hashes : h = Current(ns).hash => ~Ahead(h)'
  <1>1. /\ watch'[ns].pc = "probe" /\ inbox' = inbox /\ doc' = doc
        /\ inbox[ns] \in Seq(Entries) /\ inbox[ns] # <<>>
    BY DEF WatchWant, TypeOK, WatchOK, world
  <1>2. PICK e \in Entries : e = Current(ns) /\ e = inbox[ns][1] /\ 1 \in DOMAIN inbox[ns]
    BY <1>1, Dropped, InboxOps DEF Current
  <1>3. e.ns = ns /\ Seen(e) /\ \A i \in DOMAIN inbox[ns] : inbox[ns][i] = e => i = 1
    BY <1>2 DEF InboxInv
  <1>4. ~New(e)'
    BY <1>1, <1>3 DEF New, Untaken, Seen, Mid
  <1> QED BY <1>2, <1>4 DEF Ahead

\* Two watchers never handle the same hash.
LEMMA OneHandler ==
    ASSUME UniqueCiphertext, TypeOK, InboxInv, NEW ns \in Namespaces, NEW m \in Namespaces,
           watch[ns].pc \in Mid, watch[m].pc \in Mid, Current(ns).hash = Current(m).hash
    PROVE  ns = m
  BY TakenNotNew DEF UniqueCiphertext

\* What the watchers are handling after a step.
LEMMA HandledStep ==
    ASSUME TypeOK, [Next]_vars, NEW ns \in Namespaces, watch'[ns].pc \in {"probe", "track"}
    PROVE  /\ Current(ns)' = Current(ns)
           /\ watch[ns].pc \in {"probe", "track"} \/ WatchWant(ns)
           /\ ~WatchTrack(ns)
  <1>a. /\ inbox \in [Namespaces -> Seq(Entries)]
        /\ watch \in [Namespaces -> [pc : WatchPc, present : BOOLEAN, known : BOOLEAN]]
        /\ \A m \in Namespaces : watch[m].pc \in Mid => inbox[m] # <<>>
    BY DEF TypeOK, WatchOK, Mid
  <1>t. ~WatchTrack(ns)
    <2>1. ASSUME NEW k, watch' = [watch EXCEPT ![ns] = [@ EXCEPT !.pc = "mark", !.known = k]]
          PROVE  FALSE
      BY <1>a, <2>1
    <2>2. ~NextEvent(ns)
      BY <1>a DEF NextEvent, At
    <2> QED BY <2>1, <2>2 DEF WatchTrack
  <1>1. CASE watch'[ns] = watch[ns] /\ inbox'[ns] = inbox[ns]
    BY <1>1, <1>t DEF Current
  <1>2. ASSUME NEW m \in Namespaces, Watch(m) \/ Grant(m) \/ SubscribeFails(m) \/ StreamFails(m)
        PROVE  /\ Current(ns)' = Current(ns)
               /\ watch[ns].pc \in {"probe", "track"} \/ WatchWant(ns)
    <2>1. CASE m # ns
      <3>1. watch'[ns] = watch[ns] /\ inbox'[ns] = inbox[ns]
        BY <1>2, <1>a, <2>1
           DEF Watch, Grant, Subscribe, SubscribeFails, StreamFails, WatchWant, WatchProbe,
               WatchTrack, WatchMark, WatchWake, NextEvent, At, world
      <3> QED BY <1>1, <3>1
    <2>2. CASE m = ns
      <3>1. CASE WatchWant(ns)
        BY <3>1 DEF WatchWant, Current, world
      <3>2. CASE WatchProbe(ns)
        BY <3>2 DEF WatchProbe, Current, world
      <3>3. ~(Subscribe(ns) \/ Grant(ns) \/ SubscribeFails(ns) \/ StreamFails(ns))
        BY <1>a DEF Subscribe, Grant, SubscribeFails, StreamFails, At
      <3>4. ~WatchMark(ns)
        BY <1>a DEF WatchMark, NextEvent, At
      <3>5. ~WatchWake(ns)
        BY <1>a DEF WatchWake, NextEvent, At
      <3> QED BY <1>2, <1>t, <2>2, <3>1, <3>2, <3>3, <3>4, <3>5 DEF Watch
    <2> QED BY <2>1, <2>2
  <1>3. CASE Settle
    BY <1>1, <1>3, <1>t DEF Settle, SettleStart, FetchOk, FetchFails, SettleApply, SettleProbe, SettleWake, world
  <1>4. CASE Prune \/ PruneScanFails
    BY <1>1, <1>4, <1>t DEF Prune, PruneStart, PruneUntrack, PruneScan, PruneForget, PruneScanFails, world
  <1>5. ASSUME NEW u \in Uploads, Put(u) \/ PutAbort(u)
        PROVE  Current(ns)' = Current(ns) /\ watch[ns].pc \in {"probe", "track"}
    BY <1>1, <1>5 DEF Put, PutCheck, PutAdd, PutMark, PutAbort, world, Current
  <1>6. CASE Tick \/ Gc \/ UNCHANGED vars
    BY <1>1, <1>6 DEF Tick, Gc, GcMark, GcSweep, vars, world
  <1>7. ASSUME NEW h \in Hashes, EngineDownload(h) \/ EngineGivesUp(h)
        PROVE  Current(ns)' = Current(ns) /\ watch[ns].pc \in {"probe", "track"}
    BY <1>1, <1>7 DEF EngineDownload, EngineGivesUp, Current
  <1>8. ASSUME NEW m \in Namespaces, Import(m)
        PROVE  Current(ns)' = Current(ns) /\ watch[ns].pc \in {"probe", "track"}
    BY <1>1, <1>8 DEF Import, Current
  <1>9. ASSUME NEW e \in Entries, Reconcile(e)
        PROVE  Current(ns)' = Current(ns) /\ watch[ns].pc \in {"probe", "track"}
    <2>1. watch' = watch /\ inbox[ns] # <<>>
      BY <1>9, <1>a DEF Reconcile, Mid
    <2>2. CASE inbox'[ns] = inbox[ns]
      BY <2>1, <2>2 DEF Current
    <2>3. CASE inbox'[ns] = Append(inbox[ns], e)
      BY <1>a, <2>1, <2>3, Appended DEF Current
    <2> QED BY <1>9, <1>a, <2>2, <2>3 DEF Reconcile
  <1> QED BY <1>2, <1>3, <1>4, <1>5, <1>6, <1>7, <1>8, <1>9, <1>t DEF Next, Errors, Replication

LEMMA FreshStep ==
    ASSUME UniqueCiphertext, TypeOK, InboxInv, [Next]_vars, NEW h \in Hashes, Fresh(h)'
    PROVE  /\ Fresh(h)
           /\ \A ns \in Namespaces : WatchTrack(ns) => Current(ns).hash # h
  <1>1. CASE Ahead(h)'
    <2>1. Ahead(h)
      BY <1>1, AheadStep
    <2>2. ASSUME NEW ns \in Namespaces, WatchTrack(ns) PROVE Current(ns).hash # h
      BY <2>1, <2>2, TakenNotNew DEF WatchTrack, Mid
    <2> QED BY <2>1, <2>2 DEF Fresh
  <1>2. CASE Handled(h)'
    <2>1. PICK ns \in Namespaces : watch'[ns].pc \in {"probe", "track"} /\ (Current(ns).hash)' = h
      BY <1>2 DEF Handled
    <2>2. /\ Current(ns).hash = h /\ ~WatchTrack(ns)
          /\ watch[ns].pc \in {"probe", "track"} \/ WatchWant(ns)
      BY <2>1, HandledStep
    <2>3. Fresh(h)
      BY <2>2, TakesNew DEF Fresh, Handled
    <2>4. ASSUME NEW m \in Namespaces, WatchTrack(m), Current(m).hash = h PROVE FALSE
      <3>1. watch[m].pc = "track" /\ ~Ahead(h)
        BY <2>4, TakenNotNew DEF WatchTrack, Mid
      <3>2. watch[ns].pc \in {"probe", "track"}
        BY <2>2, <3>1, TakesNew
      <3> QED BY <2>2, <2>4, <3>1, <3>2, OneHandler DEF Mid
    <2> QED BY <2>3, <2>4
  <1> QED BY <1>1, <1>2 DEF Fresh

(***************************************************************************)
(* Which steps change which variable.                                      *)
(***************************************************************************)
LEMMA Touches ==
    ASSUME [Next]_vars
    PROVE  /\ \/ UNCHANGED content \/ SettleApply \/ \E h \in Hashes : PruneForget(h)
              \/ \E ns \in Namespaces : WatchWant(ns) \/ WatchMark(ns)
              \/ \E u \in Uploads : PutMark(u)
           /\ UNCHANGED tracked \/ SettleApply \/ PruneUntrack \/ \E ns \in Namespaces : WatchTrack(ns)
           /\ UNCHANGED settle \/ Settle
           /\ UNCHANGED prune \/ Prune \/ PruneScanFails
           /\ UNCHANGED uploads \/ \E u \in Uploads : Put(u) \/ PutAbort(u)
           /\ \/ UNCHANGED wakes \/ \E w \in settle.wake : SettleWake(w)
              \/ \E ns \in Namespaces : WatchWake(ns)
           /\ \/ UNCHANGED <<stored, gc>> \/ Gc \/ FetchOk \/ \E u \in Uploads : PutAdd(u)
              \/ \E h \in Hashes : EngineDownload(h)
           /\ UNCHANGED tagged \/ \E u \in Uploads : PutAdd(u)
           /\ UNCHANGED engine \/ Replication
           /\ UNCHANGED clock \/ Tick
  <1> DEFINE Claim ==
           /\ \/ UNCHANGED content \/ SettleApply \/ \E h \in Hashes : PruneForget(h)
              \/ \E ns \in Namespaces : WatchWant(ns) \/ WatchMark(ns)
              \/ \E u \in Uploads : PutMark(u)
           /\ UNCHANGED tracked \/ SettleApply \/ PruneUntrack \/ \E ns \in Namespaces : WatchTrack(ns)
           /\ UNCHANGED settle \/ Settle
           /\ UNCHANGED prune \/ Prune \/ PruneScanFails
           /\ UNCHANGED uploads \/ \E u \in Uploads : Put(u) \/ PutAbort(u)
           /\ \/ UNCHANGED wakes \/ \E w \in settle.wake : SettleWake(w)
              \/ \E ns \in Namespaces : WatchWake(ns)
           /\ \/ UNCHANGED <<stored, gc>> \/ Gc \/ FetchOk \/ \E u \in Uploads : PutAdd(u)
              \/ \E h \in Hashes : EngineDownload(h)
           /\ UNCHANGED tagged \/ \E u \in Uploads : PutAdd(u)
           /\ UNCHANGED engine \/ Replication
           /\ UNCHANGED clock \/ Tick
  <1>1. CASE UNCHANGED vars
    BY <1>1 DEF vars
  <1>2. ASSUME NEW ns \in Namespaces, Watch(ns) PROVE Claim
    BY <1>2 DEF Watch, Subscribe, WatchWant, WatchProbe, WatchTrack, WatchMark, WatchWake, world, blobs
  <1>3. CASE Settle
    BY <1>3 DEF Settle, SettleStart, FetchOk, FetchFails, SettleApply, SettleProbe, SettleWake, world, blobs
  <1>4. CASE Prune
    BY <1>4 DEF Prune, PruneStart, PruneUntrack, PruneScan, PruneForget, world, blobs
  <1>5. ASSUME NEW u \in Uploads, Put(u) PROVE Claim
    BY <1>5 DEF Put, PutCheck, PutAdd, PutMark, world, blobs
  <1>6. CASE Replication
    BY <1>6 DEF Replication, Import, Grant, Reconcile, EngineDownload, EngineGivesUp, blobs
  <1>7. CASE Errors
    BY <1>7 DEF Errors, SubscribeFails, StreamFails, PruneScanFails, PutAbort, world, blobs
  <1>8. CASE Tick \/ Gc
    BY <1>8 DEF Tick, Gc, GcMark, GcSweep, world, blobs
  <1> QED BY <1>1, <1>2, <1>3, <1>4, <1>5, <1>6, <1>7, <1>8 DEF Next

\* What a pass goes on with.
LEMMA SettleOnFields ==
    ASSUME SettleOK, NEW wake, settle' = SettleOn(wake)
    PROVE  settle'.todo = settle.todo /\ settle'.wake = wake /\ settle'.pc \notin {"fetch", "apply"}
  <1>1. CASE settle.todo = {} /\ wake = {}
    BY <1>1 DEF SettleOn, SettleIdle
  <1>2. CASE ~(settle.todo = {} /\ wake = {})
    <2>1. \E pc \in {"wake", "pass"} :
              settle' = [settle EXCEPT !.pc = pc, !.item = None, !.present = FALSE, !.wake = wake]
      BY <1>2 DEF SettleOn
    <2> QED BY <2>1 DEF SettleOK
  <1> QED BY <1>1, <1>2

\* A wake counts for one namespace and one hash.
LEMMA WakeForOne ==
    ASSUME WorldOK, NEW ns \in Namespaces, NEW h \in Hashes, WakeFor(ns, h)
    PROVE  \A m \in Namespaces, g \in Hashes :
               wakes'[m][g] = IF m = ns /\ g = h THEN Least(wakes[ns][h] + 1, WakeCap) ELSE wakes[m][g]
  BY DEF WorldOK, WakeFor

\* A hash nobody chases stays so until a watcher tracks it.
LEMMA UnlistedStep ==
    ASSUME TypeOK, [Next]_vars, NEW h \in Hashes, Unlisted(h),
           \A ns \in Namespaces : WatchTrack(ns) => Current(ns).hash # h,
           \A ns \in Namespaces : watch[ns].pc # "wake"
    PROVE  Unlisted(h)'
  <1> DEFINE Off(s) == /\ \A o \in s.todo : o.hash # h
                       /\ s.pc \in {"fetch", "apply"} => s.item.hash # h
                       /\ \A w \in s.wake : w.hash # h
             Silent(c) == \A ns \in Namespaces : c[ns][h] = 0
  <1>1. h \notin DOMAIN tracked'
    <2>1. CASE SettleApply
      BY <2>1 DEF SettleApply, Unlisted
    <2>2. ASSUME NEW ns \in Namespaces, WatchTrack(ns) PROVE h \notin DOMAIN tracked'
      BY <2>2 DEF WatchTrack, OrInsert, Unlisted
    <2>3. CASE PruneUntrack
      BY <2>3 DEF PruneUntrack, Without, Unlisted
    <2> QED BY <2>1, <2>2, <2>3, Touches DEF Unlisted
  <1>2. Off(settle')
    <2>1. CASE UNCHANGED settle
      BY <2>1 DEF Unlisted
    <2>2. CASE SettleStart
      <3>1. settle'.pc = "pass" /\ settle'.todo = {Copy(g) : g \in Outstanding} /\ settle'.wake = {}
        BY <2>2 DEF SettleStart, SettleIdle
      <3>2. \A g \in Outstanding : Copy(g).hash # h
        BY DEF Outstanding, Copy, Unlisted
      <3> QED BY <3>1, <3>2
    <2>3. CASE FetchOk \/ FetchFails
      BY <2>3 DEF FetchOk, FetchFails, TypeOK, SettleOK, Unlisted
    <2>4. CASE SettleApply
      <3>1. WakeOf(settle.item).hash = settle.item.hash /\ settle.item.hash # h
        BY <2>4 DEF WakeOf, SettleApply, Unlisted
      <3>2. PICK wake : /\ settle' = SettleOn(wake)
                        /\ wake \subseteq settle.wake \cup {WakeOf(settle.item)}
        BY <2>4 DEF SettleApply, OwedWake
      <3> QED BY <3>1, <3>2, SettleOnFields DEF TypeOK, Unlisted
    <2>5. ASSUME NEW o \in settle.todo, SettleProbe(o) PROVE Off(settle')
      <3>1. PICK has : settle' = [settle EXCEPT !.todo = @ \ {o}, !.item = o, !.present = has,
                                      !.pc = IF ~has /\ Due(o) THEN "fetch" ELSE "apply"]
        BY <2>5 DEF SettleProbe
      <3> QED BY <3>1 DEF TypeOK, SettleOK, Unlisted
    <2>6. ASSUME NEW w \in settle.wake, SettleWake(w) PROVE Off(settle')
      <3>1. settle' = SettleOn(settle.wake \ {w})
        BY <2>6 DEF SettleWake
      <3>2. settle'.todo = settle.todo /\ settle'.wake = settle.wake \ {w}
            /\ settle'.pc \notin {"fetch", "apply"}
        BY <3>1, SettleOnFields DEF TypeOK
      <3> QED BY <3>2 DEF Unlisted
    <2> QED BY <2>1, <2>2, <2>3, <2>4, <2>5, <2>6, Touches DEF Settle
  <1>3. Silent(wakes')
    <2>1. ASSUME NEW w \in settle.wake, SettleWake(w) PROVE Silent(wakes')
      <3>1. w.namespace \in Namespaces /\ w.hash \in Hashes /\ w.hash # h
        BY DEF TypeOK, SettleOK, Wakes, Unlisted
      <3> QED BY <2>1, <3>1, WakeForOne DEF SettleWake, TypeOK, Unlisted
    <2>2. \A ns \in Namespaces : ~WatchWake(ns)
      BY DEF WatchWake
    <2> QED BY <2>1, <2>2, Touches DEF Unlisted
  <1> QED BY <1>1, <1>2, <1>3 DEF Unlisted

\* What a sweep goes on with.
LEMMA PruneOnFields ==
    ASSUME PruneOK, NEW todo, NEW forget
    PROVE  /\ PruneOn(todo, forget).pc # "untrack"
           /\ PruneOn(todo, forget).pc = "forget" => forget # {}
           /\ forget # {} => PruneOn(todo, forget).ns = prune.ns /\ PruneOn(todo, forget).forget = forget
           /\ PruneOn(todo, forget).now \in {prune.now, 0}
  BY DEF PruneOK, PruneOn, PruneIdle

\* A hash nobody names stays so until a watcher takes its event.
LEMMA UnnamedStep ==
    ASSUME TypeOK, [Next]_vars, NEW h \in Hashes, Unnamed(h),
           \A ns \in Namespaces : WatchWant(ns) => Current(ns).hash # h
    PROVE  Unnamed(h)'
  <1> USE DEF Unnamed
  <1> DEFINE Free(ix)   == ix.state[h] = "Absent" /\ \A ns \in Namespaces : h \notin ix.by_namespace[ns]
             Away(p)    == ~(p.pc = "untrack" /\ p.hash = h)
             NoneOf(up) == \A u \in Uploads : up[u] \in {"checked", "added"} => u.hash # h
  <1>a. \A ns \in Namespaces : watch[ns].pc \in Mid \/ WatchWant(ns) => Current(ns).hash \in Hashes
    BY InboxOps, NodeAssumption DEF TypeOK, WatchOK, Current, Mid, WatchWant
  <1>m. \A g \in Hashes : content' = MarkPresent(content, g) => Free(content')
    BY DEF MarkPresent, TypeOK, Index
  <1>1. Free(content')
    <2>1. ASSUME NEW ns \in Namespaces, WatchWant(ns) PROVE Free(content')
      BY <1>a, <2>1 DEF WatchWant, Want, TypeOK, Index
    <2>2. ASSUME NEW ns \in Namespaces, WatchMark(ns) PROVE Free(content')
      BY <1>a, <1>m, <2>2 DEF WatchMark, Mid
    <2>3. CASE SettleApply
      BY <1>m, <2>3 DEF SettleApply, TypeOK, TrackedOK
    <2>4. ASSUME NEW g \in Hashes, PruneForget(g) PROVE Free(content')
      BY <2>4 DEF PruneForget, Forget, TypeOK, Index, PruneOK
    <2>5. ASSUME NEW u \in Uploads, PutMark(u) PROVE Free(content')
      BY <1>m, <2>5, NodeAssumption DEF PutMark
    <2> QED BY <2>1, <2>2, <2>3, <2>4, <2>5, Touches
  <1>2. Away(prune')
    <2>1. CASE UNCHANGED prune
      BY <2>1
    <2>2. CASE PruneStart \/ PruneScanFails
      <3>1. PruneStart => prune'.pc = "scan"
        BY DEF PruneStart, PruneIdle
      <3>2. PruneScanFails => prune'.pc = "idle"
        BY DEF PruneScanFails, PruneIdle
      <3> QED BY <2>2, <3>1, <3>2
    <2>3. CASE PruneUntrack
      BY <2>3, PruneOnFields DEF PruneUntrack, TypeOK
    <2>4. ASSUME NEW ns \in Namespaces, PruneScan(ns) PROVE prune'.pc # "untrack"
      <3>1. PICK forget, todo : \/ prune' = PruneOn(todo, forget)
                                \/ forget # {} /\ prune' = [PruneOn(todo, forget) EXCEPT !.ns = ns]
        BY <2>4 DEF PruneScan
      <3>2. [PruneOn(todo, forget) EXCEPT !.ns = ns].pc = PruneOn(todo, forget).pc
        BY DEF PruneOn, PruneIdle, TypeOK, PruneOK
      <3>3. PruneOn(todo, forget).pc # "untrack"
        BY PruneOnFields DEF TypeOK
      <3> QED BY <3>1, <3>2, <3>3
    <2>5. ASSUME NEW g \in Hashes, PruneForget(g) PROVE Away(prune')
      <3>1. CASE DropsLast(content, prune.ns, g)
        <4>1. g # h
          BY <2>5, <3>1 DEF DropsLast, IsTrackedFor, TypeOK, PruneOK, PruneForget
        <4> QED BY <2>5, <3>1, <4>1 DEF PruneForget, TypeOK, PruneOK
      <3>2. CASE ~DropsLast(content, prune.ns, g)
        BY <2>5, <3>2, PruneOnFields DEF PruneForget, TypeOK
      <3> QED BY <3>1, <3>2
    <2> QED BY <2>1, <2>2, <2>3, <2>4, <2>5, Touches DEF Prune
  <1>3. NoneOf(uploads')
    <2>1. ASSUME NEW u \in Uploads, PutCheck(u) PROVE NoneOf(uploads')
      <3>1. PutVerdict(u) \in {"checked", "added"} => u.hash # h
        BY NodeAssumption DEF PutVerdict, IsTrackedFor
      <3> QED BY <2>1, <3>1 DEF PutCheck, TypeOK, WorldOK
    <2>2. ASSUME NEW u \in Uploads, PutAdd(u) \/ PutMark(u) \/ PutAbort(u) PROVE NoneOf(uploads')
      BY <2>2 DEF PutAdd, PutMark, PutAbort, TypeOK, WorldOK
    <2> QED BY <2>1, <2>2, Touches DEF Put
  <1> QED BY <1>1, <1>2, <1>3

(***************************************************************************)
(* The ledger.  A hash whose event is still to be taken is unknown to the  *)
(* index, the sweeps and the uploads; until it is tracked, nobody chases   *)
(* it or has announced it.  So the record a watcher offers to `tracked` is *)
(* the one that gets there, and the watcher never wakes for it by itself.  *)
(***************************************************************************)
LEMMA LedgerInit == Init => LedgerInv
  <1> SUFFICES ASSUME Init PROVE LedgerInv
    OBVIOUS
  <1>1. \A h \in Hashes : Unlisted(h)
    BY DEF Init, Unlisted, SettleIdle
  <1>2. \A h \in Hashes : Unnamed(h)
    BY DEF Init, Unnamed, NewIndex, PruneIdle
  <1>3. \A ns \in Namespaces : watch[ns].pc = "absent"
    BY DEF Init, At
  <1> QED BY <1>1, <1>2, <1>3 DEF LedgerInv

\* A watcher that found the bytes has tracked the hash as announced.
LEMMA MarkKnown ==
    ASSUME TypeOK, InboxInv, LedgerInv, [Next]_vars, NEW ns \in Namespaces
    PROVE  /\ watch'[ns].pc # "wake"
           /\ watch'[ns].pc = "mark" => watch'[ns].known /\ watch'[ns].present
  <1> DEFINE Good(w) == w.pc # "wake" /\ (w.pc = "mark" => w.known /\ w.present)
  <1>a. /\ watch \in [Namespaces -> [pc : WatchPc, present : BOOLEAN, known : BOOLEAN]]
        /\ Good(watch[ns])
    BY DEF TypeOK, WatchOK, LedgerInv
  <1>1. ASSUME NEW m \in Namespaces, Watch(m) \/ Grant(m) \/ SubscribeFails(m) \/ StreamFails(m)
        PROVE  Good(watch'[ns])
    <2>1. CASE m # ns
      BY <1>1, <1>a, <2>1
         DEF Watch, Grant, Subscribe, SubscribeFails, StreamFails, WatchWant, WatchProbe,
             WatchTrack, WatchMark, WatchWake, NextEvent, At
    <2>i. NextEvent(ns) => Good(watch'[ns])
      BY <1>a DEF NextEvent, At
    <2>2. CASE WatchTrack(ns)
      <3>1. Current(ns).hash \notin DOMAIN tracked
        BY <2>2, TakenNotNew DEF LedgerInv, Fresh, Handled, Unlisted, WatchTrack, Mid
      <3>2. tracked'[Current(ns).hash].woken = watch[ns].present
        BY <2>2, <3>1 DEF WatchTrack, OrInsert, FreshEntry
      <3>3. CASE watch[ns].present
        BY <1>a, <2>2, <3>2, <3>3 DEF WatchTrack
      <3> QED BY <2>2, <2>i, <3>3 DEF WatchTrack
    <2>3. CASE WatchMark(ns)
      BY <1>a, <2>3, <2>i DEF WatchMark
    <2>4. CASE WatchProbe(ns)
      <3>1. PICK present : watch' = [watch EXCEPT ![ns] = [@ EXCEPT !.pc = "track", !.present = present]]
        BY <2>4 DEF WatchProbe
      <3> QED BY <1>a, <3>1
    <2>5. CASE WatchWant(ns) \/ Subscribe(ns) \/ Grant(ns) \/ SubscribeFails(ns) \/ StreamFails(ns)
      BY <1>a, <2>5 DEF WatchWant, Subscribe, Grant, SubscribeFails, StreamFails, At
    <2>6. ~WatchWake(ns)
      BY <1>a DEF WatchWake
    <2> QED BY <1>1, <2>1, <2>2, <2>3, <2>4, <2>5, <2>6 DEF Watch
  <1>2. CASE UNCHANGED watch
    BY <1>a, <1>2
  <1>3. CASE Settle
    BY <1>2, <1>3 DEF Settle, SettleStart, FetchOk, FetchFails, SettleApply, SettleProbe, SettleWake
  <1>4. CASE Prune \/ PruneScanFails
    BY <1>2, <1>4 DEF Prune, PruneStart, PruneUntrack, PruneScan, PruneForget, PruneScanFails
  <1>5. ASSUME NEW u \in Uploads, Put(u) \/ PutAbort(u) PROVE Good(watch'[ns])
    BY <1>2, <1>5 DEF Put, PutCheck, PutAdd, PutMark, PutAbort
  <1>6. CASE Replication
    BY <1>1, <1>2, <1>6 DEF Replication, Import, Reconcile, EngineDownload, EngineGivesUp
  <1>7. CASE Tick \/ Gc \/ UNCHANGED vars
    BY <1>2, <1>7 DEF Tick, Gc, GcMark, GcSweep, vars
  <1> QED BY <1>1, <1>3, <1>4, <1>5, <1>6, <1>7 DEF Next, Errors

LEMMA LedgerKept == UniqueCiphertext /\ TypeOK /\ InboxInv /\ LedgerInv /\ [Next]_vars => LedgerInv'
  <1> SUFFICES ASSUME UniqueCiphertext, TypeOK, InboxInv, LedgerInv, [Next]_vars PROVE LedgerInv'
    OBVIOUS
  <1>1. ASSUME NEW h \in Hashes, Fresh(h)' PROVE Unlisted(h)'
    <2>1. Fresh(h) /\ \A ns \in Namespaces : WatchTrack(ns) => Current(ns).hash # h
      BY <1>1, FreshStep
    <2> QED BY <2>1, UnlistedStep DEF LedgerInv
  <1>2. ASSUME NEW h \in Hashes, Ahead(h)' PROVE Unnamed(h)'
    <2>1. Ahead(h)
      BY <1>2, AheadStep
    <2>2. \A ns \in Namespaces : WatchWant(ns) => Current(ns).hash # h
      BY <1>2, WantTakes
    <2> QED BY <2>1, <2>2, UnnamedStep DEF LedgerInv
  <1> QED BY <1>1, <1>2, MarkKnown DEF LedgerInv

(***************************************************************************)
(* The invariant of the node with unique ciphertext.                       *)
(***************************************************************************)
LEMMA Ledger ==
    ASSUME UniqueCiphertext
    PROVE  Spec => [](TypeOK /\ InboxInv /\ LedgerInv)
  <1>1. Init => InboxInv /\ LedgerInv
    BY InboxInit, LedgerInit
  <1>2. TypeOK /\ InboxInv /\ LedgerInv /\ [Next]_vars => InboxInv' /\ LedgerInv'
    BY InboxKept, LedgerKept
  <1> QED BY <1>1, <1>2, TypeCorrect, PTL DEF Spec

(***************************************************************************)
(* WantedIsChased.  PruneUntrack takes its hash off the settle loop's list *)
(* some time after it dropped it from the index: in between nothing may    *)
(* put it back on the ledger.                                              *)
(***************************************************************************)
\* How the index comes to call a hash wanted, or stops.
LEMMA WantedStep ==
    ASSUME TypeOK, [Next]_vars, NEW h \in Hashes
    PROVE  /\ content'.state[h] = "Wanted" =>
                 content.state[h] = "Wanted" \/ \E ns \in Namespaces : WatchWant(ns) /\ Current(ns).hash = h
           /\ content'.state[h] # "Absent" =>
                 content.state[h] # "Absent" \/ \E ns \in Namespaces : WatchWant(ns) /\ Current(ns).hash = h
  <1> DEFINE Claim == /\ content'.state[h] = "Wanted" =>
                            \/ content.state[h] = "Wanted"
                            \/ \E ns \in Namespaces : WatchWant(ns) /\ Current(ns).hash = h
                      /\ content'.state[h] # "Absent" =>
                            \/ content.state[h] # "Absent"
                            \/ \E ns \in Namespaces : WatchWant(ns) /\ Current(ns).hash = h
  <1>m. \A g : content' = MarkPresent(content, g) => Claim
    BY DEF MarkPresent, TypeOK, Index
  <1>1. ASSUME NEW ns \in Namespaces, WatchWant(ns) PROVE Claim
    BY <1>1 DEF WatchWant, Want, TypeOK, Index
  <1>2. ASSUME NEW ns \in Namespaces, WatchMark(ns) PROVE Claim
    BY <1>m, <1>2 DEF WatchMark
  <1>3. CASE SettleApply
    BY <1>m, <1>3 DEF SettleApply
  <1>4. ASSUME NEW g \in Hashes, PruneForget(g) PROVE Claim
    BY <1>4 DEF PruneForget, Forget, TypeOK, Index
  <1>5. ASSUME NEW u \in Uploads, PutMark(u) PROVE Claim
    BY <1>m, <1>5 DEF PutMark
  <1> QED BY <1>1, <1>2, <1>3, <1>4, <1>5, Touches

\* MarkPresent(h) leaves h other than wanted.
LEMMA MarkedNotWanted ==
    ASSUME NEW ix \in Index, NEW h \in Hashes
    PROVE  MarkPresent(ix, h).state[h] # "Wanted"
  BY DEF MarkPresent, Index, State

\* Between dropping a hash and untracking it, nothing names the hash.
LEMMA UntrackedStep ==
    ASSUME UniqueCiphertext, TypeOK, InboxInv, LedgerInv, ChaseInv, [Next]_vars, prune'.pc = "untrack"
    PROVE  content'.state[prune'.hash] = "Absent"
  <1>1. CASE UNCHANGED prune
    <2>1. prune.hash \in Hashes /\ content.state[prune.hash] = "Absent"
      BY <1>1 DEF ChaseInv, TypeOK, PruneOK
    <2>2. ASSUME NEW ns \in Namespaces, WatchWant(ns), Current(ns).hash = prune.hash PROVE FALSE
      BY <1>1, <2>2, TakesNew DEF LedgerInv, Unnamed
    <2> QED BY <1>1, <2>1, <2>2, WantedStep
  <1>2. ASSUME NEW h \in Hashes, PruneForget(h) PROVE content'.state[prune'.hash] = "Absent"
    <2>1. DropsLast(content, prune.ns, h) /\ prune'.hash = h
      BY <1>2, PruneOnFields DEF PruneForget, TypeOK, PruneOK
    <2> QED BY <1>2, <2>1 DEF PruneForget, Forget, TypeOK, Index
  <1>3. PruneStart => prune'.pc = "scan"
    BY DEF PruneStart, PruneIdle
  <1>4. PruneScanFails => prune'.pc = "idle"
    BY DEF PruneScanFails, PruneIdle
  <1>5. ~PruneUntrack
    BY PruneOnFields DEF PruneUntrack, TypeOK
  <1>6. ASSUME NEW ns \in Namespaces, PruneScan(ns) PROVE FALSE
    <2>1. PICK forget, todo : \/ prune' = PruneOn(todo, forget)
                              \/ forget # {} /\ prune' = [PruneOn(todo, forget) EXCEPT !.ns = ns]
      BY <1>6 DEF PruneScan
    <2>2. [PruneOn(todo, forget) EXCEPT !.ns = ns].pc = PruneOn(todo, forget).pc
      BY DEF PruneOn, PruneIdle, TypeOK, PruneOK
    <2>3. PruneOn(todo, forget).pc # "untrack"
      BY PruneOnFields DEF TypeOK
    <2> QED BY <2>1, <2>2, <2>3
  <1> QED BY <1>1, <1>2, <1>3, <1>4, <1>5, <1>6, Touches DEF Prune

\* A hash on the settle loop's list stays there while it is wanted.
LEMMA OutstandingStep ==
    ASSUME TypeOK, ChaseInv, [Next]_vars, NEW h \in Hashes, h \in Outstanding,
           content.state[h] = "Wanted", content'.state[h] = "Wanted"
    PROVE  h \in Outstanding'
  <1>a. h \in DOMAIN tracked /\ ~tracked[h].content_present /\ tracked[h] \in TrackedEntry
    BY DEF Outstanding, TypeOK, TrackedOK
  <1>1. CASE SettleApply
    <2>1. CASE settle.item.hash = h
      <3>1. settle.present = FALSE
        <4>1. settle.present => content' = MarkPresent(content, h)
          BY <1>1, <1>a, <2>1 DEF SettleApply
        <4> QED BY <4>1, MarkedNotWanted DEF TypeOK, SettleOK
      <3>2. tracked' = [tracked EXCEPT ![h] = Settled(h)]
        BY <1>1, <1>a, <2>1 DEF SettleApply
      <3>3. ~Settled(h).content_present
        BY <1>a, <3>1 DEF Settled, SettledAs, TrackedEntry
      <3> QED BY <1>a, <3>2, <3>3 DEF Outstanding
    <2>2. CASE settle.item.hash # h
      BY <1>1, <1>a, <2>2 DEF SettleApply, Outstanding
    <2> QED BY <2>1, <2>2
  <1>2. CASE PruneUntrack
    BY <1>2, <1>a DEF PruneUntrack, Without, Outstanding, ChaseInv
  <1>3. ASSUME NEW ns \in Namespaces, WatchTrack(ns) PROVE h \in Outstanding'
    BY <1>3, <1>a DEF WatchTrack, OrInsert, Outstanding
  <1>4. CASE UNCHANGED tracked
    BY <1>4, <1>a DEF Outstanding
  <1> QED BY <1>1, <1>2, <1>3, <1>4, Touches

\* A watcher in the middle of an event goes on with it or is done with it.
LEMMA MidStep ==
    ASSUME TypeOK, [Next]_vars, NEW ns \in Namespaces, watch[ns].pc \in Mid
    PROVE  \/ watch'[ns] = watch[ns] /\ Current(ns)' = Current(ns)
           \/ WatchProbe(ns) /\ watch'[ns].pc = "track" /\ Current(ns)' = Current(ns)
           \/ WatchTrack(ns) /\ watch[ns].present /\ watch'[ns].pc = "mark" /\ Current(ns)' = Current(ns)
           \/ WatchTrack(ns) /\ ~watch[ns].present
           \/ WatchMark(ns) \/ WatchWake(ns)
  <1> DEFINE Same  == watch'[ns] = watch[ns] /\ Current(ns)' = Current(ns)
             Claim == \/ Same
                      \/ WatchProbe(ns) /\ watch'[ns].pc = "track" /\ Current(ns)' = Current(ns)
                      \/ /\ WatchTrack(ns) /\ watch[ns].present
                         /\ watch'[ns].pc = "mark" /\ Current(ns)' = Current(ns)
                      \/ WatchTrack(ns) /\ ~watch[ns].present
                      \/ WatchMark(ns) \/ WatchWake(ns)
  <1>a. /\ inbox \in [Namespaces -> Seq(Entries)] /\ inbox[ns] # <<>>
        /\ watch \in [Namespaces -> [pc : WatchPc, present : BOOLEAN, known : BOOLEAN]]
    BY DEF TypeOK, WatchOK, Mid
  <1>1. ASSUME UNCHANGED <<watch, inbox>> PROVE Same
    BY <1>1 DEF Current
  <1>2. ASSUME NEW m \in Namespaces, Watch(m) \/ Grant(m) \/ SubscribeFails(m) \/ StreamFails(m)
        PROVE  Claim
    <2>1. CASE m # ns
      <3>1. watch'[ns] = watch[ns] /\ inbox'[ns] = inbox[ns]
        BY <1>2, <1>a, <2>1
           DEF Watch, Grant, Subscribe, SubscribeFails, StreamFails, WatchWant, WatchProbe,
               WatchTrack, WatchMark, WatchWake, NextEvent, At, world
      <3> QED BY <3>1 DEF Current
    <2>2. CASE m = ns
      <3>1. ~(Subscribe(ns) \/ Grant(ns) \/ SubscribeFails(ns) \/ StreamFails(ns) \/ WatchWant(ns))
        BY DEF Subscribe, Grant, SubscribeFails, StreamFails, WatchWant, Mid
      <3>2. CASE WatchProbe(ns)
        <4>1. PICK p : watch' = [watch EXCEPT ![ns] = [@ EXCEPT !.pc = "track", !.present = p]]
          BY <3>2 DEF WatchProbe
        <4>2. watch'[ns].pc = "track"
          BY <1>a, <4>1
        <4> QED BY <3>2, <4>2 DEF WatchProbe, Current, world
      <3>3. CASE WatchTrack(ns) /\ watch[ns].present
        <4>1. PICK k : watch' = [watch EXCEPT ![ns] = [@ EXCEPT !.pc = "mark", !.known = k]]
          BY <3>3 DEF WatchTrack
        <4>2. watch'[ns].pc = "mark"
          BY <1>a, <4>1
        <4> QED BY <3>3, <4>2 DEF WatchTrack, Current
      <3> QED BY <1>2, <2>2, <3>1, <3>2, <3>3 DEF Watch
    <2> QED BY <2>1, <2>2
  <1>3. CASE Settle
    BY <1>1, <1>3 DEF Settle, SettleStart, FetchOk, FetchFails, SettleApply, SettleProbe, SettleWake, world
  <1>4. CASE Prune \/ PruneScanFails
    BY <1>1, <1>4 DEF Prune, PruneStart, PruneUntrack, PruneScan, PruneForget, PruneScanFails, world
  <1>5. ASSUME NEW u \in Uploads, Put(u) \/ PutAbort(u) PROVE Same
    BY <1>1, <1>5 DEF Put, PutCheck, PutAdd, PutMark, PutAbort, world
  <1>6. CASE Tick \/ Gc \/ UNCHANGED vars
    BY <1>1, <1>6 DEF Tick, Gc, GcMark, GcSweep, vars, world
  <1>7. ASSUME NEW h \in Hashes, EngineDownload(h) \/ EngineGivesUp(h) PROVE Same
    BY <1>1, <1>7 DEF EngineDownload, EngineGivesUp
  <1>8. ASSUME NEW m \in Namespaces, Import(m) PROVE Same
    BY <1>1, <1>8 DEF Import
  <1>9. ASSUME NEW e \in Entries, Reconcile(e) PROVE Same
    <2>1. watch' = watch
      BY <1>9 DEF Reconcile
    <2>2. CASE inbox'[ns] = inbox[ns]
      BY <2>1, <2>2 DEF Current
    <2>3. CASE inbox'[ns] = Append(inbox[ns], e)
      BY <1>a, <2>1, <2>3, Appended DEF Current
    <2> QED BY <1>9, <1>a, <2>2, <2>3 DEF Reconcile
  <1> QED BY <1>2, <1>3, <1>4, <1>5, <1>6, <1>7, <1>8, <1>9 DEF Next, Errors, Replication

LEMMA ChaseKept ==
    UniqueCiphertext /\ TypeOK /\ InboxInv /\ LedgerInv /\ ChaseInv /\ [Next]_vars => ChaseInv'
  <1> SUFFICES ASSUME UniqueCiphertext, TypeOK, InboxInv, LedgerInv, ChaseInv, [Next]_vars
               PROVE  ChaseInv'
    OBVIOUS
  <1> DEFINE Held(h) == \E ns \in Namespaces :
                            watch[ns].pc \in {"probe", "track", "mark"} /\ Current(ns).hash = h
  <1>1. ASSUME NEW h \in Hashes, content'.state[h] = "Wanted"
        PROVE  h \in Outstanding' \/ Held(h)'
    <2>1. ASSUME NEW ns \in Namespaces, WatchWant(ns), Current(ns).hash = h PROVE Held(h)'
      <3>1. watch'[ns].pc = "probe" /\ Current(ns)' = Current(ns)
        BY <2>1 DEF WatchWant, Current, TypeOK, WatchOK, world
      <3> QED BY <2>1, <3>1
    <2>2. CASE content.state[h] = "Wanted" /\ h \in Outstanding
      BY <1>1, <2>2, OutstandingStep
    <2>3. ASSUME content.state[h] = "Wanted",
                 NEW ns \in Namespaces, watch[ns].pc \in {"probe", "track", "mark"}, Current(ns).hash = h
          PROVE  h \in Outstanding' \/ Held(h)'
      <3>1. CASE watch'[ns] = watch[ns] /\ Current(ns)' = Current(ns)
        BY <2>3, <3>1
      <3>2. CASE watch'[ns].pc \in {"track", "mark"} /\ Current(ns)' = Current(ns)
        BY <2>3, <3>2
      <3>3. CASE WatchTrack(ns) /\ ~watch[ns].present
        <4>1. h \notin DOMAIN tracked
          BY <2>3, <3>3 DEF LedgerInv, Fresh, Handled, Unlisted, WatchTrack
        <4> QED BY <2>3, <3>3, <4>1 DEF WatchTrack, OrInsert, FreshEntry, Outstanding
      <3>4. ~WatchMark(ns)
        BY <1>1, <2>3, MarkedNotWanted DEF WatchMark, TypeOK
      <3>5. ~WatchWake(ns)
        BY <2>3 DEF WatchWake
      <3> QED BY <2>3, <3>1, <3>2, <3>3, <3>4, <3>5, MidStep DEF Mid
    <2> QED BY <1>1, <2>1, <2>2, <2>3, WantedStep DEF ChaseInv, WantedIsChased
  <1>2. WantedIsChased'
    BY <1>1 DEF WantedIsChased
  <1> QED BY <1>2, UntrackedStep DEF ChaseInv

\* With unique ciphertext, every hash on the missing-content ledger is on the
\* settle loop's list, or its watcher is between the two.
THEOREM Chased ==
    ASSUME UniqueCiphertext
    PROVE  Spec => []WantedIsChased
  <1>1. Init => ChaseInv
    BY DEF Init, ChaseInv, WantedIsChased, NewIndex, PruneIdle
  <1>2. TypeOK /\ InboxInv /\ LedgerInv /\ ChaseInv /\ [Next]_vars => ChaseInv'
    BY ChaseKept
  <1>3. ChaseInv => WantedIsChased
    BY DEF ChaseInv
  <1> QED BY <1>1, <1>2, <1>3, Ledger, PTL DEF Spec

(***************************************************************************)
(* WakeOnce.  A wake is owed by the pass that sets `woken`, and waits in   *)
(* the pass until it is sent: as long as it waits nobody has been woken,   *)
(* and as long as `woken` is not set none waits and none was sent.         *)
(***************************************************************************)
\* How an entry that is not yet announced came to be in `tracked`.
LEMMA UnwokenStep ==
    ASSUME TypeOK, [Next]_vars, NEW h \in DOMAIN tracked', ~tracked'[h].woken
    PROVE  \/ h \in DOMAIN tracked /\ ~tracked[h].woken
           \/ h \notin DOMAIN tracked /\ \E ns \in Namespaces : WatchTrack(ns) /\ Current(ns).hash = h
  <1>1. CASE SettleApply
    <2>1. CASE settle.item.hash = h /\ h \in DOMAIN tracked
      <3>1. tracked[h] \in TrackedEntry /\ tracked' = [tracked EXCEPT ![h] = Settled(h)]
        BY <1>1, <2>1 DEF SettleApply, TypeOK, TrackedOK
      <3>2. tracked[h].woken => Settled(h).woken
        BY <3>1 DEF Settled, SettledAs, TrackedEntry
      <3> QED BY <2>1, <3>1, <3>2
    <2>2. CASE ~(settle.item.hash = h /\ h \in DOMAIN tracked)
      BY <1>1, <2>2 DEF SettleApply
    <2> QED BY <2>1, <2>2
  <1>2. CASE PruneUntrack
    BY <1>2 DEF PruneUntrack, Without
  <1>3. ASSUME NEW ns \in Namespaces, WatchTrack(ns)
        PROVE  \/ h \in DOMAIN tracked /\ ~tracked[h].woken
               \/ h \notin DOMAIN tracked /\ Current(ns).hash = h
    BY <1>3 DEF WatchTrack, OrInsert
  <1> QED BY <1>1, <1>2, <1>3, Touches

\* Where the wakes that wait after a step come from.
LEMMA OwedStep ==
    ASSUME TypeOK, [Next]_vars, NEW w \in settle'.wake
    PROVE  \/ w \in settle.wake /\ ~SettleWake(w)
           \/ /\ SettleApply /\ settle.item.hash = w.hash
              /\ w.hash \in DOMAIN tracked /\ ~tracked[w.hash].woken /\ tracked'[w.hash].woken
  <1> USE DEF TypeOK
  <1>1. CASE UNCHANGED settle
    <2>1. ~SettleWake(w)
      <3>1. ASSUME SettleWake(w) PROVE FALSE
        <4>1. settle' = SettleOn(settle.wake \ {w})
          BY <3>1 DEF SettleWake
        <4>2. settle'.wake = settle.wake \ {w}
          BY <4>1, SettleOnFields
        <4> QED BY <4>2
      <3> QED BY <3>1
    <2> QED BY <1>1, <2>1
  <1>2. CASE SettleStart
    BY <1>2 DEF SettleStart, SettleIdle
  <1>3. CASE FetchOk \/ FetchFails
    BY <1>3 DEF FetchOk, FetchFails, SettleOK, SettleWake
  <1>4. CASE SettleApply
    <2> DEFINE h == settle.item.hash
    <2>1. CASE h \notin DOMAIN tracked
      <3>1. settle' = SettleOn(settle.wake)
        BY <1>4, <2>1 DEF SettleApply
      <3> QED BY <1>4, <3>1, SettleOnFields DEF SettleApply, SettleWake
    <2>2. CASE h \in DOMAIN tracked
      <3>1. settle' = SettleOn(settle.wake \cup OwedWake(h)) /\ tracked' = [tracked EXCEPT ![h] = Settled(h)]
        BY <1>4, <2>2 DEF SettleApply
      <3>2. w \in settle.wake \cup OwedWake(h)
        BY <3>1, SettleOnFields
      <3>3. w \in OwedWake(h) => Settled(h).woken /\ ~tracked[h].woken /\ w.hash = h
        BY DEF OwedWake, WakeOf
      <3> QED BY <1>4, <2>2, <3>1, <3>2, <3>3 DEF SettleApply, SettleWake
    <2> QED BY <2>1, <2>2
  <1>5. ASSUME NEW o \in settle.todo, SettleProbe(o) PROVE w \in settle.wake /\ ~SettleWake(w)
    <2>1. settle'.wake = settle.wake /\ settle.pc = "pass"
      BY <1>5 DEF SettleProbe, SettleOK
    <2> QED BY <2>1 DEF SettleWake
  <1>6. ASSUME NEW x \in settle.wake, SettleWake(x) PROVE w \in settle.wake /\ ~SettleWake(w)
    <2>1. settle' = SettleOn(settle.wake \ {x})
      BY <1>6 DEF SettleWake
    <2>2. settle'.wake = settle.wake \ {x}
      BY <2>1, SettleOnFields
    <2>3. ASSUME SettleWake(w) PROVE FALSE
      <3>1. settle' = SettleOn(settle.wake \ {w})
        BY <2>3 DEF SettleWake
      <3>2. settle'.wake = settle.wake \ {w}
        BY <3>1, SettleOnFields
      <3> QED BY <3>2
    <2> QED BY <2>2, <2>3
  <1> QED BY <1>1, <1>2, <1>3, <1>4, <1>5, <1>6, Touches DEF Settle

\* A step that wakes anybody sends one waiting wake.
LEMMA WokenBy ==
    ASSUME TypeOK, LedgerInv, [Next]_vars, NEW ns \in Namespaces, NEW h \in Hashes, wakes'[ns][h] # wakes[ns][h]
    PROVE  /\ \E w \in settle.wake : SettleWake(w) /\ w.namespace = ns /\ w.hash = h
           /\ wakes'[ns][h] = Least(wakes[ns][h] + 1, WakeCap)
  <1>1. \A m \in Namespaces : ~WatchWake(m)
    BY DEF WatchWake, LedgerInv
  <1>2. PICK w \in settle.wake : SettleWake(w)
    BY <1>1, Touches
  <1>3. w.namespace \in Namespaces /\ w.hash \in Hashes /\ WakeFor(w.namespace, w.hash)
    BY <1>2 DEF TypeOK, SettleOK, Wakes, SettleWake
  <1>4. wakes'[ns][h] = IF ns = w.namespace /\ h = w.hash
                        THEN Least(wakes[ns][h] + 1, WakeCap) ELSE wakes[ns][h]
    BY <1>3, WakeForOne DEF TypeOK
  <1> QED BY <1>2, <1>4

LEMMA WakeKept ==
    UniqueCiphertext /\ TypeOK /\ InboxInv /\ LedgerInv /\ WakeInv /\ [Next]_vars => WakeInv'
  <1> SUFFICES ASSUME UniqueCiphertext, TypeOK, InboxInv, LedgerInv, WakeInv, [Next]_vars
               PROVE  WakeInv'
    OBVIOUS
  <1>t. /\ wakes \in [Namespaces -> [Hashes -> 0..WakeCap]] /\ WakeCap \in Nat
        /\ \A w \in settle.wake : w \in Wakes
        /\ DOMAIN tracked \subseteq Hashes
    BY NodeAssumption DEF TypeOK, WorldOK, SettleOK, TrackedOK
  <1>1. ASSUME NEW h \in DOMAIN tracked', ~tracked'[h].woken
        PROVE  /\ \A ns \in Namespaces : wakes'[ns][h] = 0
               /\ \A w \in settle'.wake : w.hash # h
    <2>a. h \in Hashes
      BY NextType DEF TypeOK, TrackedOK
    <2> DEFINE Quiet == (\A ns \in Namespaces : wakes[ns][h] = 0) /\ \A w \in settle.wake : w.hash # h
    <2>1. Quiet
      <3>1. ASSUME NEW ns \in Namespaces, WatchTrack(ns), Current(ns).hash = h PROVE Quiet
        BY <2>a, <3>1 DEF LedgerInv, Fresh, Handled, Unlisted, WatchTrack
      <3> QED BY <1>1, <3>1, UnwokenStep DEF WakeInv
    <2>2. \A ns \in Namespaces : wakes'[ns][h] = 0
      BY <2>a, <2>1, WokenBy
    <2>3. \A w \in settle'.wake : w.hash # h
      BY <1>1, <2>1, OwedStep
    <2> QED BY <2>2, <2>3
  <1>2. ASSUME NEW w \in settle'.wake PROVE wakes'[w.namespace][w.hash] = 0
    <2>a. w.namespace \in Namespaces /\ w.hash \in Hashes
      BY NextType DEF TypeOK, SettleOK, Wakes
    <2>1. wakes[w.namespace][w.hash] = 0
      BY <2>a, OwedStep DEF WakeInv
    <2>2. ASSUME NEW x \in settle.wake, SettleWake(x), x.namespace = w.namespace, x.hash = w.hash
          PROVE  FALSE
      <3>1. w \in settle.wake /\ ~SettleWake(w)
        BY <2>2, OwedStep DEF SettleApply, SettleWake
      <3>2. x = w
        BY <1>t, <2>2, <3>1 DEF Wakes
      <3> QED BY <2>2, <3>1, <3>2
    <2> QED BY <2>a, <2>1, <2>2, WokenBy
  <1>3. ASSUME NEW ns \in Namespaces, NEW h \in Hashes PROVE wakes'[ns][h] <= 1
    <2>1. CASE wakes'[ns][h] = wakes[ns][h]
      BY <2>1 DEF WakeInv, WakeOnce
    <2>2. CASE wakes'[ns][h] # wakes[ns][h]
      <3>1. PICK w \in settle.wake : w.namespace = ns /\ w.hash = h
        BY <2>2, WokenBy
      <3>2. wakes[ns][h] = 0 /\ wakes'[ns][h] = Least(wakes[ns][h] + 1, WakeCap)
        BY <2>2, <3>1, WokenBy DEF WakeInv
      <3> QED BY <1>t, <3>2 DEF Least
    <2> QED BY <2>1, <2>2
  <1> QED BY <1>1, <1>2, <1>3 DEF WakeInv, WakeOnce

\* With unique ciphertext, the subscribers of a namespace hear of a hash at
\* most once, whatever the order of watchers, passes, uploads and sweeps.
THEOREM WokenOnce ==
    ASSUME UniqueCiphertext
    PROVE  Spec => []WakeOnce
  <1>1. Init => WakeInv
    BY DEF Init, WakeInv, WakeOnce, SettleIdle
  <1>2. TypeOK /\ InboxInv /\ LedgerInv /\ WakeInv /\ [Next]_vars => WakeInv'
    BY WakeKept
  <1>3. WakeInv => WakeOnce
    BY DEF WakeInv
  <1> QED BY <1>1, <1>2, <1>3, Ledger, PTL DEF Spec

(***************************************************************************)
(* KeptIsReferenced.  A sweep acts on the records it read and the clock it *)
(* read; the decisions it took then are still right when it acts on them,  *)
(* because nothing that was written is ever unwritten: a tombstone keeps   *)
(* the key of what it retires.                                             *)
(***************************************************************************)
\* Later instants and newer records release no less.
LEMMA ReleaseStays ==
    ASSUME TypeOK, InboxInv, [Next]_vars, NEW e \in Entries, NEW ns \in Namespaces, NEW t \in Nat, t <= clock,
           Releasable(PruneCandidate(e), Written(ns), t)
    PROVE  /\ Releasable(PruneCandidate(e), Written(ns), clock)
           /\ Releasable(PruneCandidate(e), Written(ns)', clock')
  <1>a. clock \in Nat /\ clock' \in Nat /\ clock <= clock'
    <2>1. clock \in Nat
      BY DEF TypeOK, WorldOK
    <2> QED BY <2>1, Touches DEF Tick
  <1>b. PruneCandidate(e).written_ms \in Nat
    BY NodeAssumption DEF PruneCandidate
  <1>1. CASE Superseded(PruneCandidate(e), Written(ns))
    <2>1. PICK f \in doc[ns] : /\ IsFixKey(PruneCandidate(e).key) /\ IsFixKey(f.key)
                               /\ FixAuthor(f.key) = FixAuthor(PruneCandidate(e).key)
                               /\ FixSeq(PruneCandidate(e).key) < FixSeq(f.key)
      BY <1>1 DEF Superseded, Written, PruneCandidate
    <2>2. \E g \in doc'[ns] : g.key = f.key
      <3>1. CASE doc' = doc
        BY <3>1
      <3>2. ASSUME NEW x \in Entries, Reconcile(x) PROVE \E g \in doc'[ns] : g.key = f.key
        BY <3>2, NodeAssumption DEF Reconcile, TypeOK, WorldOK
      <3> QED BY <3>1, <3>2, NextInbox DEF InboxStep, WatchWant, StreamFails, world
    <2>3. PICK g \in doc'[ns] : g.key = f.key
      BY <2>2
    <2>4. PruneCandidate(g) \in Written(ns)' /\ PruneCandidate(g).key = f.key
      BY <2>3 DEF Written, PruneCandidate
    <2>5. Superseded(PruneCandidate(e), Written(ns)')
      BY <2>1, <2>4 DEF Superseded
    <2> QED BY <1>1, <2>5 DEF Releasable
  <1>2. CASE IsExpired(PruneCandidate(e).written_ms, t)
    <2>1. IsExpired(PruneCandidate(e).written_ms, clock) /\ IsExpired(PruneCandidate(e).written_ms, clock')
      BY <1>a, <1>b, <1>2, RetentionAssumption DEF IsExpired, Cutoff, SaturatingSub
    <2> QED BY <2>1 DEF Releasable
  <1> QED BY <1>1, <1>2 DEF Releasable

\* With unique ciphertext, a hash the sweep lists belongs to one record, the
\* one the sweep read.
LEMMA ListedIsReleasable ==
    ASSUME SealedUnique, TypeOK, NEW ns \in Namespaces, NEW t, NEW e \in Entries,
           e.hash \in ForgetHashes(ns, t)
    PROVE  Releasable(PruneCandidate(e), Written(ns), t)
  <1>1. PICK c \in Candidates(ns) : Releasable(c, Candidates(ns), t) /\ c.hash = e.hash
    BY DEF ForgetHashes
  <1>2. PICK f \in doc[ns] : c = PruneCandidate(f) /\ f.hash # Empty
    BY DEF Candidates
  <1>3. f \in Entries /\ f.hash = e.hash
    BY <1>1, <1>2 DEF PruneCandidate, TypeOK, WorldOK
  <1>4. Candidates(ns) \subseteq Written(ns)
    BY DEF Candidates, Written
  <1>5. Releasable(c, Written(ns), t)
    BY <1>1, <1>4 DEF Releasable, Superseded
  <1> QED BY <1>2, <1>3, <1>5 DEF SealedUnique

LEMMA ForgetKept == SealedUnique /\ TypeOK /\ InboxInv /\ ForgetInv /\ [Next]_vars => ForgetInv'
  <1> SUFFICES ASSUME SealedUnique, TypeOK, InboxInv, ForgetInv, [Next]_vars
               PROVE  ForgetInv'
    OBVIOUS
  <1>a. /\ clock \in Nat /\ clock' \in Nat /\ clock <= clock' /\ prune.now \in Nat /\ prune.now <= clock
        /\ prune.pc \in {"forget", "untrack"} => prune.ns \in Namespaces
    <2>1. clock \in Nat
      BY DEF TypeOK, WorldOK
    <2> QED BY <2>1, Touches DEF Tick, ForgetInv, TypeOK, PruneOK
  <1> DEFINE Right == prune.pc \in {"forget", "untrack"} =>
                 \A e \in Entries : e.ns = prune.ns /\ e.hash \in prune.forget
                     => Releasable(PruneCandidate(e), Written(prune.ns), clock)
  <1>1. ASSUME prune'.pc \in {"forget", "untrack"} =>
                   prune'.ns = prune.ns /\ prune'.forget \subseteq prune.forget /\ prune.pc \in {"forget", "untrack"}
        PROVE  Right'
    <2> SUFFICES ASSUME prune'.pc \in {"forget", "untrack"}, NEW ns \in Namespaces, ns = prune.ns,
                        NEW e \in Entries, e.ns = ns, e.hash \in prune.forget
                 PROVE  Releasable(PruneCandidate(e), Written(ns)', clock')
      BY <1>1, <1>a DEF Written
    <2>1. Releasable(PruneCandidate(e), Written(ns), clock)
      BY <1>1 DEF ForgetInv
    <2> QED BY <1>a, <2>1, ReleaseStays
  <1>2. CASE UNCHANGED prune
    BY <1>1, <1>2, <1>a DEF ForgetInv
  <1>3. CASE PruneStart
    <2>1. prune'.pc = "scan" /\ prune'.now = clock
      BY <1>3 DEF PruneStart, PruneIdle
    <2> QED BY <1>a, <2>1 DEF ForgetInv
  <1>4. CASE PruneScanFails
    <2>1. prune'.pc = "idle" /\ prune'.now = 0
      BY <1>4 DEF PruneScanFails, PruneIdle
    <2> QED BY <1>a, <2>1 DEF ForgetInv
  <1>5. ASSUME NEW todo, NEW forget \in SUBSET prune.forget, prune' = PruneOn(todo, forget),
               prune.pc \in {"forget", "untrack"}
        PROVE  ForgetInv'
    <2>1. /\ prune'.pc # "untrack" /\ prune'.now \in {prune.now, 0}
          /\ prune'.pc = "forget" => prune'.ns = prune.ns /\ prune'.forget = forget
      BY <1>5, PruneOnFields DEF TypeOK
    <2>2. Right'
      BY <1>1, <1>5, <2>1
    <2> QED BY <1>a, <2>1, <2>2 DEF ForgetInv
  <1>6. CASE PruneUntrack
    BY <1>5, <1>6 DEF PruneUntrack
  <1>7. ASSUME NEW h \in Hashes, PruneForget(h) PROVE ForgetInv'
    <2>1. CASE DropsLast(content, prune.ns, h)
      <3>1. prune' = [prune EXCEPT !.pc = "untrack", !.hash = h, !.forget = @ \ {h}]
        BY <1>7, <2>1 DEF PruneForget
      <3>2. prune'.ns = prune.ns /\ prune'.forget \subseteq prune.forget /\ prune'.now = prune.now
            /\ prune.pc = "forget"
        BY <1>7, <3>1 DEF PruneForget, TypeOK, PruneOK
      <3>3. Right'
        BY <1>1, <3>2
      <3> QED BY <1>a, <3>2, <3>3 DEF ForgetInv
    <2>2. CASE ~DropsLast(content, prune.ns, h)
      BY <1>5, <1>7, <2>2 DEF PruneForget
    <2> QED BY <2>1, <2>2
  <1>8. ASSUME NEW ns \in Namespaces, PruneScan(ns) PROVE ForgetInv'
    <2> DEFINE forget == ForgetHashes(ns, prune.now)
               next   == PruneOn(prune.todo \ {ns}, forget)
    <2>1. prune' = IF forget # {} THEN [next EXCEPT !.ns = ns] ELSE next
      BY <1>8 DEF PruneScan
    <2>2. UNCHANGED <<doc, clock>>
      BY <1>8 DEF PruneScan, world
    <2>3. ASSUME NEW e \in Entries, e.hash \in forget
          PROVE  Releasable(PruneCandidate(e), Written(ns)', clock')
      BY <1>a, <2>3, ListedIsReleasable, ReleaseStays
    <2> HIDE DEF forget
    <2>4. next.now \in {prune.now, 0} /\ (forget = {} => next.pc \notin {"forget", "untrack"})
      BY PruneOnFields DEF TypeOK
    <2>5. CASE forget = {}
      BY <1>a, <2>1, <2>4, <2>5 DEF ForgetInv
    <2>6. CASE forget # {}
      <3>1. next = [prune EXCEPT !.pc = "forget", !.todo = prune.todo \ {ns}, !.forget = forget, !.hash = None]
        BY <2>6 DEF PruneOn
      <3>2. prune'.ns = ns /\ prune'.forget = forget /\ prune'.now = prune.now
        BY <2>1, <2>6, <3>1 DEF TypeOK, PruneOK
      <3> QED BY <1>a, <2>3, <3>2 DEF ForgetInv
    <2> QED BY <2>5, <2>6
  <1> QED BY <1>2, <1>3, <1>4, <1>6, <1>7, <1>8, Touches DEF Prune

\* How a record comes to be taken up: its watcher takes its event.
LEMMA TakenUpStep ==
    ASSUME TypeOK, InboxInv, [Next]_vars, NEW e \in Entries, TakenUp(e)'
    PROVE  TakenUp(e) \/ (WatchWant(e.ns) /\ Current(e.ns) = e)
  <1> DEFINE Claim == TakenUp(e) \/ (WatchWant(e.ns) /\ Current(e.ns) = e)
  <1>a. /\ inbox \in [Namespaces -> Seq(Entries)] /\ doc \in [Namespaces -> SUBSET Entries]
        /\ watch \in [Namespaces -> [pc : WatchPc, present : BOOLEAN, known : BOOLEAN]]
        /\ \A m \in Namespaces : watch[m].pc \in Mid => inbox[m] # <<>>
        /\ e.ns \in Namespaces
    BY NodeAssumption DEF TypeOK, WatchOK, WorldOK, Mid
  <1>b. /\ e \in doc'[e.ns] /\ e \notin missed'
        /\ \A i \in DOMAIN inbox'[e.ns] : inbox'[e.ns][i] = e => i = 1 /\ watch'[e.ns].pc # "idle"
    BY DEF TakenUp
  <1>1. ASSUME UNCHANGED <<doc, missed>>, inbox'[e.ns] = inbox[e.ns],
               watch[e.ns].pc = "idle" => watch'[e.ns].pc = "idle"
        PROVE  TakenUp(e)
    BY <1>b, <1>1 DEF TakenUp
  <1>2. ASSUME NEW m \in Namespaces, Watch(m) \/ Grant(m) \/ SubscribeFails(m) PROVE Claim
    <2>1. CASE m # e.ns
      <3>1. UNCHANGED <<doc, missed>> /\ inbox'[e.ns] = inbox[e.ns] /\ watch'[e.ns] = watch[e.ns]
        BY <1>2, <1>a, <2>1
           DEF Watch, Grant, Subscribe, SubscribeFails, WatchWant, WatchProbe,
               WatchTrack, WatchMark, WatchWake, NextEvent, At, world
      <3> QED BY <1>1, <3>1
    <2>2. CASE m = e.ns
      <3>1. CASE WatchWant(e.ns)
        <4>1. UNCHANGED <<doc, missed, inbox>> /\ inbox[e.ns] # <<>>
          BY <3>1 DEF WatchWant, world
        <4>2. Current(e.ns) = inbox[e.ns][1] /\ 1 \in DOMAIN inbox[e.ns]
          BY <1>a, <4>1, Dropped DEF Current
        <4>3. Current(e.ns) # e => TakenUp(e)
          BY <1>b, <4>1, <4>2 DEF TakenUp
        <4> QED BY <3>1, <4>3
      <3>2. ASSUME UNCHANGED <<doc, missed>>, NextEvent(e.ns), watch[e.ns].pc \in Mid PROVE TakenUp(e)
        <4>1. /\ inbox' = [inbox EXCEPT ![e.ns] = Tail(inbox[e.ns])] /\ inbox[e.ns] # <<>>
              /\ watch'[e.ns].pc = "idle"
          BY <1>a, <3>2 DEF NextEvent, At
        <4>2. \A i \in DOMAIN Tail(inbox[e.ns]) : Tail(inbox[e.ns])[i] # e
          BY <1>a, <1>b, <4>1
        <4>3. \A i \in DOMAIN inbox[e.ns] : inbox[e.ns][i] = e => i = 1
          <5> SUFFICES ASSUME NEW i \in DOMAIN inbox[e.ns], i # 1 PROVE inbox[e.ns][i] # e
            OBVIOUS
          <5>1. i - 1 \in DOMAIN Tail(inbox[e.ns]) /\ Tail(inbox[e.ns])[i - 1] = inbox[e.ns][i]
            BY <1>a, <4>1, HeadTailProperties
          <5> QED BY <4>2, <5>1
        <4> QED BY <1>b, <3>2, <4>3 DEF TakenUp, Mid
      <3>3. CASE WatchProbe(e.ns)
        BY <1>1, <3>3 DEF WatchProbe, world
      <3>4. CASE WatchTrack(e.ns)
        BY <1>1, <3>2, <3>4 DEF WatchTrack, Mid
      <3>5. CASE WatchMark(e.ns)
        BY <1>1, <3>2, <3>5 DEF WatchMark, Mid
      <3>6. CASE WatchWake(e.ns)
        BY <3>2, <3>6 DEF WatchWake, Mid
      <3>7. CASE Subscribe(e.ns) \/ Grant(e.ns) \/ SubscribeFails(e.ns)
        BY <1>1, <3>7 DEF Subscribe, Grant, SubscribeFails, world
      <3> QED BY <1>2, <2>2, <3>1, <3>3, <3>4, <3>5, <3>6, <3>7 DEF Watch
    <2> QED BY <2>1, <2>2
  <1>3. ASSUME NEW m \in Namespaces, StreamFails(m) PROVE TakenUp(e)
    <2>1. /\ doc' = doc /\ inbox' = [inbox EXCEPT ![m] = <<>>]
          /\ missed' = missed \cup {inbox[m][i] : i \in DOMAIN inbox[m]}
          /\ watch' = [watch EXCEPT ![m] = At("dead")]
      BY <1>3 DEF StreamFails
    <2>2. CASE m = e.ns
      BY <1>b, <2>1, <2>2 DEF TakenUp
    <2>3. CASE m # e.ns
      BY <1>a, <1>b, <2>1, <2>3 DEF TakenUp
    <2> QED BY <2>2, <2>3
  <1>4. ASSUME NEW f \in Entries, Reconcile(f) PROVE TakenUp(e)
    <2>1. watch' = watch /\ missed \subseteq missed' /\ f.ns \in Namespaces
      BY <1>4, NodeAssumption DEF Reconcile
    <2>2. e # f
      <3> SUFFICES ASSUME e = f PROVE FALSE
        OBVIOUS
      <3>1. Subscribed(f.ns) /\ inbox' = [inbox EXCEPT ![f.ns] = Append(inbox[f.ns], f)]
        BY <1>4, <1>b DEF Reconcile
      <3>2. Len(inbox[f.ns]) + 1 \in DOMAIN inbox'[f.ns] /\ inbox'[f.ns][Len(inbox[f.ns]) + 1] = f
        BY <1>a, <2>1, <3>1, AppendProperties
      <3>3. Len(inbox[f.ns]) + 1 = 1 /\ watch[f.ns].pc # "idle"
        BY <1>b, <2>1, <3>2
      <3>4. inbox[f.ns] = <<>>
        BY <1>a, <2>1, <3>3, EmptySeq, LenProperties
      <3> QED BY <1>a, <2>1, <3>1, <3>3, <3>4 DEF Subscribed, WatchPc, Mid
    <2>3. e \in doc[e.ns]
      BY <1>4, <1>a, <1>b, <2>1, <2>2 DEF Reconcile
    <2>4. \A i \in DOMAIN inbox[e.ns] : i \in DOMAIN inbox'[e.ns] /\ inbox'[e.ns][i] = inbox[e.ns][i]
      <3>1. CASE inbox' = inbox
        BY <3>1
      <3>2. CASE inbox' = [inbox EXCEPT ![f.ns] = Append(inbox[f.ns], f)]
        BY <1>a, <2>1, <3>2, Appended
      <3> QED BY <1>4, <3>1, <3>2 DEF Reconcile
    <2> QED BY <1>b, <2>1, <2>3, <2>4 DEF TakenUp
  <1>5. CASE Settle
    BY <1>1, <1>5 DEF Settle, SettleStart, FetchOk, FetchFails, SettleApply, SettleProbe, SettleWake, world
  <1>6. CASE Prune \/ PruneScanFails
    BY <1>1, <1>6 DEF Prune, PruneStart, PruneUntrack, PruneScan, PruneForget, PruneScanFails, world
  <1>7. ASSUME NEW u \in Uploads, Put(u) \/ PutAbort(u) PROVE TakenUp(e)
    BY <1>1, <1>7 DEF Put, PutCheck, PutAdd, PutMark, PutAbort, world
  <1>8. CASE Tick \/ Gc \/ UNCHANGED vars
    BY <1>1, <1>8 DEF Tick, Gc, GcMark, GcSweep, vars, world
  <1>9. ASSUME NEW h \in Hashes, EngineDownload(h) \/ EngineGivesUp(h) PROVE TakenUp(e)
    BY <1>1, <1>9 DEF EngineDownload, EngineGivesUp
  <1>10. ASSUME NEW m \in Namespaces, Import(m) PROVE TakenUp(e)
    BY <1>1, <1>10 DEF Import
  <1> QED BY <1>2, <1>3, <1>4, <1>5, <1>6, <1>7, <1>8, <1>9, <1>10 DEF Next, Errors, Replication

\* Only a sweep takes a hash from a namespace, and only one it has listed.
LEMMA NamedStep ==
    ASSUME TypeOK, [Next]_vars, NEW ns \in Namespaces, NEW h \in Hashes, IsTrackedFor(content, ns, h)
    PROVE  \/ IsTrackedFor(content', ns, h)
           \/ prune.pc = "forget" /\ prune.ns = ns /\ h \in prune.forget
  <1>m. \A g : content' = MarkPresent(content, g) => IsTrackedFor(content', ns, h)
    BY DEF MarkPresent, IsTrackedFor, TypeOK, Index
  <1>1. ASSUME NEW m \in Namespaces, WatchWant(m) PROVE IsTrackedFor(content', ns, h)
    BY <1>1 DEF WatchWant, Want, IsTrackedFor, TypeOK, Index
  <1>2. ASSUME NEW g \in Hashes, PruneForget(g)
        PROVE  \/ IsTrackedFor(content', ns, h)
               \/ prune.pc = "forget" /\ prune.ns = ns /\ h \in prune.forget
    BY <1>2 DEF PruneForget, Forget, IsTrackedFor, TypeOK, Index
  <1> QED BY <1>m, <1>1, <1>2, Touches DEF SettleApply, WatchMark, PutMark

LEMMA KeptKept ==
    SealedUnique /\ TypeOK /\ InboxInv /\ ForgetInv /\ KeptIsReferenced /\ [Next]_vars
        => KeptIsReferenced'
  <1> SUFFICES ASSUME SealedUnique, TypeOK, InboxInv, ForgetInv, KeptIsReferenced, [Next]_vars,
                      NEW ns \in Namespaces, NEW e \in doc'[ns], e.hash # Empty, TakenUp(e)',
                      ~Releasable(PruneCandidate(e), Written(ns)', clock')
               PROVE  IsTrackedFor(content', ns, e.hash)
    BY DEF KeptIsReferenced, PruneCandidate
  <1>1. e \in Entries /\ e.ns = ns /\ e.hash \in Hashes /\ clock \in Nat
    BY NextType, InboxKept, NodeAssumption DEF InboxInv, TypeOK, WorldOK
  <1>2. ~Releasable(PruneCandidate(e), Written(ns), clock)
    BY <1>1, ReleaseStays
  <1>3. CASE TakenUp(e)
    <2>1. e \in doc[ns]
      BY <1>1, <1>3 DEF TakenUp
    <2>2. IsTrackedFor(content, ns, e.hash)
      BY <1>2, <1>3, <2>1 DEF KeptIsReferenced
    <2>3. ~(prune.pc = "forget" /\ prune.ns = ns /\ e.hash \in prune.forget)
      BY <1>1, <1>2 DEF ForgetInv
    <2> QED BY <1>1, <2>2, <2>3, NamedStep
  <1>4. CASE WatchWant(ns) /\ Current(ns) = e
    BY <1>1, <1>4 DEF WatchWant, Want, IsTrackedFor, TypeOK, Index
  <1> QED BY <1>1, <1>3, <1>4, TakenUpStep

\* However many tombstones come in between, and while no two sealed records
\* have the same ciphertext, no sweep ever drops what the policy, asked now,
\* would keep of what the authors have written.
THEOREM KeptReferenced ==
    ASSUME SealedUnique
    PROVE  Spec => []KeptIsReferenced
  <1>1. Init => ForgetInv /\ KeptIsReferenced
    BY DEF Init, ForgetInv, KeptIsReferenced, PruneIdle
  <1>2. TypeOK /\ InboxInv /\ ForgetInv /\ KeptIsReferenced /\ [Next]_vars
            => ForgetInv' /\ KeptIsReferenced'
    BY ForgetKept, KeptKept
  <1>3. TypeOK /\ InboxInv /\ [Next]_vars => InboxInv'
    BY InboxKept
  <1> QED BY <1>1, <1>2, <1>3, InboxInit, TypeCorrect, PTL DEF Spec

(***************************************************************************)
(* The bytes.  The tag of an upload protects its bytes from a collector    *)
(* sweep that asked for the protected hashes before the upload came.       *)
(***************************************************************************)
LEMMA TagKept == TypeOK /\ TagInv /\ [Next]_vars => TagInv'
  <1> SUFFICES ASSUME TypeOK, TagInv, [Next]_vars PROVE TagInv'
    OBVIOUS
  <1>t. /\ gc \in [pc : {"idle", "sweep"}, live : SUBSET Hashes]
        /\ uploads \in [Uploads -> UploadPc]
    BY DEF TypeOK, BlobsOK, WorldOK
  <1>a. ASSUME NEW h, Arrives(h)
        PROVE  /\ stored' = stored \cup {h} /\ gc'.pc = gc.pc
               /\ gc.pc = "sweep" => gc'.live = gc.live \cup {h}
    BY <1>t, <1>a DEF Arrives
  <1>1. ASSUME NEW u \in Uploads, PutAdd(u) PROVE TagInv'
    <2>1. tagged' = tagged \cup {u.hash} /\ uploads' = [uploads EXCEPT ![u] = "added"] /\ Arrives(u.hash)
      BY <1>1 DEF PutAdd
    <2>2. \A v \in Uploads : uploads'[v] = "added" => v.hash \in tagged'
      BY <1>t, <2>1 DEF TagInv
    <2>3. tagged' \subseteq stored' /\ (gc'.pc = "sweep" => tagged' \subseteq gc'.live)
      BY <1>a, <2>1 DEF TagInv
    <2> QED BY <2>2, <2>3 DEF TagInv
  <1>2. CASE UNCHANGED tagged
    <2>1. \A v \in Uploads : uploads'[v] = "added" => v.hash \in tagged'
      <3>1. ASSUME NEW u \in Uploads, PutCheck(u) \/ PutMark(u) \/ PutAbort(u), NEW v \in Uploads,
                   uploads'[v] = "added"
            PROVE  uploads[v] = "added"
        <4>1. PutVerdict(u) # "added"
          BY DEF PutVerdict
        <4> QED BY <1>t, <3>1, <4>1 DEF PutCheck, PutMark, PutAbort
      <3>2. ASSUME NEW u \in Uploads, PutAdd(u) PROVE \A v \in Uploads : uploads'[v] = "added" => v.hash \in tagged'
        BY <1>1, <3>2 DEF TagInv
      <3> QED BY <1>2, <3>1, <3>2, Touches DEF TagInv, Put
    <2>2. tagged' \subseteq stored' /\ (gc'.pc = "sweep" => tagged' \subseteq gc'.live)
      <3>1. CASE UNCHANGED <<stored, gc>>
        BY <1>2, <3>1 DEF TagInv
      <3>2. ASSUME NEW h, Arrives(h) PROVE tagged' \subseteq stored' /\ (gc'.pc = "sweep" => tagged' \subseteq gc'.live)
        BY <1>2, <1>a, <3>2 DEF TagInv
      <3>3. CASE GcMark
        BY <1>2, <3>3 DEF GcMark, TagInv
      <3>4. CASE GcSweep
        BY <1>2, <3>4 DEF GcSweep, GcIdle, TagInv
      <3> QED BY <3>1, <3>2, <3>3, <3>4, Touches DEF Gc, FetchOk, PutAdd, EngineDownload
    <2> QED BY <2>1, <2>2 DEF TagInv
  <1> QED BY <1>1, <1>2, Touches

LEMMA Tagged == Spec => []TagInv
  <1>1. Init => TagInv
    BY DEF Init, TagInv, GcIdle
  <1> QED BY <1>1, TagKept, TypeCorrect, PTL DEF Spec

\* A writer who is told `Stored` can read its upload back in the same state,
\* unless a sweep has released the hash since its handler checked it.
THEOREM ReceiptIsServable == Spec => StoredIsServable
  <1>1. TypeOK /\ RefcountExact /\ TagInv =>
            \A u \in Uploads : PutMark(u) =>
                Servable(u.ns, u.hash)' \/ ~IsTrackedFor(content, u.ns, u.hash)
    <2> SUFFICES ASSUME TypeOK, RefcountExact, TagInv, NEW u \in Uploads, PutMark(u),
                        IsTrackedFor(content, u.ns, u.hash)
                 PROVE  Servable(u.ns, u.hash)'
      OBVIOUS
    <2>1. u.ns \in Namespaces /\ u.hash \in Hashes /\ content \in Index
      BY NodeAssumption DEF TypeOK
    <2>2. content.state[u.hash] # "Absent"
      BY <2>1 DEF RefcountExact, IsTracked
    <2>3. u.hash \in stored'
      BY DEF PutMark, TagInv, blobs
    <2>4. content'.state[u.hash] = "Present" /\ u.hash \in content'.by_namespace[u.ns]
      BY <2>1, <2>2 DEF PutMark, MarkPresent, Index, IsTrackedFor
    <2> QED BY <2>3, <2>4 DEF Servable, IsPresentFor, IsTrackedFor, IsPresent
  <1>2. TypeOK /\ RefcountExact /\ TagInv /\ [Next]_vars =>
            [\A u \in Uploads : PutMark(u) =>
                Servable(u.ns, u.hash)' \/ ~IsTrackedFor(content, u.ns, u.hash)]_vars
    BY <1>1
  <1> QED BY <1>2, TypeCorrect, ReferenceCount, Tagged, PTL DEF Spec, StoredIsServable

(***************************************************************************)
(* PresentIsStored.  What was in the store when a task looked is still     *)
(* there when the task confirms it, if the index names it: a collector     *)
(* sweep spares what was named when it asked, and what comes to be named   *)
(* while it runs was not in the store before.                              *)
(***************************************************************************)
\* What a step does to the store.
LEMMA StoreStep ==
    ASSUME TypeOK, BytesInv, [Next]_vars
    PROVE  /\ engine' = {} \/ EngineFetchable # {}
           /\ \/ stored' = stored /\ (gc'.pc = "sweep" => gc' = gc \/ GcMark)
              \/ \E h \in Hashes :
                    /\ Arrives(h)
                    /\ \/ FetchOk /\ settle.item.hash = h
                       \/ \E u \in Uploads : PutAdd(u) /\ u.hash = h
              \/ GcSweep
  <1>1. engine' = {} \/ EngineFetchable # {}
    <2>1. CASE UNCHANGED engine
      BY <2>1 DEF BytesInv
    <2>2. ASSUME NEW ns \in Namespaces, Import(ns) \/ Grant(ns) PROVE UNCHANGED engine
      BY <2>2 DEF Import, Grant, world
    <2>3. ASSUME NEW e \in Entries, Reconcile(e), EngineFetchable = {} PROVE engine' = {}
      <3>1. engine' = engine \cup (({e.hash} \cap EngineFetchable) \ stored)
        BY <2>3 DEF Reconcile
      <3> QED BY <2>3, <3>1 DEF BytesInv
    <2>4. \A h \in Hashes : ~(EngineDownload(h) \/ EngineGivesUp(h))
      BY DEF BytesInv, EngineDownload, EngineGivesUp
    <2> QED BY <2>1, <2>2, <2>3, <2>4, Touches DEF Replication
  <1>2. \A h \in Hashes : ~EngineDownload(h)
    BY DEF BytesInv, EngineDownload
  <1>3. FetchOk => settle.item.hash \in Hashes
    BY DEF FetchOk, TypeOK, SettleOK, Copies
  <1> QED BY <1>1, <1>2, <1>3, Touches, NodeAssumption DEF Gc, GcMark, FetchOk, PutAdd

\* Nothing is in the store of a hash whose event is still to be taken.
LEMMA AheadUnstored ==
    ASSUME TypeOK, InboxInv, LedgerInv, BytesInv, [Next]_vars, NEW h \in Hashes, Ahead(h)'
    PROVE  h \notin stored'
  <1>1. Ahead(h) /\ h \notin stored /\ Unlisted(h) /\ Unnamed(h)
    BY AheadStep DEF LedgerInv, Fresh, BytesInv
  <1>2. ~(FetchOk /\ settle.item.hash = h)
    BY <1>1 DEF FetchOk, Unlisted
  <1>3. \A u \in Uploads : ~(PutAdd(u) /\ u.hash = h)
    BY <1>1 DEF PutAdd, Unnamed
  <1> QED BY <1>1, <1>2, <1>3, StoreStep DEF Arrives, GcSweep

\* What is named and stored stays stored, and a sweep that began with it spares it.
LEMMA NamedStaysStored ==
    ASSUME UniqueCiphertext, TypeOK, InboxInv, BytesInv, [Next]_vars, NEW h \in Hashes,
           h \in stored, IsTracked(content', h)
    PROVE  h \in stored' /\ IsTracked(content, h) /\ (gc'.pc = "sweep" => h \in gc'.live)
  <1>1. IsTracked(content, h)
    BY WantedStep, TakesNew DEF IsTracked, BytesInv
  <1>2. gc.pc = "sweep" => h \in gc.live
    BY <1>1 DEF BytesInv, Referenced
  <1>3. gc \in [pc : {"idle", "sweep"}, live : SUBSET Hashes]
    BY DEF TypeOK, BlobsOK
  <1>4. CASE GcMark
    BY <1>1, <1>4 DEF GcMark, Referenced
  <1>5. CASE GcSweep
    BY <1>2, <1>5 DEF GcSweep, GcIdle
  <1>6. CASE stored' = stored /\ (gc'.pc = "sweep" => gc' = gc)
    BY <1>1, <1>2, <1>6
  <1>7. ASSUME NEW g, Arrives(g) PROVE h \in stored' /\ (gc'.pc = "sweep" => h \in gc'.live)
    BY <1>2, <1>3, <1>7 DEF Arrives
  <1> QED BY <1>1, <1>4, <1>5, <1>6, <1>7, StoreStep

\* A watcher that has looked for the bytes: it looked just now, or before.
LEMMA LookStep ==
    ASSUME TypeOK, LedgerInv, [Next]_vars, NEW ns \in Namespaces,
           watch'[ns].pc \in {"track", "mark"}, watch'[ns].present
    PROVE  /\ watch[ns].pc \in Mid /\ Current(ns)' = Current(ns)
           /\ WatchProbe(ns) \/ (watch[ns].pc \in {"track", "mark"} /\ watch[ns].present)
  <1>a. watch \in [Namespaces -> [pc : WatchPc, present : BOOLEAN, known : BOOLEAN]]
    BY DEF TypeOK, WatchOK
  <1>1. watch[ns].pc \in Mid
    <2>1. ASSUME NEW m \in Namespaces, WatchWant(m) \/ StreamFails(m) \/ NextEvent(m)
          PROVE  watch'[ns] = watch[ns] \/ watch'[ns].pc \in {"probe", "dead", "idle"}
      BY <1>a, <2>1 DEF WatchWant, StreamFails, NextEvent, At
    <2> QED BY <2>1, NextInbox DEF InboxStep, Reconcile, Mid
  <1>2. NextEvent(ns) => watch'[ns].pc = "idle"
    BY <1>a DEF NextEvent, At
  <1>3. ~WatchMark(ns) /\ ~WatchWake(ns)
    BY <1>2 DEF WatchMark, WatchWake, LedgerInv
  <1>4. ~(WatchTrack(ns) /\ ~watch[ns].present)
    BY <1>2 DEF WatchTrack
  <1> QED BY <1>1, <1>3, <1>4, MidStep DEF WatchTrack

\* Whoever marks a hash present has its bytes in the store.
LEMMA PresentFrom ==
    ASSUME TypeOK, LedgerInv, TagInv, BytesInv, [Next]_vars, NEW h \in Hashes \ {Empty}, content'.state[h] = "Present"
    PROVE  h \in stored
  <1>1. ASSUME NEW g \in Hashes, content' = MarkPresent(content, g)
        PROVE  content.state[h] = "Present" \/ (g = h /\ IsTracked(content, h))
    BY <1>1 DEF MarkPresent, IsTracked, TypeOK, Index
  <1>2. CASE content.state[h] = "Present"
    BY <1>2 DEF BytesInv, PresentIsStored, IsPresent
  <1>3. ASSUME NEW ns \in Namespaces, WatchMark(ns) PROVE h \in stored
    <2>1. Current(ns).hash \in Hashes
      BY <1>3, InboxOps, NodeAssumption DEF WatchMark, TypeOK, WatchOK, Current
    <2> QED BY <1>1, <1>2, <1>3, <2>1 DEF WatchMark, LedgerInv, BytesInv
  <1>4. CASE SettleApply
    <2>1. CASE content' = content
      BY <1>2, <2>1
    <2>2. CASE settle.present /\ content' = MarkPresent(content, settle.item.hash)
      <3>1. settle.item.hash \in Hashes
        BY <1>4 DEF SettleApply, TypeOK, SettleOK, Copies
      <3> QED BY <1>1, <1>2, <1>4, <2>2, <3>1 DEF SettleApply, BytesInv
    <2> QED BY <1>4, <2>1, <2>2 DEF SettleApply
  <1>5. ASSUME NEW u \in Uploads, PutMark(u) PROVE h \in stored
    BY <1>1, <1>2, <1>5, NodeAssumption DEF PutMark, TagInv
  <1>6. ASSUME NEW ns \in Namespaces, WatchWant(ns) PROVE content.state[h] = "Present"
    BY <1>6 DEF WatchWant, Want, TypeOK, Index
  <1>7. ASSUME NEW g \in Hashes, PruneForget(g) PROVE content.state[h] = "Present"
    BY <1>7 DEF PruneForget, Forget, TypeOK, Index
  <1> QED BY <1>2, <1>3, <1>4, <1>5, <1>6, <1>7, Touches

LEMMA BytesKept ==
    /\ UniqueCiphertext /\ EngineFetchable = {}
    /\ TypeOK /\ InboxInv /\ LedgerInv /\ TagInv /\ BytesInv /\ [Next]_vars
    => BytesInv'
  <1> SUFFICES ASSUME UniqueCiphertext, EngineFetchable = {},
                      TypeOK, InboxInv, LedgerInv, TagInv, BytesInv, [Next]_vars
               PROVE  BytesInv'
    OBVIOUS
  <1>1. engine' = {}
    BY StoreStep
  <1>2. \A h \in Hashes : Ahead(h)' => h \notin stored'
    BY AheadUnstored
  <1>3. gc'.pc = "sweep" => stored' \cap Referenced(content') \subseteq gc'.live
    <2> SUFFICES ASSUME gc'.pc = "sweep", NEW h \in Hashes, h \in stored', IsTracked(content', h)
                 PROVE  h \in gc'.live
      BY DEF Referenced
    <2>1. CASE h \in stored
      BY <2>1, NamedStaysStored
    <2>2. CASE h \notin stored
      <3>1. Arrives(h)
        BY <2>2, StoreStep DEF Arrives, GcSweep
      <3> QED BY <3>1 DEF Arrives, TypeOK, BlobsOK
    <2> QED BY <2>1, <2>2
  <1>4. ASSUME NEW ns \in Namespaces, watch'[ns].pc \in {"track", "mark"}, watch'[ns].present,
               IsTracked(content', (Current(ns).hash)')
        PROVE  (Current(ns).hash)' \in stored' \cup {Empty}
    <2>1. /\ watch[ns].pc \in Mid /\ Current(ns)' = Current(ns)
          /\ WatchProbe(ns) \/ (watch[ns].pc \in {"track", "mark"} /\ watch[ns].present)
      BY <1>4, LookStep
    <2>2. PICK h \in Hashes : h = Current(ns).hash
      BY <2>1, TakenNotNew
    <2>3. CASE WatchProbe(ns)
      <3>1. PICK p \in Has(h) : watch' = [watch EXCEPT ![ns] = [@ EXCEPT !.pc = "track", !.present = p]]
        BY <2>2, <2>3 DEF WatchProbe
      <3>2. watch'[ns].present = p
        BY <3>1 DEF TypeOK, WatchOK
      <3>3. h \in stored \cup {Empty} /\ stored' = stored
        BY <1>4, <2>3, <3>2 DEF Has, WatchProbe, blobs
      <3> QED BY <2>1, <2>2, <3>3
    <2>4. CASE watch[ns].pc \in {"track", "mark"} /\ watch[ns].present
      <3>1. ~Ahead(h)
        BY <2>1, <2>2, TakenNotNew
      <3>2. IsTracked(content, h)
        BY <1>4, <2>1, <2>2, <3>1, WantedStep, TakesNew DEF IsTracked
      <3>3. h \in stored \cup {Empty}
        BY <2>2, <2>4, <3>2 DEF BytesInv
      <3> QED BY <1>4, <2>1, <2>2, <3>3, NamedStaysStored
    <2> QED BY <2>1, <2>3, <2>4
  <1>5. ASSUME settle'.pc = "apply", settle'.present, IsTracked(content', settle'.item.hash)
        PROVE  settle'.item.hash \in stored' \cup {Empty}
    <2>1. CASE UNCHANGED settle
      <3>1. PICK h \in Hashes : h = settle.item.hash
        BY <1>5, <2>1 DEF TypeOK, SettleOK, Copies
      <3>2. ~Ahead(h)
        BY <1>5, <2>1, <3>1 DEF LedgerInv, Fresh, Unlisted
      <3>3. IsTracked(content, h)
        BY <1>5, <2>1, <3>1, <3>2, WantedStep, TakesNew DEF IsTracked
      <3>4. h \in stored \cup {Empty}
        BY <1>5, <2>1, <3>1, <3>3 DEF BytesInv
      <3> QED BY <1>5, <2>1, <3>1, <3>4, NamedStaysStored
    <2>2. ~SettleStart
      BY <1>5 DEF SettleStart, SettleIdle
    <2>3. CASE FetchOk
      BY <2>3 DEF FetchOk, Arrives, TypeOK, SettleOK
    <2>4. ~FetchFails
      BY <1>5 DEF FetchFails, TypeOK, SettleOK, BytesInv
    <2>5. ASSUME NEW o \in settle.todo, SettleProbe(o) PROVE settle'.item.hash \in stored' \cup {Empty}
      <3>1. PICK has \in Has(o.hash) :
                settle' = [settle EXCEPT !.todo = @ \ {o}, !.item = o, !.present = has,
                                         !.pc = IF ~has /\ Due(o) THEN "fetch" ELSE "apply"]
        BY <2>5 DEF SettleProbe
      <3>2. settle'.present = has /\ settle'.item = o
        BY <3>1 DEF TypeOK, SettleOK
      <3> QED BY <1>5, <2>5, <3>2 DEF Has, SettleProbe, blobs
    <2>6. ~SettleApply
      <3>1. SettleApply => \E wake : settle' = SettleOn(wake)
        BY DEF SettleApply
      <3> QED BY <1>5, <3>1, SettleOnFields DEF TypeOK
    <2>7. \A w : ~SettleWake(w)
      BY <1>5, SettleOnFields DEF SettleWake, TypeOK
    <2> QED BY <2>1, <2>2, <2>3, <2>4, <2>5, <2>6, <2>7, Touches DEF Settle
  <1>6. ASSUME NEW h \in Hashes \ {Empty}, content'.state[h] = "Present" PROVE h \in stored'
    <2>1. h \in stored
      BY <1>6, PresentFrom
    <2> QED BY <1>6, <2>1, NamedStaysStored DEF IsTracked
  <1>7. settle'.pc = "fetch" => ~settle'.present
    <2>1. CASE UNCHANGED settle
      BY <2>1 DEF BytesInv
    <2>2. SettleStart => settle'.pc = "pass"
      BY DEF SettleStart, SettleIdle
    <2>3. FetchOk \/ FetchFails => settle'.pc = "apply"
      BY DEF FetchOk, FetchFails, TypeOK, SettleOK
    <2>4. ASSUME NEW o \in settle.todo, SettleProbe(o) PROVE settle'.pc = "fetch" => ~settle'.present
      <3>1. PICK has \in Has(o.hash) :
                settle' = [settle EXCEPT !.todo = @ \ {o}, !.item = o, !.present = has,
                                         !.pc = IF ~has /\ Due(o) THEN "fetch" ELSE "apply"]
        BY <2>4 DEF SettleProbe
      <3> QED BY <3>1 DEF TypeOK, SettleOK
    <2>5. SettleApply \/ (\E w \in settle.wake : SettleWake(w)) => \E wake : settle' = SettleOn(wake)
      BY DEF SettleApply, SettleWake
    <2> QED BY <2>1, <2>2, <2>3, <2>4, <2>5, SettleOnFields, Touches DEF Settle, TypeOK
  <1> QED BY <1>1, <1>2, <1>3, <1>4, <1>5, <1>6, <1>7 DEF BytesInv, PresentIsStored, IsPresent

\* With unique ciphertext, and while the docs engine's own download never
\* beats the watcher, what the index calls present is in the blob store.
THEOREM PresentStored ==
    ASSUME UniqueCiphertext, EngineFetchable = {}
    PROVE  Spec => []PresentIsStored
  <1>1. Init => BytesInv
    BY DEF Init, BytesInv, PresentIsStored, IsPresent, NewIndex, GcIdle, SettleIdle, At
  <1>2. TypeOK /\ InboxInv /\ LedgerInv /\ TagInv /\ BytesInv /\ [Next]_vars => BytesInv'
    BY BytesKept
  <1>3. BytesInv => PresentIsStored
    BY DEF BytesInv
  <1> QED BY <1>1, <1>2, <1>3, Ledger, Tagged, PTL DEF Spec

(***************************************************************************)
(* ParkedIsAnnounced.  Bytes that are not Early land only after a watcher  *)
(* has put their hash on the settle loop's list, so it is a pass that      *)
(* finds them, and the pass that sets `woken` takes the wake with it until *)
(* it is sent.  The wake is addressed from the pass's copy of the entry,   *)
(* which names the namespace of the one record that has the hash.          *)
(***************************************************************************)
Owned(h, ns) == \E e \in Entries : e.hash = h /\ e.ns = ns

OwnerInv ==
    /\ \A h \in DOMAIN tracked : Owned(h, tracked[h].namespace)
    /\ \A o \in settle.todo : Owned(o.hash, o.namespace)
    /\ settle.pc \in {"fetch", "apply"} => Owned(settle.item.hash, settle.item.namespace)

Announced(h, ns) == wakes[ns][h] > 0 \/ [hash |-> h, namespace |-> ns] \in settle.wake

AnnounceInv ==
    /\ engine \subseteq EngineFetchable
    /\ \A h \in Hashes \ Early : Fresh(h) => h \notin stored
    /\ \A ns \in Namespaces :
          watch[ns].pc \in {"track", "mark"} /\ watch[ns].present => Current(ns).hash \in Early
    /\ settle.pc = "idle" => settle.wake = {}
    /\ \A h \in DOMAIN tracked \ Early :
          tracked[h].content_present \/ tracked[h].woken => Announced(h, tracked[h].namespace)

\* What a step does to the entry of h.
LEMMA EntryStep ==
    ASSUME TypeOK, InboxInv, [Next]_vars, NEW h \in DOMAIN tracked'
    PROVE  \/ h \in DOMAIN tracked /\ tracked'[h] = tracked[h]
           \/ /\ SettleApply /\ settle.item.hash = h /\ h \in DOMAIN tracked
              /\ tracked'[h] = Settled(h) /\ settle' = SettleOn(settle.wake \cup OwedWake(h))
           \/ \E ns \in Namespaces : /\ WatchTrack(ns) /\ Current(ns).hash = h
                                     /\ h \notin DOMAIN tracked /\ tracked'[h] = FreshEntry(ns)
  <1>1. CASE SettleApply
    BY <1>1 DEF SettleApply
  <1>2. CASE PruneUntrack
    BY <1>2 DEF PruneUntrack, Without
  <1>3. ASSUME NEW ns \in Namespaces, WatchTrack(ns)
        PROVE  \/ h \in DOMAIN tracked /\ tracked'[h] = tracked[h]
               \/ Current(ns).hash = h /\ h \notin DOMAIN tracked /\ tracked'[h] = FreshEntry(ns)
    BY <1>3 DEF WatchTrack, OrInsert
  <1> QED BY <1>1, <1>2, <1>3, Touches

\* The entry and the copies of it keep the namespace of the record they are of.
LEMMA OwnerKept == TypeOK /\ InboxInv /\ OwnerInv /\ [Next]_vars => OwnerInv'
  <1> SUFFICES ASSUME TypeOK, InboxInv, OwnerInv, [Next]_vars PROVE OwnerInv'
    OBVIOUS
  <1>1. ASSUME NEW h \in DOMAIN tracked' PROVE Owned(h, tracked'[h].namespace)
    <2>1. CASE SettleApply /\ h \in DOMAIN tracked /\ tracked'[h] = Settled(h)
      <3>1. Settled(h).namespace = tracked[h].namespace
        BY <2>1 DEF Settled, SettledAs, TypeOK, TrackedOK, TrackedEntry
      <3> QED BY <2>1, <3>1 DEF OwnerInv
    <2>2. ASSUME NEW ns \in Namespaces, WatchTrack(ns), Current(ns).hash = h, tracked'[h] = FreshEntry(ns)
          PROVE  Owned(h, tracked'[h].namespace)
      <3>1. Current(ns) \in Entries /\ Current(ns).ns = ns
        BY <2>2, TakenNotNew DEF WatchTrack, Mid
      <3> QED BY <2>2, <3>1 DEF FreshEntry, Owned
    <2> QED BY <2>1, <2>2, EntryStep DEF OwnerInv
  <1> DEFINE OwnedBy(s) == /\ \A o \in s.todo : Owned(o.hash, o.namespace)
                           /\ s.pc \in {"fetch", "apply"} => Owned(s.item.hash, s.item.namespace)
  <1>2. OwnedBy(settle')
    <2>1. CASE UNCHANGED settle
      BY <2>1 DEF OwnerInv
    <2>2. CASE SettleStart
      <3>1. settle'.pc = "pass" /\ settle'.todo = {Copy(g) : g \in Outstanding}
        BY <2>2 DEF SettleStart, SettleIdle
      <3>2. \A g \in Outstanding : Copy(g).hash = g /\ Copy(g).namespace = tracked[g].namespace
        BY DEF Copy
      <3> QED BY <3>1, <3>2 DEF Outstanding, OwnerInv
    <2>3. CASE FetchOk \/ FetchFails
      BY <2>3 DEF FetchOk, FetchFails, TypeOK, SettleOK, OwnerInv
    <2>4. ASSUME NEW wake, settle' = SettleOn(wake) PROVE OwnedBy(settle')
      BY <2>4, SettleOnFields DEF TypeOK, OwnerInv
    <2>5. ASSUME NEW o \in settle.todo, SettleProbe(o) PROVE OwnedBy(settle')
      <3>1. PICK has : settle' = [settle EXCEPT !.todo = @ \ {o}, !.item = o, !.present = has,
                                      !.pc = IF ~has /\ Due(o) THEN "fetch" ELSE "apply"]
        BY <2>5 DEF SettleProbe
      <3> QED BY <3>1 DEF TypeOK, SettleOK, OwnerInv
    <2> QED BY <2>1, <2>2, <2>3, <2>4, <2>5, Touches DEF Settle, SettleApply, SettleWake
  <1> QED BY <1>1, <1>2 DEF OwnerInv

\* Bytes that are not Early are not in the store before their hash is listed.
LEMMA FreshUnstored ==
    ASSUME UniqueCiphertext, TypeOK, InboxInv, LedgerInv, AnnounceInv, [Next]_vars,
           NEW h \in Hashes \ Early, Fresh(h)'
    PROVE  h \notin stored'
  <1>1. h \notin stored /\ Unlisted(h)
    BY FreshStep DEF LedgerInv, AnnounceInv
  <1>2. ~(FetchOk /\ settle.item.hash = h)
    BY <1>1 DEF FetchOk, Unlisted
  <1>3. \A u \in Uploads : u.hash # h
    BY DEF Early
  <1>4. h \notin engine
    BY DEF AnnounceInv, Early
  <1>5. CASE FetchOk
    BY <1>1, <1>2, <1>5 DEF FetchOk, Arrives
  <1>6. ASSUME NEW u \in Uploads, PutAdd(u) PROVE h \notin stored'
    BY <1>1, <1>3, <1>6 DEF PutAdd, Arrives
  <1>7. ASSUME NEW g \in Hashes, EngineDownload(g) PROVE h \notin stored'
    BY <1>1, <1>4, <1>7 DEF EngineDownload, Arrives
  <1>8. CASE Gc
    BY <1>1, <1>8 DEF Gc, GcMark, GcSweep
  <1> QED BY <1>1, <1>5, <1>6, <1>7, <1>8, Touches

\* A wake that waits goes on waiting until it is sent.
LEMMA OwedStays ==
    ASSUME TypeOK, AnnounceInv, [Next]_vars, NEW w \in settle.wake
    PROVE  w \in settle'.wake \/ SettleWake(w)
  <1>1. ~SettleStart
    BY DEF SettleStart, AnnounceInv
  <1>2. CASE FetchOk \/ FetchFails
    BY <1>2 DEF FetchOk, FetchFails, TypeOK, SettleOK
  <1>3. CASE SettleApply
    <2>1. \E wake : settle' = SettleOn(settle.wake \cup wake)
      <3>1. settle' = SettleOn(settle.wake) \/ settle' = SettleOn(settle.wake \cup OwedWake(settle.item.hash))
        BY <1>3 DEF SettleApply
      <3>2. settle.wake = settle.wake \cup {}
        OBVIOUS
      <3> QED BY <3>1, <3>2
    <2> QED BY <2>1, SettleOnFields DEF TypeOK
  <1>4. ASSUME NEW o \in settle.todo, SettleProbe(o) PROVE w \in settle'.wake
    BY <1>4 DEF SettleProbe, TypeOK, SettleOK
  <1>5. ASSUME NEW x \in settle.wake, SettleWake(x) PROVE w \in settle'.wake \/ SettleWake(w)
    <2>1. settle' = SettleOn(settle.wake \ {x})
      BY <1>5 DEF SettleWake
    <2>2. settle'.wake = settle.wake \ {x}
      BY <2>1, SettleOnFields DEF TypeOK
    <2> QED BY <1>5, <2>2
  <1> QED BY <1>1, <1>2, <1>3, <1>4, <1>5, Touches DEF Settle

\* What has been announced, or is about to be, stays so.
LEMMA AnnouncedStays ==
    ASSUME TypeOK, LedgerInv, AnnounceInv, WakeCap > 0, [Next]_vars,
           NEW h \in Hashes, NEW ns \in Namespaces, Announced(h, ns)
    PROVE  Announced(h, ns)'
  <1>t. wakes[ns][h] \in Nat /\ WakeCap \in Nat
    BY NodeAssumption DEF TypeOK, WorldOK
  <1>1. Least(wakes[ns][h] + 1, WakeCap) > 0
    BY <1>t DEF Least
  <1>2. CASE wakes[ns][h] > 0
    BY <1>1, <1>2, WokenBy DEF Announced
  <1>3. ASSUME NEW w \in settle.wake, w = [hash |-> h, namespace |-> ns] PROVE Announced(h, ns)'
    <2>1. CASE SettleWake(w)
      <3>1. WakeFor(ns, h)
        BY <1>3, <2>1 DEF SettleWake
      <3>2. wakes'[ns][h] = Least(wakes[ns][h] + 1, WakeCap)
        BY <3>1, WakeForOne DEF TypeOK
      <3> QED BY <1>1, <3>2 DEF Announced
    <2> QED BY <1>3, <2>1, OwedStays DEF Announced
  <1> QED BY <1>2, <1>3 DEF Announced

LEMMA AnnounceKept ==
    /\ UniqueCiphertext /\ WakeCap > 0
    /\ TypeOK /\ InboxInv /\ LedgerInv /\ OwnerInv /\ AnnounceInv /\ [Next]_vars
    => AnnounceInv'
  <1> SUFFICES ASSUME UniqueCiphertext, WakeCap > 0, TypeOK, InboxInv, LedgerInv, OwnerInv, AnnounceInv,
                      [Next]_vars
               PROVE  AnnounceInv'
    OBVIOUS
  <1>1. engine' \subseteq EngineFetchable
    <2>1. CASE Replication
      BY <2>1 DEF Replication, Import, Grant, Reconcile, EngineDownload, EngineGivesUp, world, AnnounceInv
    <2> QED BY <2>1, Touches DEF AnnounceInv
  <1>2. \A h \in Hashes \ Early : Fresh(h)' => h \notin stored'
    BY FreshUnstored
  <1>3. ASSUME NEW ns \in Namespaces, watch'[ns].pc \in {"track", "mark"}, watch'[ns].present
        PROVE  (Current(ns).hash)' \in Early
    <2>1. /\ watch[ns].pc \in Mid /\ Current(ns)' = Current(ns)
          /\ WatchProbe(ns) \/ (watch[ns].pc \in {"track", "mark"} /\ watch[ns].present)
      BY <1>3, LookStep
    <2>2. PICK h \in Hashes : h = Current(ns).hash
      BY <2>1, TakenNotNew
    <2>3. CASE WatchProbe(ns)
      <3>1. PICK p \in Has(h) : watch' = [watch EXCEPT ![ns] = [@ EXCEPT !.pc = "track", !.present = p]]
        BY <2>2, <2>3 DEF WatchProbe
      <3>2. watch'[ns].present = p
        BY <3>1 DEF TypeOK, WatchOK
      <3>3. h \in stored \/ h \in Early
        BY <1>3, <3>2 DEF Has, Early
      <3>4. Fresh(h)
        BY <2>2, <2>3 DEF WatchProbe, Fresh, Handled
      <3> QED BY <2>1, <2>2, <3>3, <3>4 DEF AnnounceInv
    <2> QED BY <2>1, <2>3 DEF AnnounceInv
  <1>4. settle'.pc = "idle" => settle'.wake = {}
    <2>1. CASE UNCHANGED settle
      BY <2>1 DEF AnnounceInv
    <2>2. SettleStart => settle'.pc = "pass"
      BY DEF SettleStart, SettleIdle
    <2>3. FetchOk \/ FetchFails => settle'.pc = "apply"
      BY DEF FetchOk, FetchFails, TypeOK, SettleOK
    <2>4. ASSUME NEW o \in settle.todo, SettleProbe(o) PROVE settle'.pc \in {"fetch", "apply"}
      BY <2>4 DEF SettleProbe, TypeOK, SettleOK
    <2>5. ASSUME NEW wake, settle' = SettleOn(wake) PROVE settle'.pc = "idle" => settle'.wake = {}
      BY <2>5 DEF SettleOn, SettleIdle, TypeOK, SettleOK
    <2> QED BY <2>1, <2>2, <2>3, <2>4, <2>5, Touches DEF Settle, SettleApply, SettleWake
  <1>5. ASSUME NEW h \in DOMAIN tracked' \ Early, tracked'[h].content_present \/ tracked'[h].woken
        PROVE  \/ wakes'[tracked'[h].namespace][h] > 0
               \/ [hash |-> h, namespace |-> tracked'[h].namespace] \in settle'.wake
    <2>1. CASE h \in DOMAIN tracked /\ tracked'[h] = tracked[h]
      <3>1. Announced(h, tracked[h].namespace) /\ tracked[h] \in TrackedEntry /\ h \in Hashes
        BY <1>5, <2>1 DEF AnnounceInv, TypeOK, TrackedOK
      <3>2. PICK ns \in Namespaces : ns = tracked[h].namespace
        BY <3>1 DEF TrackedEntry
      <3>3. Announced(h, ns)'
        BY <3>1, <3>2, AnnouncedStays
      <3> QED BY <2>1, <3>2, <3>3 DEF Announced
    <2>2. CASE /\ SettleApply /\ settle.item.hash = h /\ h \in DOMAIN tracked
               /\ tracked'[h] = Settled(h) /\ settle' = SettleOn(settle.wake \cup OwedWake(h))
      <3>t. tracked[h] \in TrackedEntry /\ h \in Hashes /\ settle.present \in BOOLEAN
        BY <2>2 DEF TypeOK, TrackedOK, SettleOK
      <3>1. PICK ns \in Namespaces : ns = tracked[h].namespace
        BY <3>t DEF TrackedEntry
      <3>2. Settled(h).namespace = ns
        BY <3>t, <3>1 DEF Settled, SettledAs, TrackedEntry
      <3>3. settle.item.namespace = ns
        BY <2>2, <3>1 DEF OwnerInv, Owned, UniqueCiphertext, SettleApply
      <3>4. CASE tracked[h].content_present \/ tracked[h].woken
        <4>1. Announced(h, ns)
          BY <1>5, <2>2, <3>1, <3>4 DEF AnnounceInv
        <4>2. Announced(h, ns)'
          BY <3>t, <4>1, AnnouncedStays
        <4> QED BY <2>2, <3>2, <4>2 DEF Announced
      <3>5. CASE ~(tracked[h].content_present \/ tracked[h].woken)
        <4>1. Settled(h).woken
          BY <1>5, <2>2, <3>t, <3>5 DEF Settled, SettledAs, TrackedEntry
        <4>2. OwedWake(h) = {[hash |-> h, namespace |-> ns]}
          BY <2>2, <3>3, <3>5, <4>1 DEF OwedWake, WakeOf
        <4>3. [hash |-> h, namespace |-> ns] \in settle'.wake
          BY <2>2, <4>2, SettleOnFields DEF TypeOK
        <4> QED BY <2>2, <3>2, <4>3 DEF Announced
      <3> QED BY <3>4, <3>5
    <2>3. ASSUME NEW ns \in Namespaces, WatchTrack(ns), Current(ns).hash = h, tracked'[h] = FreshEntry(ns)
          PROVE  FALSE
      <3>1. ~watch[ns].present
        BY <1>5, <2>3 DEF AnnounceInv, WatchTrack
      <3> QED BY <1>5, <2>3, <3>1 DEF FreshEntry
    <2> QED BY <2>1, <2>2, <2>3, EntryStep
  <1> QED BY <1>1, <1>2, <1>3, <1>4, <1>5 DEF AnnounceInv, Announced

\* With unique ciphertext, whatever the docs engine and the uploads do, the
\* settle loop never stops looking at an entry whose namespace was not told,
\* and is not about to be, unless the bytes were there before it was listed.
THEOREM ParkedAnnounced ==
    ASSUME UniqueCiphertext, WakeCap > 0
    PROVE  Spec => []ParkedIsAnnounced
  <1>1. Init => OwnerInv /\ AnnounceInv
    BY DEF Init, OwnerInv, AnnounceInv, SettleIdle, At
  <1>2. TypeOK /\ InboxInv /\ LedgerInv /\ OwnerInv /\ AnnounceInv /\ [Next]_vars => OwnerInv' /\ AnnounceInv'
    BY OwnerKept, AnnounceKept
  <1>3. AnnounceInv => ParkedIsAnnounced
    BY DEF AnnounceInv, ParkedIsAnnounced, Announced
  <1> QED BY <1>1, <1>2, <1>3, Ledger, PTL DEF Spec

=============================================================================
