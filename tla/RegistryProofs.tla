--------------------------- MODULE RegistryProofs ---------------------------
(***************************************************************************)
(* Theorems about Registry, for any phones, namespaces and requests.       *)
(***************************************************************************)
EXTENDS Registry, TLAPS, FiniteSetTheorems, SequenceTheorems

Reqs == {None} \cup UNION {Requests[p] : p \in Phones}

ServingOK == serving \in [Phones -> [pc : Pcs, req : Reqs]]

(***************************************************************************)
(* How a step moves a handler.                                             *)
(***************************************************************************)
LEMMA StepMoves ==
    ASSUME ServingOK, NEW p \in Phones, NEW pc \in Pcs, Step(p, pc)
    PROVE  /\ ServingOK'
           /\ \A q \in Phones : Ns(q)' = Ns(q) /\ serving'[q].pc = IF q = p THEN pc ELSE serving[q].pc
           /\ \A q \in Phones : serving'[q].req = serving[q].req
  <1>1. ServingOK'
    BY DEF ServingOK, Step
  <1>2. \A q \in Phones : /\ serving'[q].req = serving[q].req
                          /\ serving'[q].pc = IF q = p THEN pc ELSE serving[q].pc
    BY DEF ServingOK, Step
  <1>3. \A q \in Phones : Ns(q)' = Ns(q)
    BY <1>2 DEF Ns
  <1> QED BY <1>1, <1>2, <1>3

LEMMA AnswerMoves ==
    ASSUME ServingOK, NEW p \in Phones, Answer(p)
    PROVE  /\ ServingOK'
           /\ serving'[p].pc = "idle"
           /\ \A q \in Phones \ {p} : Ns(q)' = Ns(q) /\ serving'[q].pc = serving[q].pc
           /\ \A q \in Phones \ {p} : serving'[q].req = serving[q].req
  <1>1. ServingOK'
    BY DEF ServingOK, Answer, Idle, Pcs, Reqs
  <1>2. serving'[p].pc = "idle" /\ \A q \in Phones \ {p} : serving'[q] = serving[q]
    BY DEF ServingOK, Answer, Idle
  <1>3. \A q \in Phones \ {p} : Ns(q)' = Ns(q)
    BY <1>2 DEF Ns
  <1> QED BY <1>1, <1>2, <1>3

LEMMA SendMoves ==
    ASSUME ServingOK, NEW p \in Phones, NEW req \in Requests[p], Send(p, req)
    PROVE  /\ ServingOK'
           /\ serving'[p].pc \in {"lock", "unsubscribe"}
           /\ \A q \in Phones \ {p} : Ns(q)' = Ns(q) /\ serving'[q].pc = serving[q].pc
           /\ \A q \in Phones \ {p} : serving'[q].req = serving[q].req
           /\ serving'[p].pc = (IF req.op = "register" THEN "lock" ELSE "unsubscribe") /\ serving'[p].req = req
  <1>1. req \in Reqs
    BY DEF Reqs
  <1>2. PICK pc \in {"lock", "unsubscribe"} : serving' = [serving EXCEPT ![p] = [pc |-> pc, req |-> req]]
    BY DEF Send
  <1>3. ServingOK'
    BY <1>1, <1>2 DEF ServingOK, Pcs
  <1>4. /\ serving'[p].pc = pc /\ serving'[p].req = req
        /\ \A q \in Phones \ {p} : serving'[q] = serving[q]
    BY <1>2 DEF ServingOK
  <1>5. \A q \in Phones \ {p} : Ns(q)' = Ns(q)
    BY <1>4 DEF Ns
  <1>6. pc = IF req.op = "register" THEN "lock" ELSE "unsubscribe"
    BY <1>4 DEF Send, ServingOK
  <1> QED BY <1>3, <1>4, <1>5, <1>6

LEMMA SameServing ==
    ASSUME ServingOK, UNCHANGED serving
    PROVE  ServingOK' /\ \A q \in Phones : Ns(q)' = Ns(q)
  BY DEF ServingOK, Ns

(***************************************************************************)
(* Grants and joins.                                                       *)
(***************************************************************************)
\* A handler past the critical section has left a handle behind.
JoinInv ==
    /\ ServingOK
    /\ GrantedIsJoined
    /\ \A p \in Phones : serving[p].pc = "grant" => Ns(p) \in handles

LEMMA JoinNext == JoinInv /\ [Next]_vars => JoinInv'
  <1> SUFFICES ASSUME JoinInv, [Next]_vars PROVE JoinInv'
    OBVIOUS
  <1> USE DEF JoinInv, GrantedIsJoined, engine, registry
  <1>1. ASSUME NEW p \in Phones, Unsubscribe(p) PROVE JoinInv'
    BY <1>1, AnswerMoves DEF Unsubscribe
  <1>2. ASSUME NEW p \in Phones, Lookup(p) PROVE JoinInv'
    <2>1. CASE Ns(p) \in handles
      <3>1. Step(p, "grant") /\ UNCHANGED <<handles, known, joined>>
        BY <1>2, <2>1 DEF Lookup
      <3> QED BY <2>1, <3>1, StepMoves DEF Pcs
    <2>2. CASE Ns(p) \notin handles
      <3>1. Step(p, "import") /\ UNCHANGED <<handles, known, joined>>
        BY <1>2, <2>2 DEF Lookup
      <3> QED BY <3>1, StepMoves DEF Pcs
    <2> QED BY <2>1, <2>2
  <1>3. ASSUME NEW p \in Phones, ImportOk(p) PROVE JoinInv'
    <2>1. Step(p, "join") /\ UNCHANGED <<handles, known, joined>>
      BY <1>3 DEF ImportOk
    <2> QED BY <2>1, StepMoves DEF Pcs
  <1>4. ASSUME NEW p \in Phones, JoinOk(p) PROVE JoinInv'
    <2>1. /\ Step(p, "grant") /\ UNCHANGED known
          /\ joined' = joined \cup {Ns(p)} /\ handles' = handles \cup {Ns(p)}
      BY <1>4 DEF JoinOk
    <2> QED BY <2>1, StepMoves DEF Pcs
  <1>5. ASSUME NEW p \in Phones, GiveUp(p) PROVE JoinInv'
    BY <1>5, AnswerMoves DEF GiveUp
  <1>6. ASSUME NEW p \in Phones, Grant(p) PROVE JoinInv'
    <2>1. Ns(p) \in handles /\ known' = known \cup {Ns(p)} /\ UNCHANGED <<handles, joined>>
      BY <1>6 DEF Grant
    <2>2. Step(p, "spawn") \/ Answer(p)
      BY <1>6 DEF Grant, Created
    <2> QED BY <2>1, <2>2, StepMoves, AnswerMoves DEF Pcs
  <1>7. ASSUME NEW p \in Phones, SpawnWatch(p) PROVE JoinInv'
    BY <1>7, AnswerMoves DEF SpawnWatch, Created
  <1>8. ASSUME NEW p \in Phones, NEW req \in Requests[p], Send(p, req) PROVE JoinInv'
    <2>1. UNCHANGED <<handles, known, joined>>
      BY <1>8 DEF Send
    <2> QED BY <1>8, <2>1, SendMoves
  <1>9. ASSUME UNCHANGED <<handles, known, joined, serving>> PROVE JoinInv'
    BY <1>9, SameServing
  <1>10. ASSUME NEW ns \in Namespaces, Wake(ns) PROVE JoinInv'
    BY <1>9, <1>10 DEF Wake
  <1>11. ASSUME NEW push \in inflight, Sent(push) PROVE JoinInv'
    BY <1>9, <1>11 DEF Sent
  <1>12. CASE UNCHANGED vars
    BY <1>9, <1>12 DEF vars
  <1> QED BY <1>1, <1>2, <1>3, <1>4, <1>5, <1>6, <1>7, <1>8, <1>10, <1>11, <1>12 DEF Next, Serve

LEMMA ServingInit == Init => ServingOK
  BY DEF Init, ServingOK, Idle, Pcs, Reqs

\* However registrations fail and are abandoned, a granted namespace has a
\* handle and a namespace with a handle has joined its swarm.
THEOREM Joined == Spec => []GrantedIsJoined
  <1>1. Init => JoinInv
    BY ServingInit DEF Init, JoinInv, GrantedIsJoined, Idle
  <1>2. JoinInv => GrantedIsJoined
    BY DEF JoinInv
  <1> QED BY <1>1, <1>2, JoinNext, PTL DEF Spec

(***************************************************************************)
(* Watchers.                                                               *)
(***************************************************************************)
Spawning(p, ns) == serving[p].pc = "spawn" /\ Ns(p) = ns

\* A namespace nobody was granted has no watcher and none to come; a granted
\* one has a watcher, or exactly one handler that is about to start it.
Watched(ns) ==
    \/ /\ ns \notin known /\ watchers[ns] = 0
       /\ \A p \in Phones : ~Spawning(p, ns)
    \/ /\ ns \in known /\ watchers[ns] = 1
       /\ \A p \in Phones : ~Spawning(p, ns)
    \/ /\ ns \in known /\ watchers[ns] = 0
       /\ \E p \in Phones : Spawning(p, ns) /\ \A q \in Phones : Spawning(q, ns) => q = p

WatchInv == /\ ServingOK
            /\ watchers \in [Namespaces -> Nat]
            /\ \A ns \in Namespaces : Watched(ns)

\* A step that leaves the grants, the watchers and who is about to start one.
LEMMA SameWatched ==
    ASSUME WatchInv, ServingOK', UNCHANGED <<known, watchers>>,
           \A p \in Phones, ns \in Namespaces : Spawning(p, ns)' <=> Spawning(p, ns)
    PROVE  WatchInv'
  BY DEF WatchInv, Watched

LEMMA WatchNext == WatchInv /\ [Next]_vars => WatchInv'
  <1> SUFFICES ASSUME WatchInv, [Next]_vars PROVE WatchInv'
    OBVIOUS
  <1>0. ServingOK
    BY DEF WatchInv
  <1> USE DEF engine, registry
  <1>1. ASSUME NEW p \in Phones, NEW pc \in Pcs \ {"spawn"}, serving[p].pc # "spawn", Step(p, pc),
               UNCHANGED <<known, watchers>>
        PROVE  WatchInv'
    BY <1>0, <1>1, StepMoves, SameWatched DEF Spawning
  <1>2. ASSUME NEW p \in Phones, serving[p].pc # "spawn", Answer(p), UNCHANGED <<known, watchers>>
        PROVE  WatchInv'
    BY <1>0, <1>2, AnswerMoves, SameWatched DEF Spawning
  <1>3. ASSUME NEW p \in Phones, Unsubscribe(p) \/ GiveUp(p) PROVE WatchInv'
    BY <1>2, <1>3 DEF Unsubscribe, GiveUp
  <1>4. ASSUME NEW p \in Phones, Lookup(p) \/ ImportOk(p) \/ JoinOk(p) PROVE WatchInv'
    BY <1>1, <1>4 DEF Lookup, ImportOk, JoinOk, Pcs
  <1>5. ASSUME NEW p \in Phones, Grant(p) PROVE WatchInv'
    <2>1. serving[p].pc = "grant" /\ known' = known \cup {Ns(p)} /\ UNCHANGED watchers
      BY <1>5 DEF Grant
    <2>2. CASE Ns(p) \in known
      <3>1. Answer(p) /\ UNCHANGED known
        BY <1>5, <2>1, <2>2 DEF Grant, IsNew, Created
      <3> QED BY <1>2, <2>1, <3>1
    <2>3. CASE Ns(p) \notin known
      <3>1. Step(p, "spawn")
        BY <1>5, <2>3 DEF Grant, IsNew
      <3>2. /\ ServingOK'
            /\ \A q \in Phones : Ns(q)' = Ns(q) /\ serving'[q].pc = IF q = p THEN "spawn" ELSE serving[q].pc
        BY <1>0, <3>1, StepMoves DEF Pcs
      <3>3. \A q \in Phones, ns \in Namespaces : Spawning(q, ns)' <=> Spawning(q, ns) \/ (q = p /\ ns = Ns(p))
        BY <2>1, <3>2 DEF Spawning
      <3>4. ASSUME NEW ns \in Namespaces PROVE Watched(ns)'
        <4>1. Watched(ns)
          BY DEF WatchInv
        <4>2. CASE ns = Ns(p)
          BY <2>1, <2>3, <3>3, <4>1, <4>2 DEF Watched
        <4>3. CASE ns # Ns(p)
          BY <2>1, <3>3, <4>1, <4>3 DEF Watched
        <4> QED BY <4>2, <4>3
      <3> QED BY <2>1, <3>2, <3>4 DEF WatchInv
    <2> QED BY <2>2, <2>3
  <1>6. ASSUME NEW p \in Phones, SpawnWatch(p) PROVE WatchInv'
    <2>1. /\ serving[p].pc = "spawn" /\ Answer(p) /\ UNCHANGED known
          /\ watchers' = [watchers EXCEPT ![Ns(p)] = @ + 1]
      BY <1>6 DEF SpawnWatch, Created
    <2>2. /\ ServingOK' /\ serving'[p].pc = "idle"
          /\ \A q \in Phones \ {p} : Ns(q)' = Ns(q) /\ serving'[q].pc = serving[q].pc
      BY <1>0, <2>1, AnswerMoves
    <2>3. \A q \in Phones, ns \in Namespaces : Spawning(q, ns)' <=> Spawning(q, ns) /\ q # p
      BY <2>2 DEF Spawning
    <2>4. /\ watchers' \in [Namespaces -> Nat]
          /\ \A ns \in Namespaces : watchers'[ns] = IF ns = Ns(p) THEN watchers[ns] + 1 ELSE watchers[ns]
      <3> DEFINE n == Ns(p)
      <3>1. watchers' = [watchers EXCEPT ![n] = @ + 1] /\ watchers \in [Namespaces -> Nat]
        BY <2>1 DEF WatchInv
      <3> HIDE DEF n
      <3>2. \A ns \in Namespaces : watchers'[ns] = IF ns = n THEN watchers[ns] + 1 ELSE watchers[ns]
        BY <3>1
      <3>3. watchers' \in [Namespaces -> Nat]
        <4>1. watchers' = [m \in Namespaces |-> watchers'[m]]
          BY <3>1
        <4>2. \A m \in Namespaces : watchers'[m] \in Nat
          BY <3>1, <3>2
        <4> QED BY <4>1, <4>2
      <3> QED BY <3>2, <3>3 DEF n
    <2>5. ASSUME NEW ns \in Namespaces PROVE Watched(ns)'
      <3>1. Watched(ns)
        BY DEF WatchInv
      <3>2. CASE ns = Ns(p)
        <4>1. Spawning(p, ns)
          BY <2>1, <3>2 DEF Spawning
        <4>2. watchers[ns] = 0 /\ ns \in known /\ \A q \in Phones : Spawning(q, ns) => q = p
          BY <3>1, <4>1 DEF Watched
        <4>3. watchers'[ns] = 1
          BY <2>4, <3>2, <4>2
        <4> QED BY <2>1, <2>3, <4>2, <4>3 DEF Watched
      <3>3. CASE ns # Ns(p)
        <4>1. ~Spawning(p, ns)
          BY <3>3 DEF Spawning
        <4> QED BY <2>1, <2>3, <2>4, <3>1, <3>3, <4>1 DEF Watched
      <3> QED BY <3>2, <3>3
    <2> QED BY <2>2, <2>4, <2>5 DEF WatchInv
  <1>7. ASSUME NEW p \in Phones, NEW req \in Requests[p], Send(p, req) PROVE WatchInv'
    <2>1. serving[p].pc = "idle" /\ UNCHANGED <<known, watchers>>
      BY <1>7 DEF Send
    <2> QED BY <1>0, <1>7, <2>1, SendMoves, SameWatched DEF Spawning
  <1>8. ASSUME UNCHANGED <<known, watchers, serving>> PROVE WatchInv'
    BY <1>0, <1>8, SameServing, SameWatched DEF Spawning
  <1>9. ASSUME NEW ns \in Namespaces, Wake(ns) PROVE WatchInv'
    BY <1>8, <1>9 DEF Wake
  <1>10. ASSUME NEW push \in inflight, Sent(push) PROVE WatchInv'
    BY <1>8, <1>10 DEF Sent
  <1>11. CASE UNCHANGED vars
    BY <1>8, <1>11 DEF vars
  <1> QED BY <1>3, <1>4, <1>5, <1>6, <1>7, <1>9, <1>10, <1>11 DEF Next, Serve

\* However registrations of one namespace race, exactly one of them starts its
\* watcher.
THEOREM SingleWatcher == Spec => []OneWatcher
  <1>1. Init => WatchInv
    BY ServingInit DEF Init, WatchInv, Watched, Spawning, Idle
  <1>2. WatchInv => OneWatcher
    <2> SUFFICES ASSUME WatchInv, NEW ns \in Namespaces
                 PROVE  watchers[ns] + Cardinality({p \in Phones : Spawning(p, ns)})
                            = IF ns \in known THEN 1 ELSE 0
      BY DEF OneWatcher, Spawning
    <2> DEFINE S == {p \in Phones : Spawning(p, ns)}
    <2>1. Watched(ns)
      BY DEF WatchInv
    <2>2. CASE \A p \in Phones : ~Spawning(p, ns)
      <3>1. Cardinality(S) = 0
        BY <2>2, FS_EmptySet
      <3> HIDE DEF S
      <3>2. watchers[ns] + Cardinality(S) = IF ns \in known THEN 1 ELSE 0
        BY <2>1, <2>2, <3>1 DEF Watched
      <3> QED BY <3>2 DEF S
    <2>3. CASE \E p \in Phones : Spawning(p, ns)
      <3>1. ns \in known /\ watchers[ns] = 0 /\ \E p \in Phones : S = {p}
        BY <2>1, <2>3 DEF Watched
      <3>2. Cardinality(S) = 1
        BY <3>1, FS_Singleton
      <3> HIDE DEF S
      <3>3. watchers[ns] + Cardinality(S) = IF ns \in known THEN 1 ELSE 0
        BY <3>1, <3>2
      <3> QED BY <3>3 DEF S
    <2> QED BY <2>2, <2>3
  <1> QED BY <1>1, <1>2, WatchNext, PTL DEF Spec

(***************************************************************************)
(* The queue of the lock: who waits in it waits once, and leaving it moves *)
(* up only those behind.                                                   *)
(***************************************************************************)
Once(q)  == \A i, j \in DOMAIN q : q[i] = q[j] => i = j
In(x, q) == \E i \in DOMAIN q : q[i] = x

LEMMA Enqueued ==
    ASSUME NEW S, NEW q \in Seq(S), NEW x \in S, Once(q), ~In(x, q)
    PROVE  /\ Append(q, x) \in Seq(S) /\ Once(Append(q, x))
           /\ \A y : In(y, Append(q, x)) <=> In(y, q) \/ y = x
           /\ q # <<>> => Append(q, x) # <<>> /\ Head(Append(q, x)) = Head(q)
  <1> DEFINE a == Append(q, x)
  <1>1. /\ a \in Seq(S) /\ Len(a) = Len(q) + 1
        /\ \A i \in 1..Len(q) : a[i] = q[i]
        /\ a[Len(q) + 1] = x
    BY AppendProperties
  <1>2. DOMAIN q = 1..Len(q) /\ DOMAIN a = 1..(Len(q) + 1) /\ Len(q) \in Nat
    BY <1>1, LenProperties
  <1> HIDE DEF a
  <1>3. Once(a)
    BY <1>1, <1>2 DEF Once, In
  <1>4. ASSUME NEW y PROVE In(y, a) <=> In(y, q) \/ y = x
    <2>1. In(y, a) => In(y, q) \/ y = x
      BY <1>1, <1>2 DEF In
    <2>2. In(y, q) => In(y, a)
      BY <1>1, <1>2 DEF In
    <2>3. In(x, a)
      BY <1>1, <1>2 DEF In
    <2> QED BY <2>1, <2>2, <2>3
  <1>5. q # <<>> => a # <<>> /\ Head(a) = Head(q)
    <2> SUFFICES ASSUME q # <<>> PROVE a # <<>> /\ Head(a) = Head(q)
      OBVIOUS
    <2>1. Len(q) > 0 /\ a # <<>>
      BY <1>1, <1>2, EmptySeq
    <2>2. Head(a) = a[1] /\ Head(q) = q[1]
      BY <1>1, <2>1
    <2> QED BY <1>1, <1>2, <2>1, <2>2
  <1> QED BY <1>1, <1>3, <1>4, <1>5 DEF a

LEMMA Dequeued ==
    ASSUME NEW S, NEW q \in Seq(S), q # <<>>, Once(q)
    PROVE  /\ Tail(q) \in Seq(S) /\ Once(Tail(q))
           /\ \A y : In(y, Tail(q)) <=> In(y, q) /\ y # Head(q)
           /\ In(Head(q), q)
  <1> DEFINE t == Tail(q)
  <1>1. /\ t \in Seq(S) /\ Len(t) = Len(q) - 1
        /\ \A i \in 1..Len(t) : t[i] = q[i + 1]
        /\ Head(q) = q[1]
    BY HeadTailProperties
  <1>2. DOMAIN q = 1..Len(q) /\ DOMAIN t = 1..(Len(q) - 1) /\ Len(q) \in Nat /\ Len(q) > 0
    BY <1>1, LenProperties, EmptySeq
  <1> HIDE DEF t
  <1>3. Once(t)
    <2> SUFFICES ASSUME NEW i \in DOMAIN t, NEW j \in DOMAIN t, t[i] = t[j] PROVE i = j
      BY DEF Once
    <2>1. i + 1 \in DOMAIN q /\ j + 1 \in DOMAIN q /\ t[i] = q[i + 1] /\ t[j] = q[j + 1]
      BY <1>1, <1>2
    <2>2. i + 1 = j + 1
      BY <2>1 DEF Once
    <2> QED BY <1>2, <2>2
  <1>4. ASSUME NEW y PROVE In(y, t) <=> In(y, q) /\ y # Head(q)
    <2>1. ASSUME NEW i \in DOMAIN t PROVE i + 1 \in DOMAIN q /\ i + 1 # 1 /\ t[i] = q[i + 1]
      BY <1>1, <1>2
    <2>2. In(y, t) => In(y, q) /\ y # Head(q)
      BY <1>1, <1>2, <2>1 DEF In, Once
    <2>3. ASSUME NEW i \in DOMAIN q, i # 1 PROVE i - 1 \in DOMAIN t /\ t[i - 1] = q[i]
      BY <1>1, <1>2, <2>3
    <2>4. In(y, q) /\ y # Head(q) => In(y, t)
      BY <1>1, <2>3 DEF In
    <2> QED BY <2>2, <2>4
  <1>5. In(Head(q), q)
    BY <1>1, <1>2 DEF In
  <1> QED BY <1>1, <1>3, <1>4, <1>5 DEF t

LEMMA Left ==
    ASSUME NEW S, queue \in Seq(S), NEW x, Once(queue), In(x, queue)
    PROVE  /\ Leave(x) \in Seq(S) /\ Once(Leave(x))
           /\ \A y : In(y, Leave(x)) <=> In(y, queue) /\ y # x
           /\ queue # <<>> /\ Head(queue) # x => Leave(x) # <<>> /\ Head(Leave(x)) = Head(queue)
  <1> DEFINE k == CHOOSE i \in DOMAIN queue : queue[i] = x
             w == Leave(x)
             n == Len(queue)
  <1>1. k \in DOMAIN queue /\ queue[k] = x
    BY DEF In
  <1>2. DOMAIN queue = 1..n /\ n \in Nat /\ queue \in [1..n -> S]
    BY LenProperties
  <1>3. w = [i \in 1..(n - 1) |-> queue[IF i < k THEN i ELSE i + 1]]
    BY DEF Leave
  <1> HIDE DEF k, w, n
  <1>4. \A i \in 1..(n - 1) : w[i] = queue[IF i < k THEN i ELSE i + 1] /\ (IF i < k THEN i ELSE i + 1) \in 1..n
    BY <1>1, <1>2, <1>3
  <1>5. DOMAIN w = 1..(n - 1) /\ n - 1 \in Nat
    BY <1>1, <1>2, <1>3
  <1>6. w \in Seq(S) /\ Len(w) = n - 1
    <2>1. w \in [1..(n - 1) -> S]
      BY <1>2, <1>3, <1>4
    <2>2. w \in Seq(S)
      BY <1>5, <2>1, SeqDef
    <2> QED BY <1>5, <2>2, LenProperties
  <1>7. Once(w)
    BY <1>1, <1>2, <1>4, <1>5 DEF Once
  <1>8. ASSUME NEW y PROVE In(y, w) <=> In(y, queue) /\ y # x
    <2>1. In(y, w) => In(y, queue)
      BY <1>2, <1>4, <1>5 DEF In
    <2>2. In(y, w) => y # x
      <3> SUFFICES ASSUME NEW i \in 1..(n - 1), w[i] = x PROVE FALSE
        BY <1>5 DEF In
      <3>1. (IF i < k THEN i ELSE i + 1) = k
        BY <1>1, <1>2, <1>4 DEF Once
      <3> QED BY <1>1, <1>2, <3>1
    <2>3. ASSUME NEW i \in 1..n, queue[i] = y, y # x PROVE In(y, w)
      <3>1. CASE i < k
        <4>1. i \in 1..(n - 1) /\ w[i] = y
          BY <1>1, <1>2, <1>4, <2>3, <3>1
        <4> QED BY <1>5, <4>1 DEF In
      <3>2. CASE i > k
        <4>1. i - 1 \in 1..(n - 1) /\ ~(i - 1 < k) /\ (i - 1) + 1 = i
          BY <1>1, <1>2, <3>2
        <4>2. w[i - 1] = y
          BY <1>4, <2>3, <4>1
        <4> QED BY <1>5, <4>1, <4>2 DEF In
      <3> QED BY <1>1, <1>2, <2>3, <3>1, <3>2
    <2> QED BY <1>2, <2>1, <2>2, <2>3 DEF In
  <1>9. ASSUME queue # <<>>, Head(queue) # x PROVE w # <<>> /\ Head(w) = Head(queue)
    <2>1. Head(queue) = queue[1]
      BY <1>9
    <2>2. k # 1 /\ k > 1 /\ n > 1
      BY <1>1, <1>2, <1>9, <2>1
    <2>3. 1 \in 1..(n - 1) /\ w[1] = queue[1]
      BY <1>1, <1>2, <1>4, <2>2
    <2>4. w # <<>>
      BY <1>6, <2>2, <1>2, EmptySeq
    <2> QED BY <1>6, <2>1, <2>3, <2>4
  <1> QED BY <1>6, <1>7, <1>8, <1>9 DEF w

(***************************************************************************)
(* Handlers: what they serve was accepted, and those between the lookup    *)
(* and the handle are the ones that hold or wait for the lock.             *)
(***************************************************************************)
Serves(p) ==
    serving[p].pc # "idle" => /\ serving[p].req \in Requests[p] /\ Accepted(serving[p].req)
                              /\ serving[p].req.op = "unsubscribe" <=> serving[p].pc = "unsubscribe"

Waits(p) ==
    /\ serving[p].pc \in {"lock", "import", "join"} <=> In(p, queue)
    /\ serving[p].pc \in {"import", "join"} => Holds(p)

HandlerInv ==
    /\ ServingOK
    /\ queue \in Seq(Phones) /\ Once(queue)
    /\ \A p \in Phones : Serves(p) /\ Waits(p)

\* A step that leaves the queue, and who is in it.
LEMMA SameQueue ==
    ASSUME HandlerInv, ServingOK', NEW p \in Phones, UNCHANGED queue,
           Serves(p)', Waits(p)',
           \A q \in Phones \ {p} : serving'[q].pc = serving[q].pc /\ serving'[q].req = serving[q].req
    PROVE  HandlerInv'
  <1>1. ASSUME NEW q \in Phones \ {p} PROVE Serves(q)' /\ Waits(q)'
    BY DEF HandlerInv, Serves, Waits, Holds
  <1> QED BY <1>1 DEF HandlerInv

\* The head leaves.
LEMMA HeadLeaves ==
    ASSUME HandlerInv, ServingOK', NEW p \in Phones, Holds(p), queue' = Tail(queue),
           Serves(p)', serving'[p].pc \notin {"lock", "import", "join"},
           \A q \in Phones \ {p} : serving'[q].pc = serving[q].pc /\ serving'[q].req = serving[q].req
    PROVE  HandlerInv'
  <1>1. /\ queue' \in Seq(Phones) /\ Once(queue)'
        /\ \A y : In(y, queue)' <=> In(y, queue) /\ y # p
    BY Dequeued DEF HandlerInv, Holds
  <1>2. Waits(p)'
    BY <1>1 DEF Waits
  <1>3. ASSUME NEW q \in Phones \ {p} PROVE Serves(q)' /\ Waits(q)'
    <2>1. serving[q].pc \notin {"import", "join"}
      BY DEF HandlerInv, Waits, Holds
    <2> QED BY <1>1, <2>1 DEF HandlerInv, Serves, Waits
  <1> QED BY <1>1, <1>2, <1>3 DEF HandlerInv

LEMMA HandlerNext == HandlerInv /\ [Next]_vars => HandlerInv'
  <1> SUFFICES ASSUME HandlerInv, [Next]_vars PROVE HandlerInv'
    OBVIOUS
  <1>0. ServingOK
    BY DEF HandlerInv
  <1>1. ASSUME NEW p \in Phones, serving[p].pc \notin {"lock", "import", "join"}, Answer(p), UNCHANGED queue
        PROVE  HandlerInv'
    <2>1. Serves(p)' /\ Waits(p)'
      BY <1>0, <1>1, AnswerMoves DEF Serves, Waits, HandlerInv
    <2> QED BY <1>0, <1>1, <2>1, AnswerMoves, SameQueue
  <1>2. ASSUME NEW p \in Phones, Unsubscribe(p) PROVE HandlerInv'
    BY <1>1, <1>2 DEF Unsubscribe
  <1>3. ASSUME NEW p \in Phones, Lookup(p) PROVE HandlerInv'
    <2>1. serving[p].pc = "lock" /\ Holds(p)
      BY <1>3 DEF Lookup
    <2>2. CASE Ns(p) \in handles
      <3>1. Step(p, "grant") /\ queue' = Tail(queue)
        BY <1>3, <2>2 DEF Lookup
      <3>2. Serves(p)' /\ serving'[p].pc = "grant"
        BY <1>0, <2>1, <3>1, StepMoves DEF HandlerInv, Serves, Pcs
      <3> QED BY <1>0, <2>1, <3>1, <3>2, StepMoves, HeadLeaves DEF Pcs
    <2>3. CASE Ns(p) \notin handles
      <3>1. Step(p, "import") /\ UNCHANGED queue
        BY <1>3, <2>3 DEF Lookup
      <3>2. Serves(p)' /\ Waits(p)'
        BY <1>0, <2>1, <3>1, StepMoves DEF HandlerInv, Serves, Waits, Holds, Pcs
      <3> QED BY <1>0, <3>1, <3>2, StepMoves, SameQueue DEF Pcs
    <2> QED BY <2>2, <2>3
  <1>4. ASSUME NEW p \in Phones, ImportOk(p) PROVE HandlerInv'
    <2>1. serving[p].pc = "import" /\ Step(p, "join") /\ UNCHANGED queue
      BY <1>4 DEF ImportOk
    <2>2. Serves(p)' /\ Waits(p)'
      BY <1>0, <2>1, StepMoves DEF HandlerInv, Serves, Waits, Holds, Pcs
    <2> QED BY <1>0, <2>1, <2>2, StepMoves, SameQueue DEF Pcs
  <1>5. ASSUME NEW p \in Phones, JoinOk(p) PROVE HandlerInv'
    <2>1. serving[p].pc = "join" /\ Step(p, "grant") /\ queue' = Tail(queue)
      BY <1>5 DEF JoinOk
    <2>2. Holds(p)
      BY <2>1 DEF HandlerInv, Waits
    <2>3. Serves(p)' /\ serving'[p].pc = "grant"
      BY <1>0, <2>1, StepMoves DEF HandlerInv, Serves, Pcs
    <2> QED BY <1>0, <2>1, <2>2, <2>3, StepMoves, HeadLeaves DEF Pcs
  <1>6. ASSUME NEW p \in Phones, GiveUp(p) PROVE HandlerInv'
    <2>1. serving[p].pc \in {"lock", "import", "join"} /\ queue' = Leave(p) /\ Answer(p)
      BY <1>6 DEF GiveUp
    <2>2. /\ ServingOK' /\ serving'[p].pc = "idle"
          /\ \A q \in Phones \ {p} : serving'[q].pc = serving[q].pc /\ serving'[q].req = serving[q].req
      BY <1>0, <2>1, AnswerMoves
    <2>3. /\ queue' \in Seq(Phones) /\ Once(queue)'
          /\ \A y : In(y, queue)' <=> In(y, queue) /\ y # p
          /\ queue # <<>> /\ Head(queue) # p => queue' # <<>> /\ Head(queue') = Head(queue)
      BY <2>1, Left DEF HandlerInv, Waits
    <2>4. Serves(p)' /\ Waits(p)'
      BY <2>2, <2>3 DEF Serves, Waits
    <2>5. ASSUME NEW q \in Phones \ {p} PROVE Serves(q)' /\ Waits(q)'
      <3>1. Serves(q) /\ Waits(q)
        BY DEF HandlerInv
      <3>2. Serves(q)'
        BY <2>2, <3>1 DEF Serves
      <3>3. Waits(q)'
        BY <2>2, <2>3, <3>1 DEF Waits, Holds
      <3> QED BY <3>2, <3>3
    <2> QED BY <2>2, <2>3, <2>4, <2>5 DEF HandlerInv
  <1>7. ASSUME NEW p \in Phones, Grant(p) PROVE HandlerInv'
    <2>1. serving[p].pc = "grant" /\ UNCHANGED queue
      BY <1>7 DEF Grant
    <2>2. CASE Answer(p)
      BY <1>1, <2>1, <2>2
    <2>3. CASE Step(p, "spawn")
      <3>1. Serves(p)' /\ Waits(p)'
        BY <1>0, <2>1, <2>3, StepMoves DEF HandlerInv, Serves, Waits, Pcs
      <3> QED BY <1>0, <2>1, <2>3, <3>1, StepMoves, SameQueue DEF Pcs
    <2> QED BY <1>7, <2>2, <2>3 DEF Grant, Created
  <1>8. ASSUME NEW p \in Phones, SpawnWatch(p) PROVE HandlerInv'
    BY <1>1, <1>8 DEF SpawnWatch, Created
  <1>9. ASSUME NEW p \in Phones, NEW req \in Requests[p], Send(p, req) PROVE HandlerInv'
    <2>1. serving[p].pc = "idle" /\ Accepted(req) /\ queue' = IF req.op = "register" THEN Append(queue, p) ELSE queue
      BY <1>9 DEF Send
    <2>2. /\ ServingOK'
          /\ serving'[p].pc = (IF req.op = "register" THEN "lock" ELSE "unsubscribe") /\ serving'[p].req = req
          /\ \A q \in Phones \ {p} : serving'[q].pc = serving[q].pc /\ serving'[q].req = serving[q].req
      BY <1>0, <1>9, SendMoves
    <2>3. ~In(p, queue)
      BY <2>1 DEF HandlerInv, Waits
    <2>4. Serves(p)'
      BY <2>1, <2>2, RegistryAssumption DEF Serves
    <2>5. CASE req.op = "register"
      <3>1. /\ queue' \in Seq(Phones) /\ Once(queue)'
            /\ \A y : In(y, queue)' <=> In(y, queue) \/ y = p
            /\ queue # <<>> => queue' # <<>> /\ Head(queue') = Head(queue)
        BY <2>1, <2>3, <2>5, Enqueued DEF HandlerInv
      <3>2. Waits(p)'
        BY <2>2, <2>5, <3>1 DEF Waits
      <3>3. ASSUME NEW q \in Phones \ {p} PROVE Serves(q)' /\ Waits(q)'
        <4>1. Serves(q) /\ Waits(q)
          BY DEF HandlerInv
        <4>2. Serves(q)'
          BY <2>2, <4>1 DEF Serves
        <4>3. Waits(q)'
          BY <2>2, <3>1, <4>1 DEF Waits, Holds
        <4> QED BY <4>2, <4>3
      <3> QED BY <2>2, <2>4, <3>1, <3>2, <3>3 DEF HandlerInv
    <2>6. CASE req.op # "register"
      <3>1. UNCHANGED queue /\ Waits(p)'
        BY <2>1, <2>2, <2>3, <2>6 DEF Waits
      <3> QED BY <2>2, <2>4, <3>1, SameQueue
    <2> QED BY <2>5, <2>6
  <1>10. ASSUME UNCHANGED <<queue, serving>> PROVE HandlerInv'
    BY <1>10 DEF HandlerInv, ServingOK, Serves, Waits, Holds
  <1>11. ASSUME NEW ns \in Namespaces, Wake(ns) PROVE HandlerInv'
    BY <1>10, <1>11 DEF Wake
  <1>12. ASSUME NEW push \in inflight, Sent(push) PROVE HandlerInv'
    BY <1>10, <1>12 DEF Sent
  <1>13. CASE UNCHANGED vars
    BY <1>10, <1>13 DEF vars
  <1> QED BY <1>2, <1>3, <1>4, <1>5, <1>6, <1>7, <1>8, <1>9, <1>11, <1>12, <1>13 DEF Next, Serve

LEMMA HandlerInit == Init => HandlerInv
  <1> SUFFICES ASSUME Init PROVE HandlerInv
    OBVIOUS
  <1>1. ServingOK
    BY ServingInit
  <1>2. queue \in Seq(Phones) /\ DOMAIN queue = {}
    BY DEF Init
  <1>3. \A p \in Phones : serving[p].pc = "idle"
    BY DEF Init, Idle
  <1> QED BY <1>1, <1>2, <1>3 DEF HandlerInv, Once, In, Serves, Waits

LEMMA ServedNamespace ==
    ASSUME HandlerInv, NEW p \in Phones, serving[p].pc # "idle"
    PROVE  Ns(p) \in Namespaces
  <1> DEFINE req == serving[p].req
  <1>1. req \in Requests[p] /\ Accepted(req)
    BY DEF HandlerInv, Serves
  <1>2. CASE req.op = "register"
    BY <1>1, <1>2, RegistryAssumption DEF Accepted, Ns, TicketNamespace
  <1>3. CASE req.op # "register"
    BY <1>1, <1>3, RegistryAssumption DEF Accepted, Ns, UnsubscribeValid, ParseNamespaceHex
  <1> QED BY <1>2, <1>3

(***************************************************************************)
(* Types, and what the registry and the pushes contain.                    *)
(***************************************************************************)
\* The subscriptions a registration may leave, and the pushes they may cause.
Subscriptions ==
    {RegisterSubscription(req) : req \in {r \in UNION {Requests[p] : p \in Phones} :
                                             r.op = "register" /\ Accepted(r) /\ RegisterSubscription(r) # None}}
Built == {Build(x[1], x[2]) : x \in Namespaces \X Subscriptions} \ {None}

TypeInv ==
    /\ HandlerInv
    /\ imported \subseteq Namespaces /\ joined \subseteq imported /\ known \subseteq Namespaces
    /\ \A p \in Phones : serving[p].pc = "join" => Ns(p) \in imported
    /\ subs \in [Namespaces -> SUBSET Subscriptions]
    /\ watchers \in [Namespaces -> Nat]
    /\ told \in [Phones -> SUBSET Namespaces]
    /\ inflight \subseteq Built

LEMMA GrantedSubscription ==
    ASSUME HandlerInv, NEW p \in Phones, serving[p].pc \notin {"idle", "unsubscribe"}, Sub(p) # None
    PROVE  Sub(p) \in Subscriptions
  <1> DEFINE req == serving[p].req
  <1>1. req \in Requests[p] /\ Accepted(req) /\ req.op = "register"
    BY RegistryAssumption DEF HandlerInv, Serves
  <1> QED BY <1>1 DEF Sub, Subscriptions

LEMMA TypeNext == TypeInv /\ [Next]_vars => TypeInv'
  <1> SUFFICES ASSUME TypeInv, [Next]_vars PROVE TypeInv'
    OBVIOUS
  <1>0. ServingOK /\ HandlerInv /\ HandlerInv'
    BY HandlerNext DEF TypeInv, HandlerInv
  <1> USE DEF engine, registry
  <1> DEFINE Joins     == \A p \in Phones : serving[p].pc = "join" => Ns(p) \in imported
             Sets      == imported \subseteq Namespaces /\ joined \subseteq imported /\ known \subseteq Namespaces
             Functions == /\ subs \in [Namespaces -> SUBSET Subscriptions]
                          /\ watchers \in [Namespaces -> Nat] /\ told \in [Phones -> SUBSET Namespaces]
  <1>1. Joins /\ Sets /\ Functions /\ inflight \subseteq Built
    BY DEF TypeInv
  <1>2. Joins' /\ Sets' /\ Functions' /\ inflight' \subseteq Built => TypeInv'
    BY <1>0 DEF TypeInv
  <1>3. ASSUME NEW p \in Phones, Answer(p), UNCHANGED imported PROVE Joins'
    BY <1>0, <1>1, <1>3, AnswerMoves
  <1>4. ASSUME NEW p \in Phones, NEW pc \in Pcs \ {"join"}, Step(p, pc), imported \subseteq imported' PROVE Joins'
    BY <1>0, <1>1, <1>4, StepMoves
  <1>5. ASSUME NEW p \in Phones, serving[p].pc # "idle" PROVE Ns(p) \in Namespaces
    BY <1>0, <1>5, ServedNamespace
  <1>6. ASSUME NEW p \in Phones, Unsubscribe(p) PROVE TypeInv'
    <2>1. /\ serving[p].pc = "unsubscribe" /\ Answer(p)
          /\ UNCHANGED <<imported, joined, known, watchers, inflight>>
          /\ subs' = [subs EXCEPT ![Ns(p)] = @ \ {Sub(p)}]
          /\ told' = [told EXCEPT ![p] = @ \ {Ns(p)}]
      BY <1>6 DEF Unsubscribe, RemoveSub
    <2>2. PICK n \in Namespaces : n = Ns(p)
      BY <1>5, <2>1
    <2>3. PICK d : d = Sub(p)
      OBVIOUS
    <2>4. subs' = [subs EXCEPT ![n] = @ \ {d}] /\ told' = [told EXCEPT ![p] = @ \ {n}]
      BY <2>1, <2>2, <2>3
    <2>5. subs' \in [Namespaces -> SUBSET Subscriptions]
      BY <1>1, <2>4
    <2>6. told' \in [Phones -> SUBSET Namespaces]
      BY <1>1, <2>4
    <2> QED BY <1>1, <1>2, <1>3, <2>1, <2>5, <2>6
  <1>7. ASSUME NEW p \in Phones, Lookup(p) PROVE TypeInv'
    <2>1. /\ UNCHANGED <<imported, joined, known, subs, watchers, told, inflight>>
          /\ Step(p, "grant") \/ Step(p, "import")
      BY <1>7 DEF Lookup
    <2>2. Joins'
      BY <1>4, <2>1 DEF Pcs
    <2> QED BY <1>1, <1>2, <2>1, <2>2
  <1>8. ASSUME NEW p \in Phones, ImportOk(p) PROVE TypeInv'
    <2>1. /\ serving[p].pc = "import" /\ imported' = imported \cup {Ns(p)} /\ Step(p, "join")
          /\ UNCHANGED <<joined, known, subs, watchers, told, inflight>>
      BY <1>8 DEF ImportOk
    <2>2. Joins'
      BY <1>0, <1>1, <2>1, StepMoves DEF Pcs
    <2> QED BY <1>1, <1>2, <1>5, <2>1, <2>2
  <1>9. ASSUME NEW p \in Phones, JoinOk(p) PROVE TypeInv'
    <2>1. /\ serving[p].pc = "join" /\ joined' = joined \cup {Ns(p)} /\ Step(p, "grant")
          /\ UNCHANGED <<imported, known, subs, watchers, told, inflight>>
      BY <1>9 DEF JoinOk
    <2>2. Joins'
      BY <1>4, <2>1 DEF Pcs
    <2> QED BY <1>1, <1>2, <2>1, <2>2
  <1>10. ASSUME NEW p \in Phones, GiveUp(p) PROVE TypeInv'
    <2>1. Answer(p) /\ UNCHANGED <<imported, joined, known, subs, watchers, told, inflight>>
      BY <1>10 DEF GiveUp
    <2> QED BY <1>1, <1>2, <1>3, <2>1
  <1>11. ASSUME NEW p \in Phones, Created(p), serving[p].pc # "idle"
         PROVE  Answer(p) /\ told' \in [Phones -> SUBSET Namespaces]
    <2>1. PICK n \in Namespaces : n = Ns(p)
      BY <1>5, <1>11
    <2>2. Answer(p) /\ (told' = told \/ told' = [told EXCEPT ![p] = @ \cup {n}])
      BY <1>11, <2>1 DEF Created
    <2> QED BY <1>1, <2>2
  <1>12. ASSUME NEW p \in Phones, Grant(p) PROVE TypeInv'
    <2>1. /\ serving[p].pc = "grant" /\ known' = known \cup {Ns(p)}
          /\ UNCHANGED <<imported, joined, watchers, inflight>>
          /\ subs' = IF Sub(p) = None THEN subs ELSE [subs EXCEPT ![Ns(p)] = @ \cup {Sub(p)}]
          /\ (Step(p, "spawn") /\ UNCHANGED told) \/ Created(p)
      BY <1>12 DEF Grant
    <2>2. PICK n \in Namespaces : n = Ns(p)
      BY <1>5, <2>1
    <2>3. subs' \in [Namespaces -> SUBSET Subscriptions]
      <3>1. CASE Sub(p) = None
        BY <1>1, <2>1, <3>1
      <3>2. CASE Sub(p) # None
        <4>1. PICK d \in Subscriptions : d = Sub(p)
          BY <1>0, <2>1, <3>2, GrantedSubscription
        <4>2. subs' = [subs EXCEPT ![n] = @ \cup {d}]
          BY <2>1, <2>2, <3>2, <4>1
        <4> QED BY <1>1, <4>2
      <3> QED BY <3>1, <3>2
    <2>4. Joins' /\ told' \in [Phones -> SUBSET Namespaces]
      BY <1>1, <1>3, <1>4, <1>11, <2>1 DEF Pcs
    <2>5. Sets'
      BY <1>1, <2>1, <2>2
    <2> QED BY <1>1, <1>2, <2>1, <2>3, <2>4, <2>5
  <1>13. ASSUME NEW p \in Phones, SpawnWatch(p) PROVE TypeInv'
    <2>1. /\ serving[p].pc = "spawn" /\ Created(p)
          /\ watchers' = [watchers EXCEPT ![Ns(p)] = @ + 1]
          /\ UNCHANGED <<imported, joined, known, subs, inflight>>
      BY <1>13 DEF SpawnWatch
    <2>2. PICK n \in Namespaces : n = Ns(p)
      BY <1>5, <2>1
    <2>3. watchers' \in [Namespaces -> Nat]
      BY <1>1, <2>1, <2>2
    <2> QED BY <1>1, <1>2, <1>3, <1>11, <2>1, <2>3
  <1>14. ASSUME NEW p \in Phones, NEW req \in Requests[p], Send(p, req) PROVE TypeInv'
    <2>1. UNCHANGED <<imported, joined, known, subs, watchers, told, inflight>>
      BY <1>14 DEF Send
    <2>2. Joins'
      BY <1>0, <1>1, <1>14, <2>1, SendMoves
    <2> QED BY <1>1, <1>2, <2>1, <2>2
  <1>15. ASSUME UNCHANGED serving, UNCHANGED <<imported, joined, known, subs, watchers, told>>,
                inflight' \subseteq Built
         PROVE  TypeInv'
    <2>1. Joins'
      BY <1>0, <1>1, <1>15, SameServing
    <2> QED BY <1>1, <1>2, <1>15, <2>1
  <1>16. ASSUME NEW ns \in Namespaces, Wake(ns) PROVE TypeInv'
    <2>1. Pushes(ns) \subseteq Built
      <3>1. ASSUME NEW s \in subs[ns], Build(ns, s) # None PROVE Build(ns, s) \in Built
        <4>1. <<ns, s>> \in Namespaces \X Subscriptions
          BY <1>1
        <4> QED BY <3>1, <4>1 DEF Built
      <3> QED BY <3>1 DEF Pushes, WakeTargets
    <2> QED BY <1>1, <1>15, <1>16, <2>1 DEF Wake
  <1>17. ASSUME NEW push \in inflight, Sent(push) PROVE TypeInv'
    BY <1>1, <1>15, <1>17 DEF Sent
  <1>18. CASE UNCHANGED vars
    BY <1>1, <1>15, <1>18 DEF vars
  <1> QED BY <1>6, <1>7, <1>8, <1>9, <1>10, <1>12, <1>13, <1>14, <1>16, <1>17, <1>18 DEF Next, Serve

LEMMA TypeInit == Init => TypeInv
  <1> SUFFICES ASSUME Init PROVE TypeInv
    OBVIOUS
  <1>1. HandlerInv
    BY HandlerInit
  <1>2. \A p \in Phones : serving[p].pc = "idle"
    BY DEF Init, Idle
  <1> QED BY <1>1, <1>2 DEF Init, TypeInv

\* What was accepted is trimmed and for one of the two providers.
LEMMA SubscriptionKinds ==
    ASSUME NEW s \in Subscriptions
    PROVE  s.platform \in {"apns", "fcm"} /\ ~s.token.blanks
  <1>1. PICK p \in Phones : \E r \in Requests[p] :
            r.op = "register" /\ Accepted(r) /\ s # None /\ s = RegisterSubscription(r)
    BY DEF Subscriptions
  <1>2. PICK r \in Requests[p] : r.op = "register" /\ Accepted(r) /\ s # None /\ s = RegisterSubscription(r)
    BY <1>1
  <1>3. r.push_token # None /\ s = Subscription(ParsePlatform(r.platform), Trim(r.push_token))
    BY <1>2 DEF RegisterSubscription
  <1>4. RegisterError(r) = "ok"
    BY <1>2 DEF Accepted
  <1>5. ParsePlatform(r.platform) # None
    BY <1>3, <1>4 DEF RegisterError
  <1>6. DOMAIN r.push_token = {"text", "blanks", "len"}
    BY <1>3, RegistryAssumption
  <1>7. Trim(r.push_token).blanks = FALSE
    BY <1>6 DEF Trim
  <1>8. s.platform = ParsePlatform(r.platform) /\ s.token = Trim(r.push_token)
    BY <1>3 DEF Subscription
  <1> QED BY <1>5, <1>7, <1>8 DEF ParsePlatform

\* The types hold for any phones and requests; the registry holds only trimmed
\* tokens of a known platform, a push carries the credential of its provider,
\* and a handler between the lookup and the handle holds the lock.
THEOREM Types == Spec => []TypeOK
  <1>1. TypeInv => TypeOK
    <2> SUFFICES ASSUME TypeInv PROVE TypeOK
      OBVIOUS
    <2>1. /\ imported \subseteq Namespaces /\ joined \subseteq imported /\ known \subseteq Namespaces
          /\ watchers \in [Namespaces -> Nat]
      BY DEF TypeInv
    <2>2. \A ns \in Namespaces : \A s \in subs[ns] : s.platform \in {"apns", "fcm"} /\ ~s.token.blanks
      BY SubscriptionKinds DEF TypeInv
    <2>3. \A p \in Phones : serving[p].pc \in Pcs /\ told[p] \subseteq Namespaces
      BY DEF TypeInv, HandlerInv, ServingOK
    <2>4. ASSUME NEW x \in inflight PROVE x.request.ns \in Namespaces /\ x.bearer # None
      <3>1. PICK ns \in Namespaces, s \in Subscriptions : x = Build(ns, s) /\ x # None
        BY DEF TypeInv, Built
      <3>2. Bearer(s.platform) # None
        BY <3>1 DEF Build
      <3>3. /\ x.bearer = Bearer(s.platform)
            /\ x.request = IF s.platform = "apns" THEN ApnsRequest(s.token, ns) ELSE FcmRequest(s.token, ns)
        BY <3>1, <3>2 DEF Build
      <3>4. x.request.ns = ns
        BY <3>3 DEF ApnsRequest, FcmRequest
      <3> QED BY <3>2, <3>3, <3>4
    <2>5. \A p \in Phones : serving[p].pc \in {"import", "join"} => Holds(p)
      BY DEF TypeInv, HandlerInv, Waits
    <2>6. \A i, j \in DOMAIN queue : queue[i] = queue[j] => i = j
      BY DEF TypeInv, HandlerInv, Once
    <2> QED BY <2>1, <2>2, <2>3, <2>4, <2>5, <2>6 DEF TypeOK
  <1> QED BY <1>1, TypeInit, TypeNext, PTL DEF Spec

(***************************************************************************)
(* What a phone was told and what the registry holds.                      *)
(***************************************************************************)
LEMMA OwnSubscription ==
    ASSUME OwnTokens, HandlerInv, NEW p \in Phones, serving[p].pc # "idle"
    PROVE  /\ serving[p].pc = "unsubscribe" => Sub(p) = Device[p]
           /\ Sub(p) \in {None, Device[p]}
  <1> DEFINE req == serving[p].req
  <1>1. /\ req \in Requests[p] /\ Accepted(req) /\ req.op \in {"register", "unsubscribe"}
        /\ req.op = "unsubscribe" <=> serving[p].pc = "unsubscribe"
    BY RegistryAssumption DEF HandlerInv, Serves
  <1>2. CASE req.op = "unsubscribe"
    <2>1. ParsePlatform(req.platform) = req.platform
      BY <1>1, <1>2 DEF Accepted, UnsubscribeValid, ParsePlatform
    <2> QED BY <1>1, <1>2, <2>1 DEF OwnTokens, Sub, UnsubscribeSubscription
  <1>3. CASE req.op = "register" /\ req.push_token = None
    BY <1>1, <1>3 DEF Sub, RegisterSubscription
  <1>4. CASE req.op = "register" /\ req.push_token # None
    <2>1. RegisterError(req) = "ok"
      BY <1>1, <1>4 DEF Accepted
    <2>2. ParsePlatform(req.platform) = req.platform
      BY <1>4, <2>1 DEF RegisterError, ParsePlatform
    <2> QED BY <1>1, <1>4, <2>2 DEF OwnTokens, Sub, RegisterSubscription, Trim
  <1> QED BY <1>1, <1>2, <1>3, <1>4

\* Between a first grant and its answer the registry is ahead of the phone.
Agrees(p, ns) ==
    IF serving[p].pc = "spawn" /\ Ns(p) = ns /\ Sub(p) # None
    THEN Device[p] \in subs[ns]
    ELSE ns \in told[p] <=> Device[p] \in subs[ns]

ToldInv == TypeInv /\ \A p \in Phones, ns \in Namespaces : Agrees(p, ns)

\* A step of p leaves another phone be, as long as it leaves its subscription.
LEMMA OtherAgrees ==
    ASSUME ToldInv, NEW q \in Phones, NEW ns \in Namespaces,
           serving'[q].pc = serving[q].pc, serving'[q].req = serving[q].req,
           told'[q] = told[q], (Device[q] \in subs[ns])' <=> Device[q] \in subs[ns]
    PROVE  Agrees(q, ns)'
  <1>1. Ns(q)' = Ns(q) /\ Sub(q)' = Sub(q)
    BY DEF Ns, Sub
  <1>2. Agrees(q, ns)
    BY DEF ToldInv
  <1> QED BY <1>1, <1>2 DEF Agrees

LEMMA ToldNext == ASSUME OwnTokens PROVE ToldInv /\ [Next]_vars => ToldInv'
  <1> SUFFICES ASSUME ToldInv, [Next]_vars PROVE ToldInv'
    OBVIOUS
  <1>0. TypeInv /\ HandlerInv /\ ServingOK /\ TypeInv'
    BY TypeNext DEF ToldInv, TypeInv, HandlerInv
  <1>1. /\ subs \in [Namespaces -> SUBSET Subscriptions] /\ told \in [Phones -> SUBSET Namespaces]
        /\ \A p \in Phones, ns \in Namespaces : Agrees(p, ns)
        /\ \A p \in Phones : serving[p].pc # "idle" => Ns(p) \in Namespaces
    BY <1>0, ServedNamespace DEF ToldInv, TypeInv
  <1>2. \A p, q \in Phones : Device[p] = Device[q] => p = q
    BY DEF OwnTokens
  <1> USE DEF engine, registry
  \* A step of the handler of p that touches neither the registry nor what phones were told.
  <1>3. ASSUME NEW p \in Phones, UNCHANGED <<subs, told>>, serving[p].pc # "spawn", serving'[p].pc # "spawn",
               \A q \in Phones \ {p} : serving'[q].pc = serving[q].pc /\ serving'[q].req = serving[q].req
        PROVE  ToldInv'
    <2>1. ASSUME NEW ns \in Namespaces PROVE Agrees(p, ns)'
      BY <1>1, <1>3 DEF Agrees
    <2>2. ASSUME NEW q \in Phones \ {p}, NEW ns \in Namespaces PROVE Agrees(q, ns)'
      BY <1>3, OtherAgrees
    <2> QED BY <1>0, <2>1, <2>2 DEF ToldInv
  <1>4. ASSUME NEW p \in Phones, Unsubscribe(p) PROVE ToldInv'
    <2>1. /\ serving[p].pc = "unsubscribe" /\ Answer(p)
          /\ subs' = [subs EXCEPT ![Ns(p)] = @ \ {Sub(p)}]
          /\ told' = [told EXCEPT ![p] = @ \ {Ns(p)}]
      BY <1>4 DEF Unsubscribe, RemoveSub
    <2>2. PICK n \in Namespaces : n = Ns(p)
      BY <1>1, <2>1
    <2>3. Sub(p) = Device[p]
      BY <1>0, <2>1, OwnSubscription
    <2>4. subs' = [subs EXCEPT ![n] = @ \ {Device[p]}] /\ told' = [told EXCEPT ![p] = @ \ {n}]
      BY <2>1, <2>2, <2>3
    <2>5. /\ \A ns \in Namespaces : subs'[ns] = IF ns = n THEN subs[ns] \ {Device[p]} ELSE subs[ns]
          /\ told'[p] = told[p] \ {n} /\ \A q \in Phones \ {p} : told'[q] = told[q]
      BY <1>1, <2>4
    <2>6. /\ serving'[p].pc = "idle"
          /\ \A q \in Phones \ {p} : serving'[q].pc = serving[q].pc /\ serving'[q].req = serving[q].req
      BY <1>0, <2>1, AnswerMoves
    <2>7. ASSUME NEW ns \in Namespaces PROVE Agrees(p, ns)'
      <3>1. ns \in told[p] <=> Device[p] \in subs[ns]
        BY <1>1, <2>1 DEF Agrees
      <3>2. ns \in told'[p] <=> Device[p] \in subs'[ns]
        BY <2>5, <3>1
      <3> QED BY <2>6, <3>2 DEF Agrees
    <2>8. ASSUME NEW q \in Phones \ {p}, NEW ns \in Namespaces PROVE Agrees(q, ns)'
      <3>1. Device[q] \in subs'[ns] <=> Device[q] \in subs[ns]
        BY <1>2, <2>5
      <3> QED BY <2>5, <2>6, <3>1, OtherAgrees
    <2> QED BY <1>0, <2>7, <2>8 DEF ToldInv
  <1>5. ASSUME NEW p \in Phones, Lookup(p) PROVE ToldInv'
    <2>1. serving[p].pc = "lock" /\ UNCHANGED <<subs, told>> /\ (Step(p, "grant") \/ Step(p, "import"))
      BY <1>5 DEF Lookup
    <2> QED BY <1>0, <1>3, <2>1, StepMoves DEF Pcs
  <1>6. ASSUME NEW p \in Phones, ImportOk(p) PROVE ToldInv'
    <2>1. serving[p].pc = "import" /\ UNCHANGED <<subs, told>> /\ Step(p, "join")
      BY <1>6 DEF ImportOk
    <2> QED BY <1>0, <1>3, <2>1, StepMoves DEF Pcs
  <1>7. ASSUME NEW p \in Phones, JoinOk(p) PROVE ToldInv'
    <2>1. serving[p].pc = "join" /\ UNCHANGED <<subs, told>> /\ Step(p, "grant")
      BY <1>7 DEF JoinOk
    <2> QED BY <1>0, <1>3, <2>1, StepMoves DEF Pcs
  <1>8. ASSUME NEW p \in Phones, GiveUp(p) PROVE ToldInv'
    <2>1. serving[p].pc # "spawn" /\ UNCHANGED <<subs, told>> /\ Answer(p)
      BY <1>8 DEF GiveUp
    <2> QED BY <1>0, <1>3, <2>1, AnswerMoves
  <1>9. ASSUME NEW p \in Phones, NEW req \in Requests[p], Send(p, req) PROVE ToldInv'
    <2>1. serving[p].pc = "idle" /\ UNCHANGED <<subs, told>>
      BY <1>9 DEF Send
    <2> QED BY <1>0, <1>3, <1>9, <2>1, SendMoves
  \* The registration is answered: what is told is what the grant left.
  <1>10. ASSUME NEW p \in Phones, NEW n \in Namespaces, serving[p].pc # "idle", n = Ns(p), Created(p),
                \A ns \in Namespaces, q \in Phones \ {p} : Device[q] \in subs'[ns] <=> Device[q] \in subs[ns],
                \A ns \in Namespaces \ {n} : /\ Device[p] \in subs'[ns] <=> Device[p] \in subs[ns]
                                             /\ Device[p] \in subs[ns] <=> ns \in told[p],
                IF Sub(p) = None THEN Device[p] \in subs'[n] <=> n \in told[p] ELSE Device[p] \in subs'[n]
         PROVE  ToldInv'
    <2>1. Answer(p) /\ told' = IF Sub(p) = None THEN told ELSE [told EXCEPT ![p] = @ \cup {n}]
      BY <1>10 DEF Created
    <2>2. /\ \A q \in Phones \ {p} : told'[q] = told[q]
          /\ told'[p] = IF Sub(p) = None THEN told[p] ELSE told[p] \cup {n}
      BY <1>1, <2>1
    <2>3. /\ serving'[p].pc = "idle"
          /\ \A q \in Phones \ {p} : serving'[q].pc = serving[q].pc /\ serving'[q].req = serving[q].req
      BY <1>0, <2>1, AnswerMoves
    <2>4. ASSUME NEW ns \in Namespaces PROVE Agrees(p, ns)'
      <3>1. ns \in told'[p] <=> Device[p] \in subs'[ns]
        BY <1>10, <2>2
      <3> QED BY <2>3, <3>1 DEF Agrees
    <2>5. ASSUME NEW q \in Phones \ {p}, NEW ns \in Namespaces PROVE Agrees(q, ns)'
      BY <1>10, <2>2, <2>3, OtherAgrees
    <2> QED BY <1>0, <2>4, <2>5 DEF ToldInv
  <1>11. ASSUME NEW p \in Phones, Grant(p) PROVE ToldInv'
    <2>1. /\ serving[p].pc = "grant"
          /\ subs' = IF Sub(p) = None THEN subs ELSE [subs EXCEPT ![Ns(p)] = @ \cup {Sub(p)}]
          /\ (Step(p, "spawn") /\ UNCHANGED told) \/ Created(p)
      BY <1>11 DEF Grant
    <2>2. PICK n \in Namespaces : n = Ns(p)
      BY <1>1, <2>1
    <2>3. Sub(p) \in {None, Device[p]}
      BY <1>0, <2>1, OwnSubscription
    <2>4. \A ns \in Namespaces : ns \in told[p] <=> Device[p] \in subs[ns]
      BY <1>1, <2>1 DEF Agrees
    <2>5. subs' = IF Sub(p) = None THEN subs ELSE [subs EXCEPT ![n] = @ \cup {Device[p]}]
      BY <2>1, <2>2, <2>3
    <2>6. /\ \A ns \in Namespaces \ {n} : subs'[ns] = subs[ns]
          /\ subs'[n] = IF Sub(p) = None THEN subs[n] ELSE subs[n] \cup {Device[p]}
      BY <1>1, <2>5
    <2>7. \A ns \in Namespaces, q \in Phones \ {p} : Device[q] \in subs'[ns] <=> Device[q] \in subs[ns]
      BY <1>2, <2>6
    <2>8. CASE Created(p)
      <3>1. IF Sub(p) = None THEN Device[p] \in subs'[n] <=> n \in told[p] ELSE Device[p] \in subs'[n]
        BY <2>4, <2>6
      <3> QED BY <1>10, <2>1, <2>2, <2>4, <2>6, <2>7, <2>8, <3>1
    <2>9. CASE Step(p, "spawn") /\ UNCHANGED told
      <3>1. /\ serving'[p].pc = "spawn" /\ Ns(p)' = Ns(p) /\ serving'[p].req = serving[p].req
            /\ \A q \in Phones \ {p} : serving'[q].pc = serving[q].pc /\ serving'[q].req = serving[q].req
        BY <1>0, <2>9, StepMoves DEF Pcs
      <3>2. Sub(p)' = Sub(p)
        BY <3>1 DEF Sub
      <3>3. ASSUME NEW ns \in Namespaces PROVE Agrees(p, ns)'
        <4>1. CASE ns = n /\ Sub(p) # None
          BY <2>2, <2>6, <3>1, <3>2, <4>1 DEF Agrees
        <4>2. CASE ns # n \/ Sub(p) = None
          <5>1. ns \in told'[p] <=> Device[p] \in subs'[ns]
            BY <2>4, <2>6, <2>9, <4>2
          <5> QED BY <2>2, <3>1, <3>2, <4>2, <5>1 DEF Agrees
        <4> QED BY <4>1, <4>2
      <3>4. ASSUME NEW q \in Phones \ {p}, NEW ns \in Namespaces PROVE Agrees(q, ns)'
        BY <2>7, <2>9, <3>1, OtherAgrees
      <3> QED BY <1>0, <3>3, <3>4 DEF ToldInv
    <2> QED BY <2>1, <2>8, <2>9
  <1>12. ASSUME NEW p \in Phones, SpawnWatch(p) PROVE ToldInv'
    <2>1. serving[p].pc = "spawn" /\ Created(p) /\ UNCHANGED subs
      BY <1>12 DEF SpawnWatch
    <2>2. PICK n \in Namespaces : n = Ns(p)
      BY <1>1, <2>1
    <2>3. /\ \A ns \in Namespaces \ {n} : Device[p] \in subs[ns] <=> ns \in told[p]
          /\ IF Sub(p) = None THEN Device[p] \in subs[n] <=> n \in told[p] ELSE Device[p] \in subs[n]
      BY <1>1, <2>1, <2>2 DEF Agrees
    <2> QED BY <1>10, <2>1, <2>2, <2>3
  <1>13. ASSUME UNCHANGED <<serving, subs, told>> PROVE ToldInv'
    <2>1. ASSUME NEW q \in Phones, NEW ns \in Namespaces PROVE Agrees(q, ns)'
      BY <1>13, OtherAgrees
    <2> QED BY <1>0, <2>1 DEF ToldInv
  <1>14. ASSUME NEW ns \in Namespaces, Wake(ns) PROVE ToldInv'
    BY <1>13, <1>14 DEF Wake
  <1>15. ASSUME NEW push \in inflight, Sent(push) PROVE ToldInv'
    BY <1>13, <1>15 DEF Sent
  <1>16. CASE UNCHANGED vars
    BY <1>13, <1>16 DEF vars
  <1> QED BY <1>4, <1>5, <1>6, <1>7, <1>8, <1>9, <1>11, <1>12, <1>14, <1>15, <1>16 DEF Next, Serve

LEMMA ToldInit == Init => ToldInv
  <1> SUFFICES ASSUME Init PROVE ToldInv
    OBVIOUS
  <1>1. TypeInv
    BY TypeInit
  <1>2. \A p \in Phones, ns \in Namespaces : serving[p].pc = "idle" /\ told[p] = {} /\ subs[ns] = {}
    BY DEF Init, Idle
  <1> QED BY <1>1, <1>2 DEF ToldInv, Agrees

\* Of phones that present their own tokens: whatever registrations fail, are
\* abandoned, race or are repeated, what a phone was last told is what the
\* registry holds.
THEOREM Told == ASSUME OwnTokens PROVE Spec => []SubscribedAsTold
  <1>1. ToldInv => SubscribedAsTold
    BY DEF ToldInv, Agrees, SubscribedAsTold
  <1> QED BY <1>1, ToldInit, ToldNext, PTL DEF Spec

\* The push of a subscription goes to its token, through its provider, with
\* that provider's credential and route.
LEMMA PushOf ==
    ASSUME NEW ns, NEW s, s.platform \in {"apns", "fcm"}, Bearer(s.platform) # None
    PROVE  /\ Build(ns, s).request.ns = ns
           /\ Build(ns, s).request.to = s.token
           /\ Build(ns, s).request.provider = s.platform
           /\ s.platform = "apns" => /\ Build(ns, s).bearer = PushEnv.APNS_BEARER
                                     /\ Build(ns, s).request.topic = OrDefault(PushEnv.APNS_BUNDLE_ID)
           /\ s.platform = "fcm" => /\ Build(ns, s).bearer = PushEnv.FCM_BEARER
                                    /\ Build(ns, s).request.topic = OrDefault(PushEnv.FCM_PROJECT_ID)
  <1>1. /\ Build(ns, s).bearer = Bearer(s.platform)
        /\ Build(ns, s).request = IF s.platform = "apns" THEN ApnsRequest(s.token, ns) ELSE FcmRequest(s.token, ns)
    BY DEF Build
  <1>2. /\ s.platform = "apns" => Bearer(s.platform) = PushEnv.APNS_BEARER
        /\ s.platform = "fcm" => Bearer(s.platform) = PushEnv.FCM_BEARER
    BY DEF Bearer, NonEmpty
  <1>3. CASE s.platform = "apns"
    BY <1>1, <1>2, <1>3 DEF ApnsRequest, PushConfig
  <1>4. CASE s.platform = "fcm"
    BY <1>1, <1>2, <1>4 DEF FcmRequest, PushConfig
  <1> QED BY <1>3, <1>4

\* A subscription is nothing but its platform and its token.
LEMMA SubscriptionIs ==
    ASSUME NEW s \in Subscriptions PROVE s = Subscription(s.platform, s.token)
  <1>1. PICK p \in Phones : \E r \in Requests[p] : s # None /\ s = RegisterSubscription(r)
    BY DEF Subscriptions
  <1>2. \E platform, token : s = Subscription(platform, token)
    BY <1>1 DEF RegisterSubscription
  <1> QED BY <1>2 DEF Subscription

\* Of phones that present their own tokens to a node whose providers are
\* routed to: a wake issued at any moment reaches exactly the phones that were
\* told they are subscribed, each through its own provider, with that
\* provider's credential and route.
THEOREM WakesReachTold == ASSUME OwnTokens, Routed PROVE Spec => []WakesAsTold
  <1>1. ToldInv => WakesAsTold
    <2> SUFFICES ASSUME ToldInv, NEW p \in Phones, NEW ns \in Namespaces,
                        serving[p].pc = "idle", Bearer(Device[p].platform) # None
                 PROVE  ns \in told[p] <=> \E x \in Pushes(ns) :
                            /\ x.request.ns = ns /\ x.request.to = Device[p].token
                            /\ x.request.provider = Device[p].platform
                            /\ IF Device[p].platform = "apns"
                               THEN x.bearer = PushEnv.APNS_BEARER /\ x.request.topic = PushEnv.APNS_BUNDLE_ID
                               ELSE x.bearer = PushEnv.FCM_BEARER /\ x.request.topic = PushEnv.FCM_PROJECT_ID
      BY DEF WakesAsTold
    <2> DEFINE d == Device[p]
    <2>1. ns \in told[p] <=> d \in subs[ns]
      BY DEF ToldInv, Agrees
    <2>2. d.platform \in {"apns", "fcm"}
      BY DEF Routed
    <2>3. /\ d.platform = "apns" => PushEnv.APNS_BUNDLE_ID \notin {None, ""}
          /\ d.platform = "fcm" => PushEnv.FCM_PROJECT_ID \notin {None, ""}
      BY DEF Routed
    <2>4. ~IsNoop
      BY <2>2, <2>3 DEF IsNoop, NonEmpty
    <2>5. ASSUME d \in subs[ns] PROVE Build(ns, d) \in Pushes(ns)
      <3>1. Build(ns, d) # None
        BY RegistryAssumption
      <3> QED BY <2>4, <2>5, <3>1 DEF Pushes, WakeTargets
    <2>6. /\ Build(ns, d).request.ns = ns /\ Build(ns, d).request.to = d.token
          /\ Build(ns, d).request.provider = d.platform
          /\ IF d.platform = "apns"
             THEN Build(ns, d).bearer = PushEnv.APNS_BEARER /\ Build(ns, d).request.topic = PushEnv.APNS_BUNDLE_ID
             ELSE Build(ns, d).bearer = PushEnv.FCM_BEARER /\ Build(ns, d).request.topic = PushEnv.FCM_PROJECT_ID
      <3>1. /\ Build(ns, d).request.ns = ns /\ Build(ns, d).request.to = d.token
            /\ Build(ns, d).request.provider = d.platform
            /\ d.platform = "apns" => /\ Build(ns, d).bearer = PushEnv.APNS_BEARER
                                      /\ Build(ns, d).request.topic = OrDefault(PushEnv.APNS_BUNDLE_ID)
            /\ d.platform = "fcm" => /\ Build(ns, d).bearer = PushEnv.FCM_BEARER
                                     /\ Build(ns, d).request.topic = OrDefault(PushEnv.FCM_PROJECT_ID)
        BY <2>2, PushOf
      <3>2. /\ d.platform = "apns" => OrDefault(PushEnv.APNS_BUNDLE_ID) = PushEnv.APNS_BUNDLE_ID
            /\ d.platform = "fcm" => OrDefault(PushEnv.FCM_PROJECT_ID) = PushEnv.FCM_PROJECT_ID
        BY <2>3 DEF OrDefault
      <3> QED BY <2>2, <3>1, <3>2
    <2>7. ASSUME NEW x \in Pushes(ns), x.request.to = d.token, x.request.provider = d.platform
          PROVE  d \in subs[ns]
      <3>1. PICK s \in subs[ns] : x = Build(ns, s) /\ x # None
        BY <2>4 DEF Pushes, WakeTargets
      <3>2. s \in Subscriptions
        BY DEF ToldInv, TypeInv
      <3>3. Bearer(s.platform) # None
        BY <3>1 DEF Build
      <3>4. s.token = d.token /\ s.platform = d.platform
        BY <2>7, <3>1, <3>2, <3>3, PushOf, SubscriptionKinds
      <3>5. s = Subscription(s.platform, s.token) /\ d = Subscription(d.platform, d.token)
        BY <3>2, SubscriptionIs DEF OwnTokens
      <3>6. s = d
        BY <3>4, <3>5
      <3> QED BY <3>6
    <2> QED BY <2>1, <2>5, <2>6, <2>7
  <1> QED BY <1>1, ToldInit, ToldNext, PTL DEF Spec

=============================================================================
