--------------------------- MODULE RetentionProofs ---------------------------
(***************************************************************************)
(* The release policy over time, for every window, key format and set of   *)
(* records.                                                                *)
(***************************************************************************)
EXTENDS RetentionSweeps, FiniteSetTheorems, TLAPS

\* What is in a replica is typed, and the clock is a number.
ReplicaOK == replica \subseteq Records /\ now \in Nat

LEMMA ReplicaType == Spec => []ReplicaOK
  <1>1. Init => ReplicaOK
    BY DEF Init, ReplicaOK
  <1>2. ReplicaOK /\ [Next]_vars => ReplicaOK'
    BY DEF ReplicaOK, Next, Tick, Arrive, Retire, vars
  <1> QED BY <1>1, <1>2, PTL DEF Spec

\* A step only moves the clock forward.
LEMMA ClockGrows == ReplicaOK /\ [Next]_vars => now' \in Nat /\ now <= now'
  BY DEF ReplicaOK, Next, Tick, Arrive, Retire, vars

\* An expired record stays expired: the cutoff saturates, so it never moves back.
LEMMA ExpiryStable ==
    ASSUME NEW w \in Nat, NEW t \in Nat, NEW u \in Nat, t <= u, IsExpired(w, t)
    PROVE  IsExpired(w, u)
  BY RetentionAssumption DEF IsExpired, Cutoff, SaturatingSub

\* A superseded record stays superseded while no later fix of its author goes.
LEMMA SupersededStable ==
    ASSUME NEW e, Superseded(e, replica), ~Superseded(e, replica')
    PROVE  LaterFixRetired(e)
  BY DEF Superseded, LaterFixRetired

\* A decision of release_decisions is taken back by nothing but the author's
\* own tombstone for a later fix: records that arrive and the clock leave an
\* old reading good, and expiry is final.
THEOREM StableDecisions == Spec => DecisionStable
  <1>1. ReplicaOK /\ [Next]_vars => DecisionsStand
    <2> SUFFICES ASSUME ReplicaOK, [Next]_vars, NEW e \in replica \cap replica',
                        Releasable(e, replica, now), ~Releasable(e, replica', now')
                 PROVE  ~IsExpired(e.written_ms, now) /\ LaterFixRetired(e)
      BY DEF DecisionsStand
    <2>1. e.written_ms \in Nat /\ now \in Nat
      BY RecordsAssumption DEF ReplicaOK
    <2>2. ~IsExpired(e.written_ms, now)
      BY <2>1, ClockGrows, ExpiryStable DEF Releasable
    <2>3. Superseded(e, replica) /\ ~Superseded(e, replica')
      BY <2>2 DEF Releasable
    <2> QED BY <2>2, <2>3, SupersededStable
  <1>2. ReplicaOK /\ [Next]_vars => [DecisionsStand]_vars
    BY <1>1
  <1> QED BY <1>2, ReplicaType, PTL DEF Spec, DecisionStable

\* At most one sequence number of each author is kept, however the author is
\* spelt in the key.
THEOREM OneSeq == Spec => []OneSeqPerAuthor
  <1>1. ReplicaOK => OneSeqPerAuthor
    <2> SUFFICES ASSUME ReplicaOK, NEW e \in Kept, NEW f \in Kept, IsFixKey(e.key), IsFixKey(f.key),
                        FixAuthor(e.key) = FixAuthor(f.key)
                 PROVE  FixSeq(e.key) = FixSeq(f.key)
      BY DEF OneSeqPerAuthor
    <2>1. e \in replica /\ f \in replica /\ ~Superseded(e, replica) /\ ~Superseded(f, replica)
      BY DEF Kept, Releasable
    <2>2. ~(FixSeq(e.key) < FixSeq(f.key)) /\ ~(FixSeq(f.key) < FixSeq(e.key))
      BY <2>1 DEF Superseded
    <2>3. FixSeq(e.key) \in Nat /\ FixSeq(f.key) \in Nat
      BY <2>1, RecordsAssumption DEF ReplicaOK, FixSeq
    <2> QED BY <2>2, <2>3
  <1> QED BY <1>1, ReplicaType, PTL

\* The latest fix of an author survives for as long as it is in the window.
THEOREM LatestKept == Spec => []LatestSurvives
  <1>1. ReplicaOK => LatestSurvives
    <2> SUFFICES ASSUME ReplicaOK, NEW e \in replica, IsFixKey(e.key), e.written_ms + RetentionMs >= now,
                        \A f \in replica : IsFixKey(f.key) /\ FixAuthor(f.key) = FixAuthor(e.key)
                                              => FixSeq(f.key) <= FixSeq(e.key)
                 PROVE  e \in Kept
      BY DEF LatestSurvives
    <2>1. \A f \in replica : f.written_ms \in Nat /\ FixSeq(f.key) \in Nat
      BY RecordsAssumption DEF ReplicaOK, FixSeq
    <2>2. ~Superseded(e, replica)
      BY <2>1 DEF Superseded
    <2>3. ~IsExpired(e.written_ms, now)
      BY <2>1, RetentionAssumption DEF IsExpired, Cutoff, SaturatingSub, ReplicaOK
    <2> QED BY <2>2, <2>3 DEF Kept, Releasable
  <1> QED BY <1>1, ReplicaType, PTL

(***************************************************************************)
(* The fold of latest_by_author, over a stream of any length.              *)
(***************************************************************************)
Streams == INSTANCE DataInduction WITH Op <- LAMBDA ctx, latest, e : Bump(latest, e), Base <- <<>>

\* The stream in which the records come has each of them once.
LEMMA StreamHasAll ==
    ASSUME NEW S, IsFiniteSet(S), NEW stream \in SetToSeqs(S)
    PROVE  stream \in Seq(S) /\ \A e \in S : \E i \in 1..Len(stream) : stream[i] = e
  <1> DEFINE n == Cardinality(S)
  <1>1. n \in Nat /\ stream \in [1..n -> S] /\ \A i, j \in 1..n : i # j => stream[i] # stream[j]
    BY FS_CardinalityType DEF SetToSeqs
  <1>2. stream \in Injection(1..n, S)
    BY <1>1 DEF Injection, IsInjective
  <1>3. Cardinality(1..n) = n
    BY <1>1, FS_Interval
  <1>4. stream \in Surjection(1..n, S)
    BY <1>2, <1>3, FS_Injection
  <1>5. \A e \in S : \E i \in 1..n : stream[i] = e
    BY <1>4 DEF Surjection
  <1>6. stream \in Seq(S) /\ Len(stream) = n
    BY <1>1
  <1> QED BY <1>5, <1>6

\* The authors of the fixes among the first k records ..
Authors(stream, k) == {FixAuthor(stream[i].key) : i \in {j \in 1..k : IsFixKey(stream[j].key)}}

\* .. and the highest of their sequence numbers.
Highest(stream, k, a, seq) ==
    /\ \E i \in 1..k : /\ IsFixKey(stream[i].key) /\ FixAuthor(stream[i].key) = a
                       /\ FixSeq(stream[i].key) = seq
    /\ \A i \in 1..k : IsFixKey(stream[i].key) /\ FixAuthor(stream[i].key) = a
                          => FixSeq(stream[i].key) <= seq

LatestOf(stream, k, latest) ==
    /\ DOMAIN latest = Authors(stream, k)
    /\ \A a \in Authors(stream, k) : Highest(stream, k, a, latest[a])

\* One more record: its author has the higher of the two, the others what they had.
LEMMA BumpLatest ==
    ASSUME NEW S, \A e \in S : FixSeq(e.key) \in Nat,
           NEW stream \in Seq(S), NEW k \in Nat, k + 1 \in 1..Len(stream),
           NEW latest, LatestOf(stream, k, latest)
    PROVE  LatestOf(stream, k + 1, Bump(latest, stream[k + 1]))
  <1> DEFINE e == stream[k + 1]
             new == Bump(latest, e)
             a == FixAuthor(e.key)
  <1>1. \A i \in 1..k + 1 : i \in 1..Len(stream) /\ stream[i] \in S /\ FixSeq(stream[i].key) \in Nat
    OBVIOUS
  <1>2. \A i : i \in 1..k + 1 <=> i \in 1..k \/ i = k + 1
    OBVIOUS
  <1>3. CASE ~IsFixKey(e.key)
    <2>1. new = latest
      BY <1>3 DEF Bump
    <2>2. Authors(stream, k + 1) = Authors(stream, k)
      BY <1>2, <1>3 DEF Authors
    <2>3. \A b, seq : Highest(stream, k, b, seq) => Highest(stream, k + 1, b, seq)
      BY <1>2, <1>3 DEF Highest
    <2> QED BY <2>1, <2>2, <2>3 DEF LatestOf
  <1>4. CASE IsFixKey(e.key)
    <2>1. new = [b \in DOMAIN latest \cup {a} |->
                    IF b # a THEN latest[b]
                    ELSE IF a \in DOMAIN latest /\ latest[a] > FixSeq(e.key) THEN latest[a]
                    ELSE FixSeq(e.key)]
      BY <1>4 DEF Bump
    <2>2. Authors(stream, k + 1) = Authors(stream, k) \cup {a}
      BY <1>2, <1>4 DEF Authors
    <2>3. DOMAIN latest = Authors(stream, k) /\ DOMAIN new = Authors(stream, k + 1)
      BY <2>1, <2>2 DEF LatestOf
    <2>4. ASSUME NEW b \in Authors(stream, k + 1), b # a
          PROVE  Highest(stream, k + 1, b, new[b])
      <3>1. b \in Authors(stream, k) /\ new[b] = latest[b] /\ Highest(stream, k, b, latest[b])
        BY <2>1, <2>2, <2>3, <2>4 DEF LatestOf
      <3> QED BY <3>1, <2>4, <1>2 DEF Highest
    <2>5. Highest(stream, k + 1, a, new[a])
      <3>1. CASE a \notin Authors(stream, k)
        <4>1. new[a] = FixSeq(e.key)
          BY <2>1, <2>3, <3>1
        <4>2. \A i \in 1..k : ~(IsFixKey(stream[i].key) /\ FixAuthor(stream[i].key) = a)
          BY <3>1 DEF Authors
        <4>3. FixSeq(e.key) <= FixSeq(e.key)
          BY <1>1
        <4> QED BY <4>1, <4>2, <4>3, <1>2, <1>4 DEF Highest
      <3>2. CASE a \in Authors(stream, k)
        <4>1. Highest(stream, k, a, latest[a])
          BY <3>2 DEF LatestOf
        <4>2. latest[a] \in Nat /\ FixSeq(e.key) \in Nat
          BY <4>1, <1>1, <1>2 DEF Highest
        <4>3. new[a] = IF latest[a] > FixSeq(e.key) THEN latest[a] ELSE FixSeq(e.key)
          BY <2>1, <2>3, <3>2
        <4>4. \A i \in 1..k + 1 : IsFixKey(stream[i].key) /\ FixAuthor(stream[i].key) = a
                                     => FixSeq(stream[i].key) <= new[a]
          <5>1. ASSUME NEW i \in 1..k, IsFixKey(stream[i].key), FixAuthor(stream[i].key) = a
                PROVE  FixSeq(stream[i].key) <= new[a]
            <6>1. FixSeq(stream[i].key) \in Nat /\ FixSeq(stream[i].key) <= latest[a]
              BY <1>1, <1>2, <4>1, <5>1 DEF Highest
            <6> QED BY <6>1, <4>2, <4>3
          <5>2. FixSeq(e.key) <= new[a]
            BY <4>2, <4>3
          <5> QED BY <1>2, <5>1, <5>2
        <4>5. \E i \in 1..k + 1 : /\ IsFixKey(stream[i].key) /\ FixAuthor(stream[i].key) = a
                                  /\ FixSeq(stream[i].key) = new[a]
          BY <1>2, <1>4, <4>1, <4>2, <4>3 DEF Highest
        <4> QED BY <4>4, <4>5 DEF Highest
      <3> QED BY <3>1, <3>2
    <2> QED BY <2>3, <2>4, <2>5 DEF LatestOf
  <1> QED BY <1>3, <1>4

\* What the fold returns is the highest sequence number of each author.
LEMMA LatestFold ==
    ASSUME NEW S, \A e \in S : FixSeq(e.key) \in Nat, NEW stream \in Seq(S)
    PROVE  LatestOf(stream, Len(stream), LatestByAuthor(stream))
  <1>1. LatestByAuthor(stream) = Streams!Fold({}, stream)
    BY DEF LatestByAuthor, FoldLeft, MapThenFoldSet, Max,
           Streams!Fold, Streams!FoldLeft, Streams!MapThenFoldSet, Streams!Max
  <1>2. PICK F : /\ F[0] = <<>>
                 /\ \A k \in 1..Len(stream) : F[k] = Bump(F[k - 1], stream[k])
                 /\ F[Len(stream)] = LatestByAuthor(stream)
    BY <1>1, Streams!FoldSteps
  <1> DEFINE T == {k \in Nat : LatestOf(stream, k, F[k])}
  <1>3. 0 \in T
    <2>1. DOMAIN F[0] = {} /\ Authors(stream, 0) = {}
      BY <1>2 DEF Authors
    <2> QED BY <2>1 DEF LatestOf
  <1>4. ASSUME NEW k \in 0..Len(stream), k \in T, k + 1 \in 0..Len(stream) PROVE k + 1 \in T
    <2>1. k + 1 \in 1..Len(stream) /\ (k + 1) - 1 = k /\ k \in Nat /\ k + 1 \in Nat
      BY <1>4
    <2>2. F[k + 1] = Bump(F[k], stream[k + 1])
      BY <1>2, <2>1
    <2> QED BY <1>4, <2>1, <2>2, BumpLatest
  <1>5. 0..Len(stream) \subseteq T
    <2> HIDE DEF T
    <2>1. Len(stream) \in Nat
      OBVIOUS
    <2> QED BY <1>3, <1>4, <2>1, Streams!BoundedInduction
  <1>6. Len(stream) \in T
    BY <1>5
  <1> QED BY <1>2, <1>6

\* Records come and go one by one.
LEMMA ReplicaFinite == Spec => []IsFiniteSet(replica)
  <1>1. Init => IsFiniteSet(replica)
    BY FS_EmptySet DEF Init
  <1>2. IsFiniteSet(replica) /\ [Next]_vars => IsFiniteSet(replica)'
    <2>1. ASSUME IsFiniteSet(replica), NEW e PROVE IsFiniteSet(replica \cup {e})
      BY <2>1, FS_AddElement
    <2>2. ASSUME IsFiniteSet(replica), NEW e PROVE IsFiniteSet(replica \ {e})
      BY <2>2, FS_RemoveElement
    <2> QED BY <2>1, <2>2 DEF Next, Tick, Arrive, Retire, vars
  <1> QED BY <1>1, <1>2, PTL DEF Spec

\* In whatever order the docs engine streams a namespace, the fold of
\* latest_by_author supersedes the same records, those with a later fix of
\* their author; and it has an entry for every author it is asked about.
THEOREM AnyOrder == Spec => []StreamOrderIrrelevant
  <1>1. ReplicaOK /\ IsFiniteSet(replica) => StreamOrderIrrelevant
    <2> SUFFICES ASSUME ReplicaOK, IsFiniteSet(replica),
                        NEW stream \in SetToSeqs(replica), NEW e \in replica, IsFixKey(e.key)
                 PROVE  SupersededIn(e, stream) <=> Superseded(e, replica)
      BY DEF StreamOrderIrrelevant, SupersededIn, Superseded
    <2> DEFINE n == Len(stream)
               a == FixAuthor(e.key)
               latest == LatestByAuthor(stream)
    <2>1. \A f \in replica : FixSeq(f.key) \in Nat
      BY RecordsAssumption DEF ReplicaOK, FixSeq
    <2>2. stream \in Seq(replica) /\ \A f \in replica : \E i \in 1..n : stream[i] = f
      BY StreamHasAll
    <2>3. LatestOf(stream, n, latest)
      BY <2>1, <2>2, LatestFold
    <2>4. \A i \in 1..n : stream[i] \in replica
      BY <2>2
    <2>5. a \in Authors(stream, n)
      BY <2>2 DEF Authors
    <2>6. Highest(stream, n, a, latest[a])
      BY <2>3, <2>5 DEF LatestOf
    <2>7. latest[a] \in Nat
      BY <2>1, <2>4, <2>6 DEF Highest
    <2>8. SupersededIn(e, stream) <=> FixSeq(e.key) < latest[a]
      BY DEF SupersededIn
    <2>9. FixSeq(e.key) < latest[a] => Superseded(e, replica)
      BY <2>4, <2>6 DEF Highest, Superseded
    <2>10. ASSUME Superseded(e, replica) PROVE FixSeq(e.key) < latest[a]
      <3>1. PICK f \in replica : IsFixKey(f.key) /\ FixAuthor(f.key) = a /\ FixSeq(e.key) < FixSeq(f.key)
        BY <2>10 DEF Superseded
      <3>2. FixSeq(f.key) <= latest[a]
        BY <2>2, <2>6, <3>1 DEF Highest
      <3> QED BY <2>1, <2>7, <3>1, <3>2
    <2> QED BY <2>8, <2>9, <2>10
  <1> QED BY <1>1, ReplicaType, ReplicaFinite, PTL

=============================================================================
