-------------------------- MODULE SettleTimesProofs --------------------------
(***************************************************************************)
(* Theorems about SettleTimes, for any number of entries and peers, any    *)
(* intervals, timeouts and backoffs, and any horizon.                      *)
(***************************************************************************)
EXTENDS SettleTimes, TLAPS, FiniteSetTheorems

(***************************************************************************)
(* The loop in time.                                                       *)
(***************************************************************************)
Cost(n) == n * FETCH_TIMEOUT
Pass    == Cost(Cardinality(Hashes))     \* a pass over every entry

Pending == pass.pc \in {"fetch", "there", "missing"}

TimesType ==
    /\ clock \in Nat /\ ticker \in Nat
    /\ awake \in [Peers -> Nat \cup {None}]
    /\ tracked \in [Hashes -> TrackedEntry \cup {None}]
    /\ stored \in [Hashes -> Nat \cup {None}]
    /\ announced \subseteq Hashes
    /\ pass \in [pc : {"idle", "pass", "fetch", "there", "missing", "wake"}, now : Nat, todo : SUBSET Hashes,
                 item : Hashes \cup {None}, since : Nat, wake : SUBSET Hashes]

\* Nothing is dated later than now, but for the next attempt.
Dated ==
    /\ \A p \in Peers : awake[p] # None => awake[p] <= clock
    /\ \A h \in Hashes : stored[h] # None => h \in Tracked /\ stored[h] <= clock
    /\ \A h \in Tracked : tracked[h].first_seen <= clock /\ tracked[h].next_attempt <= clock + CEILING

\* What a pass is about to handle is outstanding; what is present was woken
\* for; and a wake that is owed is one of the pass under way.
Shape ==
    /\ pass.pc = "idle" => pass.wake = {}
    /\ pass.pc \in {"idle", "wake"} => pass.todo = {}
    /\ pass.todo \subseteq Outstanding
    /\ Pending => pass.item \in Outstanding \ pass.todo
    /\ pass.pc = "there" => stored[pass.item] # None
    /\ \A h \in Tracked : /\ tracked[h].content_present => tracked[h].woken /\ stored[h] # None
                          /\ tracked[h].woken /\ h \notin announced => h \in pass.wake

\* A pass has one timeout for each entry it has still to handle; the tick
\* after it is due one interval after its start at the latest.
Budget ==
    /\ ticker <= clock + SETTLE_INTERVAL
    /\ pass.pc # "idle" => pass.now <= clock /\ ticker <= pass.now + SETTLE_INTERVAL
    /\ pass.pc \in {"pass", "there", "missing", "wake"} => clock + Cost(Cardinality(pass.todo)) <= pass.now + Pass
    /\ pass.pc = "fetch" => /\ pass.now <= pass.since /\ pass.since <= clock
                            /\ clock <= pass.since + FETCH_TIMEOUT
                            /\ pass.since + FETCH_TIMEOUT + Cost(Cardinality(pass.todo)) <= pass.now + Pass

TimesInv == TimesType /\ Dated /\ Shape /\ Budget

(***************************************************************************)
(* The three deadlines.                                                    *)
(***************************************************************************)
\* An idle loop is not late for an entry that matters since `when`, with
\* `slack`; one in a pass has it still before it, or began before it was late.
OnTime(when, slack, ahead) ==
    IF pass.pc = "idle"
    THEN clock <= when + slack + Pass + SETTLE_INTERVAL /\ ticker <= when + slack + Pass + SETTLE_INTERVAL
    ELSE \/ pass.now <= when + slack
         \/ pass.now <= when + slack + Pass + SETTLE_INTERVAL /\ ahead

WokenOnTime ==
    \A h \in Tracked \ announced :
        OnTime(tracked[h].first_seen, WAKE_FALLBACK,
               h \in pass.todo \cup pass.wake \/ (Pending /\ h = pass.item))

UsedOnTime ==
    \A h \in Tracked :
        stored[h] # None /\ (h \in Outstanding \/ h \notin announced)
            => OnTime(Later(stored[h], tracked[h].first_seen), 0,
                      \/ h \in pass.todo
                      \/ h = pass.item /\ pass.pc = "there"
                      \/ h \in pass.wake /\ h \notin Outstanding)

Since(h, p) == Later(awake[p], tracked[h].first_seen)

FetchedOnTime ==
    \A h \in Tracked, p \in Peers :
        stored[h] = None /\ p \in Sources(h) /\ awake[p] # None
            => /\ tracked[h].next_attempt <= Since(h, p) + CEILING
               /\ pass.pc = "missing" /\ pass.item = h /\ Due(h) => pass.now <= Since(h, p)
               /\ OnTime(Since(h, p), CEILING, h \in pass.todo \/ (h = pass.item /\ pass.pc = "fetch"))

(***************************************************************************)
(* Arithmetic.                                                             *)
(***************************************************************************)
LEMMA CostOf ==
    /\ Cost(0) = 0
    /\ \A n \in Nat : Cost(n) \in Nat /\ Cost(n + 1) = Cost(n) + FETCH_TIMEOUT
    /\ \A m, n \in Nat : m <= n => Cost(m) <= Cost(n)
  <1>1. FETCH_TIMEOUT \in Nat
    BY SettleAssumption
  <1>2. \A n \in Nat : Cost(n) \in Nat /\ Cost(n + 1) = Cost(n) + FETCH_TIMEOUT
    BY <1>1 DEF Cost
  <1>3. ASSUME NEW m \in Nat, NEW n \in Nat, m <= n PROVE Cost(m) <= Cost(n)
    BY <1>1, <1>3 DEF Cost
  <1>4. Cost(0) = 0
    BY <1>1 DEF Cost
  <1> QED BY <1>2, <1>3, <1>4

\* The cost of what is still to be handled.
LEMMA CostOfSet ==
    ASSUME NEW S \in SUBSET Hashes
    PROVE  /\ Cost(Cardinality(S)) \in Nat /\ Cost(Cardinality(S)) <= Pass
           /\ \A h \in S : Cost(Cardinality(S)) = Cost(Cardinality(S \ {h})) + FETCH_TIMEOUT
  <1>1. IsFiniteSet(Hashes) /\ Cardinality(Hashes) \in Nat
    BY SettleAssumption, FS_CardinalityType
  <1>2. IsFiniteSet(S) /\ Cardinality(S) \in Nat /\ Cardinality(S) <= Cardinality(Hashes)
    BY <1>1, FS_Subset, FS_CardinalityType
  <1>3. ASSUME NEW h \in S PROVE Cost(Cardinality(S)) = Cost(Cardinality(S \ {h})) + FETCH_TIMEOUT
    <2>1. IsFiniteSet(S \ {h}) /\ Cardinality(S \ {h}) \in Nat
      BY <1>2, FS_Subset, FS_CardinalityType
    <2>2. Cardinality(S) = Cardinality(S \ {h}) + 1
      BY <1>2, <2>1, FS_RemoveElement
    <2> QED BY <2>1, <2>2, CostOf
  <1> QED BY <1>1, <1>2, <1>3, CostOf DEF Pass

LEMMA Constants ==
    /\ Pass \in Nat /\ TwoPasses = Pass + Pass + SETTLE_INTERVAL
    /\ SETTLE_INTERVAL \in Nat /\ FETCH_TIMEOUT \in Nat /\ WAKE_FALLBACK \in Nat /\ CEILING \in Nat
  <1>1. Cardinality(Hashes) \in Nat /\ FETCH_TIMEOUT \in Nat /\ SETTLE_INTERVAL \in Nat
    BY SettleAssumption, FS_CardinalityType
  <1>2. Pass \in Nat
    BY <1>1, CostOf DEF Pass
  <1>3. \A n, t \in Nat : 2 * n * t = n * t + n * t
    OBVIOUS
  <1>4. 2 * Cardinality(Hashes) * FETCH_TIMEOUT = Pass + Pass
    BY <1>1, <1>3 DEF Pass, Cost
  <1> QED BY <1>1, <1>2, <1>4, SettleAssumption DEF TwoPasses

LEMMA BackoffBound ==
    ASSUME NEW n \in Nat
    PROVE  Backoff(n) \in Nat /\ Backoff(n) <= CEILING
  <1>1. BASE \in Nat /\ CEILING \in Nat /\ MaxShift \in Nat
    BY SettleAssumption
  <1>2. Least(n, MaxShift) \in 0..MaxShift
    BY <1>1 DEF Least
  <1>3. 2^Least(n, MaxShift) \in Nat
    BY <1>2, SettleAssumption
  <1>4. BASE * 2^Least(n, MaxShift) \in Nat
    BY <1>1, <1>3
  <1> QED BY <1>1, <1>4 DEF Backoff, Least

(***************************************************************************)
(* The invariant of the loop.                                              *)
(***************************************************************************)
\* Steps of the outside leave the pass alone, and the tick.
LEMMA WakesUpTimes ==
    ASSUME TimesInv, NEW p \in Peers, WakesUp(p) \/ FallsAsleep(p) PROVE TimesInv'
  <1>1. /\ UNCHANGED <<clock, tracked, stored, ticker, pass, announced>>
        /\ awake' = [awake EXCEPT ![p] = clock] \/ awake' = [awake EXCEPT ![p] = None]
    BY DEF WakesUp, FallsAsleep
  <1>2. TimesType' /\ \A q \in Peers : awake'[q] = awake[q] \/ awake'[q] = clock \/ awake'[q] = None
    BY <1>1 DEF TimesInv, TimesType
  <1>3. Dated'
    BY <1>1, <1>2 DEF TimesInv, TimesType, Dated, Tracked
  <1>4. Shape' /\ Budget'
    BY <1>1 DEF TimesInv, Shape, Budget, Pending, Tracked, Outstanding
  <1> QED BY <1>2, <1>3, <1>4 DEF TimesInv

\* A fresh entry.
Fresh == [first_seen |-> clock, content_present |-> FALSE, woken |-> FALSE, next_attempt |-> 0, attempts |-> 0]

LEMMA TrackMoves ==
    ASSUME TimesInv, NEW h \in Hashes, Track(h)
    PROVE  /\ UNCHANGED <<clock, awake, stored, ticker, pass, announced>>
           /\ tracked[h] = None /\ stored[h] = None
           /\ tracked' \in [Hashes -> TrackedEntry \cup {None}]
           /\ tracked'[h] = Fresh /\ tracked'[h] # None
           /\ \A g \in Hashes \ {h} : tracked'[g] = tracked[g]
           /\ Tracked' = Tracked \cup {h} /\ Outstanding' = Outstanding \cup {h}
  <1>1. /\ UNCHANGED <<clock, awake, stored, ticker, pass, announced>>
        /\ tracked[h] = None /\ stored[h] = None
        /\ tracked' = [tracked EXCEPT ![h] = Fresh]
    BY DEF Track, Fresh
  <1>2. clock \in Nat /\ tracked \in [Hashes -> TrackedEntry \cup {None}]
    BY DEF TimesInv, TimesType
  <1>3. Fresh \in TrackedEntry
    BY <1>2 DEF Fresh, TrackedEntry
  <1>4. Fresh # None
    BY <1>3, SettleAssumption
  <1>5. PICK f \in TrackedEntry : f = Fresh
    BY <1>3
  <1>6. tracked' = [tracked EXCEPT ![h] = f]
    BY <1>1, <1>5
  <1>7. /\ tracked' \in [Hashes -> TrackedEntry \cup {None}]
        /\ tracked'[h] = f /\ \A g \in Hashes \ {h} : tracked'[g] = tracked[g]
    BY <1>2, <1>6
  <1>8. ~Fresh.content_present
    BY DEF Fresh
  <1>9. Tracked' = Tracked \cup {h}
    BY <1>1, <1>4, <1>5, <1>7 DEF Tracked
  <1>10. Outstanding' = Outstanding \cup {h}
    BY <1>5, <1>7, <1>8, <1>9 DEF Outstanding, Tracked
  <1> QED BY <1>1, <1>4, <1>5, <1>7, <1>9, <1>10

LEMMA TrackTimes ==
    ASSUME TimesInv, NEW h \in Hashes, Track(h) PROVE TimesInv'
  <1>1. /\ UNCHANGED <<clock, awake, stored, ticker, pass, announced>>
        /\ tracked[h] = None /\ stored[h] = None
        /\ tracked' \in [Hashes -> TrackedEntry \cup {None}]
        /\ tracked'[h] = Fresh
        /\ \A g \in Hashes \ {h} : tracked'[g] = tracked[g]
        /\ Tracked' = Tracked \cup {h} /\ Outstanding' = Outstanding \cup {h}
        /\ h \notin Tracked
    BY TrackMoves DEF Tracked
  <1>2. TimesType'
    BY <1>1 DEF TimesInv, TimesType
  <1>3. Tracked \subseteq Hashes /\ clock \in Nat /\ CEILING \in Nat
    BY Constants DEF Tracked, TimesInv, TimesType
  <1>4. /\ tracked'[h].first_seen = clock /\ tracked'[h].next_attempt = 0
        /\ tracked'[h].content_present = FALSE /\ tracked'[h].woken = FALSE
    BY <1>1 DEF Fresh
  <1>5. Dated'
    BY <1>1, <1>3, <1>4 DEF TimesInv, Dated
  <1>6. Shape'
    BY <1>1, <1>3, <1>4 DEF TimesInv, Shape, Pending
  <1>7. Budget'
    BY <1>1 DEF TimesInv, Budget
  <1> QED BY <1>2, <1>5, <1>6, <1>7 DEF TimesInv

LEMMA ArriveTimes ==
    ASSUME TimesInv, NEW h \in Hashes, Arrive(h) PROVE TimesInv'
  <1>1. /\ UNCHANGED <<clock, awake, tracked, ticker, pass, announced>>
        /\ h \in Tracked /\ stored' = [stored EXCEPT ![h] = clock]
    BY DEF Arrive
  <1>2. TimesType' /\ stored'[h] = clock /\ \A g \in Hashes \ {h} : stored'[g] = stored[g]
    BY <1>1 DEF TimesInv, TimesType
  <1>3. clock # None /\ clock \in Nat
    BY SettleAssumption DEF TimesInv, TimesType
  <1>4. Tracked' = Tracked /\ Outstanding' = Outstanding /\ Tracked \subseteq Hashes
    BY <1>1 DEF Tracked, Outstanding
  <1>5. Dated'
    BY <1>1, <1>2, <1>3, <1>4 DEF TimesInv, Dated
  <1>6. Shape'
    BY <1>1, <1>2, <1>3, <1>4 DEF TimesInv, TimesType, Shape, Pending, Outstanding
  <1>7. Budget'
    BY <1>1 DEF TimesInv, Budget
  <1> QED BY <1>2, <1>5, <1>6, <1>7 DEF TimesInv

LEMMA TickTimes ==
    ASSUME TimesInv, Tick PROVE TimesInv'
  <1>1. UNCHANGED <<awake, tracked, stored, ticker, pass, announced>> /\ clock' = clock + 1 /\ Waiting
    BY DEF Tick
  <1>2. TimesType' /\ clock \in Nat /\ ticker \in Nat
    BY <1>1 DEF TimesInv, TimesType
  <1>3. Tracked' = Tracked /\ Outstanding' = Outstanding /\ Tracked \subseteq Hashes
    BY <1>1 DEF Tracked, Outstanding
  <1>4. Dated'
    <2>1. \A p \in Peers : awake[p] # None => awake[p] \in Nat
      BY DEF TimesInv, TimesType
    <2>2. \A h \in Hashes : stored[h] # None => stored[h] \in Nat
      BY DEF TimesInv, TimesType
    <2>3. \A h \in Tracked : tracked[h].first_seen \in Nat /\ tracked[h].next_attempt \in Nat
      BY DEF TimesInv, TimesType, Tracked, TrackedEntry
    <2> QED BY <1>1, <1>2, <1>3, <2>1, <2>2, <2>3, Constants DEF TimesInv, Dated
  <1>5. Shape'
    BY <1>1, <1>3 DEF TimesInv, Shape, Pending
  <1>6. Budget'
    <2>1. pass.now \in Nat /\ pass.since \in Nat
      BY DEF TimesInv, TimesType
    <2>2. CASE pass.pc = "idle"
      BY <1>1, <1>2, <2>2, Constants DEF TimesInv, Budget
    <2>3. CASE pass.pc # "idle"
      <3>1. pass.pc = "fetch" /\ clock < pass.since + FETCH_TIMEOUT
        BY <1>1, <2>3 DEF Waiting, Deadline
      <3> QED BY <1>1, <1>2, <2>1, <3>1, Constants DEF TimesInv, Budget
    <2> QED BY <2>2, <2>3
  <1> QED BY <1>2, <1>4, <1>5, <1>6 DEF TimesInv

LEMMA PassStartMoves ==
    ASSUME TimesInv, PassStart
    PROVE  /\ UNCHANGED <<clock, awake, tracked, stored, announced>>
           /\ pass.pc = "idle" /\ clock >= ticker /\ ticker' = ticker + SETTLE_INTERVAL
           /\ Tracked' = Tracked /\ Outstanding' = Outstanding
           /\ TimesType'
           /\ pass'.wake = {}
           /\ Outstanding = {} => pass'.pc = "idle" /\ pass'.todo = {}
           /\ Outstanding # {} => pass'.pc = "pass" /\ pass'.now = clock /\ pass'.todo = Outstanding
  <1>1. /\ UNCHANGED <<clock, awake, tracked, stored, announced>>
        /\ pass.pc = "idle" /\ clock >= ticker /\ ticker' = ticker + SETTLE_INTERVAL
        /\ pass' = IF Outstanding = {} THEN Resting
                   ELSE [Resting EXCEPT !.pc = "pass", !.now = clock, !.todo = Outstanding]
    BY DEF PassStart
  <1>2. Tracked' = Tracked /\ Outstanding' = Outstanding /\ Outstanding \subseteq Hashes
    BY <1>1 DEF Tracked, Outstanding
  <1>3. clock \in Nat /\ ticker \in Nat /\ SETTLE_INTERVAL \in Nat
    BY Constants DEF TimesInv, TimesType
  <1>4. /\ Outstanding = {} => pass' = Resting
        /\ Outstanding # {} => pass' \in [pc : {"pass"}, now : {clock}, todo : {Outstanding},
                                          item : {None}, since : {0}, wake : {{}}]
    <2>1. ASSUME NEW t, NEW S
          PROVE  [Resting EXCEPT !.pc = "pass", !.now = t, !.todo = S]
                     \in [pc : {"pass"}, now : {t}, todo : {S}, item : {None}, since : {0}, wake : {{}}]
      BY DEF Resting
    <2> QED BY <1>1, <2>1
  <1>5. pass' \in [pc : {"idle", "pass", "fetch", "there", "missing", "wake"}, now : Nat, todo : SUBSET Hashes,
                   item : Hashes \cup {None}, since : Nat, wake : SUBSET Hashes]
    BY <1>2, <1>3, <1>4 DEF Resting
  <1>6. TimesType'
    BY <1>1, <1>3, <1>5 DEF TimesInv, TimesType
  <1>7. /\ pass'.wake = {}
        /\ Outstanding = {} => pass'.pc = "idle" /\ pass'.todo = {}
        /\ Outstanding # {} => pass'.pc = "pass" /\ pass'.now = clock /\ pass'.todo = Outstanding
    BY <1>4 DEF Resting
  <1> QED BY <1>1, <1>2, <1>6, <1>7

LEMMA PassStartTimes ==
    ASSUME TimesInv, PassStart PROVE TimesInv'
  <1>1. /\ UNCHANGED <<clock, awake, tracked, stored, announced>>
        /\ pass.pc = "idle" /\ clock >= ticker /\ ticker' = ticker + SETTLE_INTERVAL
        /\ Tracked' = Tracked /\ Outstanding' = Outstanding
        /\ TimesType'
        /\ pass'.wake = {}
        /\ Outstanding = {} => pass'.pc = "idle" /\ pass'.todo = {}
        /\ Outstanding # {} => pass'.pc = "pass" /\ pass'.now = clock /\ pass'.todo = Outstanding
    BY PassStartMoves
  <1>2. Outstanding \subseteq Hashes /\ clock \in Nat /\ ticker \in Nat
    BY DEF Tracked, Outstanding, TimesInv, TimesType
  <1>3. Dated'
    BY <1>1 DEF TimesInv, Dated
  <1>4. Shape'
    BY <1>1 DEF TimesInv, Shape, Pending
  <1>5. Budget'
    <2>1. Cost(Cardinality(Outstanding)) \in Nat /\ Cost(Cardinality(Outstanding)) <= Pass
      BY <1>2, CostOfSet
    <2>2. CASE Outstanding = {}
      BY <1>1, <1>2, <2>2, Constants DEF Budget
    <2>3. CASE Outstanding # {}
      BY <1>1, <1>2, <2>1, <2>3, Constants DEF Budget
    <2> QED BY <2>2, <2>3
  <1> QED BY <1>1, <1>3, <1>4, <1>5 DEF TimesInv

LEMMA ProbeMoves ==
    ASSUME TimesInv, NEW h \in Hashes, Probe(h)
    PROVE  /\ UNCHANGED <<clock, awake, tracked, stored, ticker, announced>>
           /\ Tracked' = Tracked /\ Outstanding' = Outstanding
           /\ pass.pc = "pass" /\ h \in pass.todo
           /\ TimesType'
           /\ pass'.now = pass.now /\ pass'.todo = pass.todo \ {h} /\ pass'.item = h
           /\ pass'.since = clock /\ pass'.wake = pass.wake
           /\ stored[h] # None => pass'.pc = "there"
           /\ stored[h] = None => pass'.pc = IF Due(h) THEN "fetch" ELSE "missing"
  <1>1. /\ UNCHANGED <<clock, awake, tracked, stored, ticker, announced>>
        /\ pass.pc = "pass" /\ h \in pass.todo
        /\ \E pc \in {"there", "fetch", "missing"} :
              /\ pass' = [pass EXCEPT !.pc = pc, !.item = h, !.todo = @ \ {h}, !.since = clock]
              /\ stored[h] # None => pc = "there"
              /\ stored[h] = None => pc = IF Due(h) THEN "fetch" ELSE "missing"
    BY DEF Probe, Has
  <1>2. PICK pc \in {"there", "fetch", "missing"} :
              /\ pass' = [pass EXCEPT !.pc = pc, !.item = h, !.todo = @ \ {h}, !.since = clock]
              /\ stored[h] # None => pc = "there"
              /\ stored[h] = None => pc = IF Due(h) THEN "fetch" ELSE "missing"
    BY <1>1
  <1>3. Tracked' = Tracked /\ Outstanding' = Outstanding
    BY <1>1 DEF Tracked, Outstanding
  <1>4. /\ pass \in [pc : {"idle", "pass", "fetch", "there", "missing", "wake"}, now : Nat, todo : SUBSET Hashes,
                     item : Hashes \cup {None}, since : Nat, wake : SUBSET Hashes]
        /\ clock \in Nat
    BY DEF TimesInv, TimesType
  <1>5. /\ pass' = [pc |-> pc, now |-> pass.now, todo |-> pass.todo \ {h}, item |-> h, since |-> clock,
                    wake |-> pass.wake]
    BY <1>2, <1>4
  <1>6. TimesType'
    BY <1>1, <1>4, <1>5 DEF TimesInv, TimesType
  <1> QED BY <1>1, <1>2, <1>3, <1>5, <1>6

LEMMA ProbeTimes ==
    ASSUME TimesInv, NEW h \in Hashes, Probe(h) PROVE TimesInv'
  <1>1. /\ UNCHANGED <<clock, awake, tracked, stored, ticker, announced>>
        /\ Tracked' = Tracked /\ Outstanding' = Outstanding
        /\ pass.pc = "pass" /\ h \in pass.todo
        /\ TimesType'
        /\ pass'.now = pass.now /\ pass'.todo = pass.todo \ {h} /\ pass'.item = h
        /\ pass'.since = clock /\ pass'.wake = pass.wake
        /\ pass'.pc \in {"there", "fetch", "missing"} /\ (pass'.pc = "there" => stored[h] # None)
    BY ProbeMoves
  <1>2. Dated'
    BY <1>1 DEF TimesInv, Dated
  <1>3. Shape'
    BY <1>1 DEF TimesInv, Shape, Pending
  <1>4. Budget'
    <2>1. clock \in Nat /\ pass.now \in Nat /\ ticker \in Nat /\ pass.todo \in SUBSET Hashes
      BY DEF TimesInv, TimesType
    <2>2. /\ Cost(Cardinality(pass.todo)) = Cost(Cardinality(pass'.todo)) + FETCH_TIMEOUT
          /\ Cost(Cardinality(pass'.todo)) \in Nat
      <3>1. PICK S \in SUBSET Hashes : S = pass.todo
        BY <2>1
      <3>2. Cost(Cardinality(S)) = Cost(Cardinality(S \ {h})) + FETCH_TIMEOUT /\ Cost(Cardinality(S \ {h})) \in Nat
        BY <1>1, <3>1, CostOfSet
      <3> QED BY <1>1, <3>1, <3>2
    <2>3. clock + Cost(Cardinality(pass.todo)) <= pass.now + Pass
      BY <1>1 DEF TimesInv, Budget
    <2> QED BY <1>1, <2>1, <2>2, <2>3, Constants DEF TimesInv, Budget
  <1> QED BY <1>1, <1>2, <1>3, <1>4 DEF TimesInv

\* A fetch ends.
LEMMA FetchMoves ==
    ASSUME TimesInv, FetchOk \/ FetchFails
    PROVE  /\ UNCHANGED <<clock, awake, tracked, ticker, announced>>
           /\ Tracked' = Tracked /\ Outstanding' = Outstanding
           /\ pass.pc = "fetch" /\ pass.item \in Hashes
           /\ TimesType'
           /\ pass'.now = pass.now /\ pass'.todo = pass.todo /\ pass'.item = pass.item /\ pass'.wake = pass.wake
           /\ FetchOk => /\ pass'.pc = "there"
                         /\ \A h \in Hashes : stored'[h] = IF h = pass.item /\ stored[h] = None THEN clock ELSE stored[h]
           /\ FetchFails => pass'.pc = "missing" /\ UNCHANGED stored
  <1>1. /\ UNCHANGED <<clock, awake, tracked, ticker, announced>> /\ pass.pc = "fetch"
        /\ \/ /\ pass' = [pass EXCEPT !.pc = "there"]
              /\ stored' = [stored EXCEPT ![pass.item] = IF @ = None THEN clock ELSE @]
           \/ pass' = [pass EXCEPT !.pc = "missing"] /\ UNCHANGED stored
    BY DEF FetchOk, FetchFails
  <1>2. Tracked' = Tracked /\ Outstanding' = Outstanding
    BY <1>1 DEF Tracked, Outstanding
  <1>3. pass.item \in Hashes
    BY <1>1 DEF TimesInv, Shape, Pending, Outstanding, Tracked
  <1>4. /\ pass \in [pc : {"idle", "pass", "fetch", "there", "missing", "wake"}, now : Nat, todo : SUBSET Hashes,
                     item : Hashes \cup {None}, since : Nat, wake : SUBSET Hashes]
        /\ clock \in Nat /\ stored \in [Hashes -> Nat \cup {None}]
    BY DEF TimesInv, TimesType
  <1>5. /\ pass' \in [pc : {"idle", "pass", "fetch", "there", "missing", "wake"}, now : Nat, todo : SUBSET Hashes,
                      item : Hashes \cup {None}, since : Nat, wake : SUBSET Hashes]
        /\ pass'.now = pass.now /\ pass'.todo = pass.todo /\ pass'.item = pass.item /\ pass'.wake = pass.wake
    BY <1>1, <1>4
  <1>6. PICK i \in Hashes : i = pass.item
    BY <1>3
  <1>7. stored' \in [Hashes -> Nat \cup {None}]
    BY <1>1, <1>4, <1>6
  <1>8. FetchOk => /\ pass'.pc = "there"
                   /\ \A h \in Hashes : stored'[h] = IF h = pass.item /\ stored[h] = None THEN clock ELSE stored[h]
    BY <1>4, <1>6 DEF FetchOk
  <1>9. FetchFails => pass'.pc = "missing" /\ UNCHANGED stored
    BY <1>4 DEF FetchFails
  <1>10. TimesType'
    BY <1>1, <1>5, <1>7 DEF TimesInv, TimesType
  <1> QED BY <1>1, <1>2, <1>3, <1>5, <1>8, <1>9, <1>10

LEMMA FetchTimes ==
    ASSUME TimesInv, FetchOk \/ FetchFails PROVE TimesInv'
  <1>1. /\ UNCHANGED <<clock, awake, tracked, ticker, announced>>
        /\ Tracked' = Tracked /\ Outstanding' = Outstanding
        /\ pass.pc = "fetch" /\ pass.item \in Hashes
        /\ TimesType'
        /\ pass'.now = pass.now /\ pass'.todo = pass.todo /\ pass'.item = pass.item /\ pass'.wake = pass.wake
        /\ pass'.pc \in {"there", "missing"}
        /\ \A h \in Hashes : stored'[h] = stored[h] \/ (h = pass.item /\ stored'[h] = clock)
        /\ pass'.pc = "there" => stored'[pass.item] # None
    <2>1. clock # None
      BY SettleAssumption DEF TimesInv, TimesType
    <2> QED BY <2>1, FetchMoves
  <1>2. clock # None /\ clock \in Nat /\ Tracked \subseteq Hashes /\ pass.item \in Tracked
    BY <1>1, SettleAssumption DEF TimesInv, TimesType, Tracked, Outstanding, Shape, Pending
  <1>3. Dated'
    BY <1>1, <1>2 DEF TimesInv, Dated
  <1>4. Shape'
    BY <1>1, <1>2 DEF TimesInv, Shape, Pending
  <1>5. Budget'
    <2>1. pass.since \in Nat /\ pass.now \in Nat /\ pass.todo \in SUBSET Hashes
      BY DEF TimesInv, TimesType
    <2>2. Cost(Cardinality(pass.todo)) \in Nat
      <3>1. PICK S \in SUBSET Hashes : S = pass.todo
        BY <2>1
      <3> QED BY <3>1, CostOfSet
    <2> QED BY <1>1, <1>2, <2>1, <2>2, Constants DEF TimesInv, Budget
  <1> QED BY <1>1, <1>3, <1>4, <1>5 DEF TimesInv

\* What handling an entry makes of its record.
LEMMA SettledIs ==
    ASSUME TimesInv, NEW h \in Tracked, NEW present \in BOOLEAN
    PROVE  LET e == Settled(h, present)
               overdue == pass.now >= tracked[h].first_seen + WAKE_FALLBACK
           IN  /\ e \in TrackedEntry /\ e # None
               /\ e.first_seen = tracked[h].first_seen
               /\ e.content_present = present
               /\ e.woken <=> tracked[h].woken \/ present \/ overdue
               /\ ~present /\ Due(h) => /\ pass.now <= e.next_attempt /\ e.next_attempt <= pass.now + CEILING
               /\ present \/ ~Due(h) => e.next_attempt = tracked[h].next_attempt
  <1> DEFINE overdue == pass.now >= tracked[h].first_seen + WAKE_FALLBACK
             retry   == ~present /\ Due(h)
  <1>1. tracked[h] \in TrackedEntry /\ pass.now \in Nat
    BY DEF TimesInv, TimesType, Tracked
  <1>2. PICK o \in TrackedEntry : o = tracked[h]
    BY <1>1
  <1>3. Tries(h) \in Nat
    BY <1>1, SettleAssumption DEF Tries, Least, TrackedEntry
  <1>4. PICK n \in Nat : n = Tries(h)
    BY <1>3
  <1>5. PICK t \in Nat : t = pass.now + Backoff(n) /\ pass.now <= t /\ t <= pass.now + CEILING
    BY <1>1, <1>4, BackoffBound, Constants
  <1>6. Settled(h, present) = [o EXCEPT !.content_present = present,
                                        !.woken           = @ \/ present \/ overdue,
                                        !.attempts        = IF retry THEN n ELSE @,
                                        !.next_attempt    = IF retry THEN t ELSE @]
    BY <1>2, <1>4, <1>5 DEF Settled
  <1>7. PICK e : e = Settled(h, present)
    OBVIOUS
  <1>8. PICK w \in BOOLEAN : w <=> o.woken \/ present \/ overdue
    OBVIOUS
  <1>9. o.woken \in BOOLEAN /\ w = (o.woken \/ present \/ overdue)
    BY <1>8 DEF TrackedEntry
  <1>10. e = [o EXCEPT !.content_present = present, !.woken = w,
                       !.attempts        = IF retry THEN n ELSE @,
                       !.next_attempt    = IF retry THEN t ELSE @]
    BY <1>6, <1>7, <1>9
  <1> HIDE DEF overdue, retry
  <1>11. /\ e \in TrackedEntry /\ e.first_seen = o.first_seen /\ e.content_present = present /\ e.woken = w
         /\ e.next_attempt = IF retry THEN t ELSE o.next_attempt
    BY <1>10 DEF TrackedEntry
  <1>12. e # None
    BY <1>11, SettleAssumption
  <1> QED BY <1>2, <1>5, <1>7, <1>8, <1>11, <1>12 DEF overdue, retry

LEMMA ApplyMoves ==
    ASSUME TimesInv, Apply
    PROVE  \E h \in Tracked, e \in TrackedEntry :
           /\ h = pass.item /\ pass.pc \in {"there", "missing"}
           /\ UNCHANGED <<clock, awake, stored, ticker, announced>>
           /\ e = Settled(h, pass.pc = "there")
           /\ tracked'[h] = e /\ \A g \in Hashes \ {h} : tracked'[g] = tracked[g]
           /\ Tracked' = Tracked
           /\ Outstanding' = IF pass.pc = "there" THEN Outstanding \ {h} ELSE Outstanding
           /\ pass'.pc = (IF pass.todo = {} THEN "wake" ELSE "pass") /\ pass'.now = pass.now
           /\ pass'.todo = pass.todo
           /\ pass'.wake = IF e.woken /\ ~tracked[h].woken THEN pass.wake \cup {h} ELSE pass.wake
           /\ TimesType'
  <1>1. pass.pc \in {"there", "missing"} /\ UNCHANGED <<clock, awake, stored, ticker, announced>>
    BY DEF Apply
  <1>2. pass.item \in Outstanding /\ Outstanding \subseteq Tracked /\ Tracked \subseteq Hashes
    BY <1>1 DEF TimesInv, Shape, Pending, Outstanding, Tracked
  <1>3. PICK h \in Tracked : h = pass.item
    BY <1>2
  <1>4. (pass.pc = "there") \in BOOLEAN
    OBVIOUS
  <1>5. PICK e \in TrackedEntry : e = Settled(h, pass.pc = "there") /\ e # None /\ e.content_present = (pass.pc = "there")
    BY <1>3, <1>4, SettledIs
  <1>6. /\ tracked' = [tracked EXCEPT ![h] = e]
        /\ pass' = [pass EXCEPT !.pc = IF pass.todo = {} THEN "wake" ELSE "pass",
                                !.item = None, !.since = 0,
                                !.wake = IF e.woken /\ ~tracked[h].woken THEN @ \cup {h} ELSE @]
    BY <1>3, <1>5 DEF Apply
  <1>7. /\ tracked \in [Hashes -> TrackedEntry \cup {None}]
        /\ pass \in [pc : {"idle", "pass", "fetch", "there", "missing", "wake"}, now : Nat, todo : SUBSET Hashes,
                     item : Hashes \cup {None}, since : Nat, wake : SUBSET Hashes]
    BY DEF TimesInv, TimesType
  <1>8. /\ tracked'[h] = e /\ \A g \in Hashes \ {h} : tracked'[g] = tracked[g]
        /\ tracked' \in [Hashes -> TrackedEntry \cup {None}]
    BY <1>2, <1>6, <1>7
  <1>9. PICK w \in SUBSET Hashes : w = IF e.woken /\ ~tracked[h].woken THEN pass.wake \cup {h} ELSE pass.wake
    BY <1>2, <1>7
  <1>10. PICK pc \in {"wake", "pass"} : pc = IF pass.todo = {} THEN "wake" ELSE "pass"
    OBVIOUS
  <1>11. pass' = [pass EXCEPT !.pc = pc, !.item = None, !.since = 0, !.wake = w]
    <2>1. ASSUME NEW c \in BOOLEAN
          PROVE  [pass EXCEPT !.pc = pc, !.item = None, !.since = 0, !.wake = IF c THEN @ \cup {h} ELSE @]
                    = [pass EXCEPT !.pc = pc, !.item = None, !.since = 0,
                                   !.wake = IF c THEN pass.wake \cup {h} ELSE pass.wake]
      BY <1>7
    <2> QED BY <1>6, <1>9, <1>10, <2>1
  <1>12. /\ pass' \in [pc : {"idle", "pass", "fetch", "there", "missing", "wake"}, now : Nat, todo : SUBSET Hashes,
                       item : Hashes \cup {None}, since : Nat, wake : SUBSET Hashes]
         /\ pass'.pc = pc /\ pass'.now = pass.now /\ pass'.todo = pass.todo /\ pass'.wake = w
    BY <1>7, <1>11
  <1>13. Tracked' = Tracked
    BY <1>2, <1>5, <1>8 DEF Tracked
  <1>14. Outstanding' = IF pass.pc = "there" THEN Outstanding \ {h} ELSE Outstanding
    <2>1. \A g \in Tracked \ {h} : tracked'[g] = tracked[g]
      BY <1>2, <1>8
    <2>2. h \in Outstanding /\ (h \in Outstanding' <=> pass.pc # "there")
      BY <1>2, <1>3, <1>5, <1>8, <1>13 DEF Outstanding
    <2>3. \A g \in Tracked \ {h} : g \in Outstanding' <=> g \in Outstanding
      BY <1>13, <2>1 DEF Outstanding
    <2>4. Outstanding \subseteq Tracked /\ Outstanding' \subseteq Tracked
      BY <1>13 DEF Outstanding
    <2> QED BY <2>2, <2>3, <2>4
  <1>15. TimesType'
    BY <1>1, <1>8, <1>12 DEF TimesInv, TimesType
  <1> QED BY <1>1, <1>3, <1>5, <1>8, <1>9, <1>10, <1>12, <1>13, <1>14, <1>15

LEMMA ApplyTimes ==
    ASSUME TimesInv, Apply PROVE TimesInv'
  <1>1. PICK h \in Tracked, e \in TrackedEntry :
           /\ h = pass.item /\ pass.pc \in {"there", "missing"}
           /\ UNCHANGED <<clock, awake, stored, ticker, announced>>
           /\ e = Settled(h, pass.pc = "there")
           /\ tracked'[h] = e /\ \A g \in Hashes \ {h} : tracked'[g] = tracked[g]
           /\ Tracked' = Tracked
           /\ Outstanding' = IF pass.pc = "there" THEN Outstanding \ {h} ELSE Outstanding
           /\ pass'.pc = (IF pass.todo = {} THEN "wake" ELSE "pass") /\ pass'.now = pass.now
           /\ pass'.todo = pass.todo
           /\ pass'.wake = IF e.woken /\ ~tracked[h].woken THEN pass.wake \cup {h} ELSE pass.wake
           /\ TimesType'
    BY ApplyMoves
  <1>2. /\ e.first_seen = tracked[h].first_seen
        /\ e.content_present = (pass.pc = "there")
        /\ pass.pc = "there" => e.woken
        /\ tracked[h].woken => e.woken
        /\ e.next_attempt = tracked[h].next_attempt \/ e.next_attempt <= pass.now + CEILING
        /\ e.next_attempt \in Nat
    <2>1. PICK b \in BOOLEAN : b = (pass.pc = "there")
      OBVIOUS
    <2>2. e = Settled(h, b)
      BY <1>1, <2>1
    <2>3. /\ e.first_seen = tracked[h].first_seen /\ e.content_present = b
          /\ e.woken <=> tracked[h].woken \/ b \/ pass.now >= tracked[h].first_seen + WAKE_FALLBACK
          /\ ~b /\ Due(h) => e.next_attempt <= pass.now + CEILING
          /\ b \/ ~Due(h) => e.next_attempt = tracked[h].next_attempt
      BY <2>2, SettledIs
    <2>4. e.next_attempt \in Nat
      BY DEF TrackedEntry
    <2> QED BY <2>1, <2>3, <2>4
  <1>3. /\ Tracked \subseteq Hashes /\ clock \in Nat /\ pass.now \in Nat /\ pass.now <= clock
        /\ pass.item \in Outstanding \ pass.todo
    BY <1>1 DEF TimesInv, TimesType, Tracked, Budget, Shape, Pending
  <1>4. Dated'
    <2>1. \A p \in Peers : awake'[p] # None => awake'[p] <= clock'
      BY <1>1 DEF TimesInv, Dated
    <2>2. \A g \in Hashes : stored'[g] # None => g \in Tracked' /\ stored'[g] <= clock'
      BY <1>1 DEF TimesInv, Dated
    <2>3. tracked'[h].first_seen <= clock' /\ tracked'[h].next_attempt <= clock' + CEILING
      BY <1>1, <1>2, <1>3, Constants DEF TimesInv, Dated
    <2>4. \A g \in Tracked \ {h} : tracked'[g].first_seen <= clock' /\ tracked'[g].next_attempt <= clock' + CEILING
      BY <1>1, <1>3 DEF TimesInv, Dated
    <2> QED BY <1>1, <2>1, <2>2, <2>3, <2>4 DEF Dated
  <1>5. Shape'
    <2>1. /\ pass'.pc # "idle" /\ pass'.pc # "there" /\ ~Pending'
          /\ pass'.pc = "wake" => pass'.todo = {}
          /\ pass'.todo \subseteq Outstanding'
      BY <1>1, <1>3 DEF TimesInv, Shape, Pending
    <2>2. /\ tracked'[h].content_present => tracked'[h].woken /\ stored'[h] # None
          /\ tracked'[h].woken /\ h \notin announced' => h \in pass'.wake
      BY <1>1, <1>2 DEF TimesInv, Shape
    <2>3. \A g \in Tracked \ {h} : /\ tracked'[g].content_present => tracked'[g].woken /\ stored'[g] # None
                                   /\ tracked'[g].woken /\ g \notin announced' => g \in pass'.wake
      BY <1>1, <1>3 DEF TimesInv, Shape
    <2> QED BY <1>1, <2>1, <2>2, <2>3 DEF Shape
  <1>6. Budget'
    BY <1>1, <1>3 DEF TimesInv, Budget
  <1> QED BY <1>1, <1>4, <1>5, <1>6 DEF TimesInv

LEMMA WakeAllMoves ==
    ASSUME TimesInv, WakeAll
    PROVE  /\ UNCHANGED <<clock, awake, tracked, stored, ticker>>
           /\ Tracked' = Tracked /\ Outstanding' = Outstanding
           /\ pass.pc = "wake" /\ announced' = announced \cup pass.wake
           /\ pass'.pc = "idle" /\ pass'.todo = {} /\ pass'.wake = {}
           /\ TimesType'
           /\ clock <= pass.now + Pass /\ ticker <= pass.now + SETTLE_INTERVAL
  <1>1. /\ UNCHANGED <<clock, awake, tracked, stored, ticker>> /\ pass.pc = "wake"
        /\ announced' = announced \cup pass.wake /\ pass' = Resting
    BY DEF WakeAll
  <1>2. Tracked' = Tracked /\ Outstanding' = Outstanding
    BY <1>1 DEF Tracked, Outstanding
  <1>3. pass'.pc = "idle" /\ pass'.todo = {} /\ pass'.wake = {}
    BY <1>1 DEF Resting
  <1>4. Resting \in [pc : {"idle", "pass", "fetch", "there", "missing", "wake"}, now : Nat, todo : SUBSET Hashes,
                     item : Hashes \cup {None}, since : Nat, wake : SUBSET Hashes]
    BY DEF Resting
  <1>5. TimesType'
    BY <1>1, <1>4 DEF TimesInv, TimesType
  <1>6. clock <= pass.now + Pass /\ ticker <= pass.now + SETTLE_INTERVAL
    <2>1. Cost(Cardinality(pass.todo)) = 0
      BY <1>1, CostOf, FS_EmptySet DEF TimesInv, Shape
    <2> QED BY <1>1, <2>1 DEF TimesInv, TimesType, Budget
  <1> QED BY <1>1, <1>2, <1>3, <1>5, <1>6

LEMMA WakeAllTimes ==
    ASSUME TimesInv, WakeAll PROVE TimesInv'
  <1>1. /\ UNCHANGED <<clock, awake, tracked, stored, ticker>>
        /\ Tracked' = Tracked /\ Outstanding' = Outstanding
        /\ announced' = announced \cup pass.wake
        /\ pass'.pc = "idle" /\ pass'.todo = {} /\ pass'.wake = {}
        /\ TimesType'
    BY WakeAllMoves
  <1>2. Dated'
    BY <1>1 DEF TimesInv, Dated
  <1>3. Shape'
    BY <1>1 DEF TimesInv, Shape, Pending
  <1>4. Budget'
    BY <1>1 DEF TimesInv, Budget
  <1> QED BY <1>1, <1>2, <1>3, <1>4 DEF TimesInv

LEMMA TimesNext == TimesInv /\ [Next]_vars => TimesInv'
  <1>1. TimesInv /\ UNCHANGED vars => TimesInv'
    BY DEF vars, TimesInv, TimesType, Dated, Shape, Budget, Pending, Tracked, Outstanding
  <1> QED BY <1>1, WakesUpTimes, TrackTimes, ArriveTimes, ProbeTimes, PassStartTimes, FetchTimes,
             ApplyTimes, WakeAllTimes, TickTimes DEF Next

LEMMA TimesInit == Init => TimesInv
  <1> SUFFICES ASSUME Init PROVE TimesInv
    OBVIOUS
  <1>1. Resting \in [pc : {"idle", "pass", "fetch", "there", "missing", "wake"}, now : Nat, todo : SUBSET Hashes,
                     item : Hashes \cup {None}, since : Nat, wake : SUBSET Hashes]
    BY DEF Resting
  <1>2. TimesType
    BY <1>1 DEF Init, TimesType
  <1>3. Tracked = {} /\ pass.pc = "idle" /\ pass.todo = {} /\ pass.wake = {}
    BY DEF Init, Tracked, Resting
  <1>4. Dated
    BY <1>3 DEF Init, Dated
  <1>5. Shape
    BY <1>3 DEF Shape, Pending
  <1>6. Budget
    BY <1>3, Constants DEF Init, Budget
  <1> QED BY <1>2, <1>4, <1>5, <1>6 DEF TimesInv

(***************************************************************************)
(* Being on time.                                                          *)
(***************************************************************************)
\* Nothing that matters since now is late.
LEMMA OnTimeFresh ==
    ASSUME TimesInv, NEW slack \in Nat, NEW ahead
    PROVE  OnTime(clock, slack, ahead)
  <1>1. clock \in Nat /\ ticker \in Nat /\ pass.now \in Nat
    BY DEF TimesInv, TimesType
  <1>2. ticker <= clock + SETTLE_INTERVAL /\ (pass.pc # "idle" => pass.now <= clock)
    BY DEF TimesInv, Budget
  <1> QED BY <1>1, <1>2, Constants DEF OnTime

\* A pass under way ends one pass after its start at the latest.
LEMMA PassEnds ==
    ASSUME TimesInv, pass.pc # "idle" PROVE clock <= pass.now + Pass
  <1>1. pass.todo \in SUBSET Hashes /\ clock \in Nat /\ pass.now \in Nat /\ pass.since \in Nat
    BY DEF TimesInv, TimesType
  <1>2. Cost(Cardinality(pass.todo)) \in Nat
    BY <1>1, CostOfSet
  <1>3. pass.pc \in {"pass", "fetch", "there", "missing", "wake"}
    BY DEF TimesInv, TimesType
  <1> QED BY <1>1, <1>2, <1>3, Constants DEF TimesInv, Budget

\* What is on time is never later than two passes.
LEMMA OnTimeBound ==
    ASSUME TimesInv, NEW when \in Nat, NEW slack \in Nat, NEW ahead, OnTime(when, slack, ahead)
    PROVE  clock <= when + slack + TwoPasses
  <1>1. clock \in Nat /\ pass.now \in Nat
    BY DEF TimesInv, TimesType
  <1>2. CASE pass.pc = "idle"
    BY <1>1, <1>2, Constants DEF OnTime
  <1>3. CASE pass.pc # "idle"
    BY <1>1, <1>3, PassEnds, Constants DEF OnTime
  <1> QED BY <1>2, <1>3

\* Time passes only while the loop waits.
LEMMA OnTimeTicks ==
    ASSUME TimesInv, Tick, NEW when \in Nat, NEW slack \in Nat, NEW ahead, OnTime(when, slack, ahead)
    PROVE  OnTime(when, slack, ahead)'
  <1>1. clock \in Nat /\ ticker \in Nat /\ clock' = clock + 1 /\ UNCHANGED <<ticker, pass>> /\ Waiting
    BY DEF TimesInv, TimesType, Tick
  <1>2. CASE pass.pc = "idle"
    BY <1>1, <1>2, Constants DEF OnTime, Waiting
  <1>3. CASE pass.pc # "idle"
    BY <1>1, <1>3 DEF OnTime
  <1> QED BY <1>2, <1>3

\* A pass that began before it was late leaves the loop idle and on time.
LEMMA OnTimeEnds ==
    ASSUME TimesInv, WakeAll, NEW when \in Nat, NEW slack \in Nat, NEW ahead, pass.now <= when + slack
    PROVE  OnTime(when, slack, ahead)'
  <1>1. clock \in Nat /\ ticker \in Nat /\ pass.now \in Nat
    BY DEF TimesInv, TimesType
  <1>2. /\ UNCHANGED <<clock, ticker>> /\ pass'.pc = "idle"
        /\ clock <= pass.now + Pass /\ ticker <= pass.now + SETTLE_INTERVAL
    BY WakeAllMoves
  <1> QED BY <1>1, <1>2, Constants DEF OnTime

(***************************************************************************)
(* Wakes.                                                                  *)
(***************************************************************************)
AheadOfWake(h) == h \in pass.todo \cup pass.wake \/ (Pending /\ h = pass.item)

LEMMA WokenNext == TimesInv /\ WokenOnTime /\ [Next]_vars => WokenOnTime'
  <1> SUFFICES ASSUME TimesInv, WokenOnTime, [Next]_vars, NEW h \in Tracked', h \notin announced'
               PROVE  OnTime(tracked[h].first_seen, WAKE_FALLBACK, AheadOfWake(h))'
    BY DEF WokenOnTime, AheadOfWake
  <1>0. h \in Hashes /\ WAKE_FALLBACK \in Nat /\ clock \in Nat /\ pass.now \in Nat /\ Tracked \subseteq Hashes
    BY Constants DEF Tracked, TimesInv, TimesType
  <1>1. ASSUME h \in Tracked, h \notin announced
        PROVE  /\ OnTime(tracked[h].first_seen, WAKE_FALLBACK, AheadOfWake(h))
               /\ tracked[h].first_seen \in Nat
               /\ ~tracked[h].woken \/ h \in pass.wake
    BY <1>1 DEF WokenOnTime, AheadOfWake, TimesInv, TimesType, Shape, Tracked, TrackedEntry
  <1>2. ASSUME UNCHANGED <<clock, tracked, ticker, pass, announced>>
        PROVE  OnTime(tracked[h].first_seen, WAKE_FALLBACK, AheadOfWake(h))'
    <2>1. h \in Tracked /\ h \notin announced
      BY <1>2 DEF Tracked
    <2> QED BY <1>1, <1>2, <2>1 DEF OnTime, AheadOfWake, Pending
  <1>3. ASSUME NEW p \in Peers, WakesUp(p) \/ FallsAsleep(p)
        PROVE  OnTime(tracked[h].first_seen, WAKE_FALLBACK, AheadOfWake(h))'
    BY <1>2, <1>3 DEF WakesUp, FallsAsleep
  <1>4. ASSUME NEW g \in Hashes, Arrive(g)
        PROVE  OnTime(tracked[h].first_seen, WAKE_FALLBACK, AheadOfWake(h))'
    BY <1>2, <1>4 DEF Arrive
  <1>5. ASSUME NEW g \in Hashes, Track(g)
        PROVE  OnTime(tracked[h].first_seen, WAKE_FALLBACK, AheadOfWake(h))'
    <2>1. /\ UNCHANGED <<clock, ticker, pass, announced>> /\ tracked'[g] = Fresh
          /\ \A i \in Hashes \ {g} : tracked'[i] = tracked[i]
          /\ Tracked' = Tracked \cup {g}
      BY <1>5, TrackMoves
    <2>2. CASE h = g
      <3>1. tracked'[h].first_seen = clock
        BY <2>1, <2>2 DEF Fresh
      <3>2. OnTime(clock, WAKE_FALLBACK, AheadOfWake(h))
        BY <1>0, OnTimeFresh
      <3> QED BY <2>1, <3>1, <3>2 DEF OnTime, AheadOfWake, Pending
    <2>3. CASE h # g
      <3>1. h \in Tracked /\ h \notin announced /\ tracked'[h] = tracked[h]
        BY <1>0, <2>1, <2>3
      <3> QED BY <1>1, <2>1, <3>1 DEF OnTime, AheadOfWake, Pending
    <2> QED BY <2>2, <2>3
  <1>6. CASE Tick
    <2>1. UNCHANGED <<tracked, pass, announced>> /\ h \in Tracked /\ h \notin announced
      BY <1>6 DEF Tick, Tracked
    <2>2. PICK f \in Nat, a \in BOOLEAN : f = tracked[h].first_seen /\ a = AheadOfWake(h)
      BY <1>1, <2>1 DEF AheadOfWake
    <2>3. OnTime(f, WAKE_FALLBACK, a)
      BY <1>1, <2>1, <2>2 DEF OnTime
    <2>4. OnTime(f, WAKE_FALLBACK, a)'
      BY <1>0, <1>6, <2>2, <2>3, OnTimeTicks
    <2>5. AheadOfWake(h)' = AheadOfWake(h)
      BY <2>1 DEF AheadOfWake, Pending
    <2> QED BY <2>1, <2>2, <2>4, <2>5 DEF OnTime
  <1>7. CASE PassStart
    <2>1. /\ UNCHANGED <<clock, tracked, announced>> /\ pass.pc = "idle" /\ Tracked' = Tracked
          /\ Outstanding # {} => pass'.pc = "pass" /\ pass'.now = clock /\ pass'.todo = Outstanding
      BY <1>7, PassStartMoves
    <2>2. h \in Tracked /\ ~tracked[h].woken
      BY <1>1, <2>1 DEF TimesInv, Shape
    <2>3. h \in Outstanding
      BY <2>2 DEF TimesInv, Shape, Outstanding
    <2>4. clock <= tracked[h].first_seen + WAKE_FALLBACK + Pass + SETTLE_INTERVAL
      BY <1>1, <2>1, <2>2 DEF OnTime
    <2> QED BY <2>1, <2>3, <2>4 DEF OnTime, AheadOfWake
  <1>8. ASSUME NEW g \in Hashes, Probe(g)
        PROVE  OnTime(tracked[h].first_seen, WAKE_FALLBACK, AheadOfWake(h))'
    <2>1. /\ UNCHANGED <<tracked, announced>> /\ Tracked' = Tracked /\ pass.pc = "pass"
          /\ pass'.now = pass.now /\ pass'.todo = pass.todo \ {g} /\ pass'.item = g /\ pass'.wake = pass.wake
          /\ pass'.pc \in {"there", "fetch", "missing"}
      BY <1>8, ProbeMoves
    <2>2. AheadOfWake(h) => AheadOfWake(h)'
      BY <2>1 DEF AheadOfWake, Pending
    <2> QED BY <1>1, <2>1, <2>2 DEF OnTime
  <1>9. CASE FetchOk \/ FetchFails
    <2>1. /\ UNCHANGED <<tracked, announced>> /\ Tracked' = Tracked /\ pass.pc = "fetch"
          /\ pass'.now = pass.now /\ pass'.todo = pass.todo /\ pass'.item = pass.item /\ pass'.wake = pass.wake
          /\ pass'.pc \in {"there", "missing"}
      BY <1>9, FetchMoves
    <2>2. AheadOfWake(h) => AheadOfWake(h)'
      BY <2>1 DEF AheadOfWake, Pending
    <2> QED BY <1>1, <2>1, <2>2 DEF OnTime
  <1>10. CASE Apply
    <2>1. PICK g \in Tracked, e \in TrackedEntry :
             /\ g = pass.item /\ pass.pc \in {"there", "missing"}
             /\ UNCHANGED <<clock, announced>>
             /\ e = Settled(g, pass.pc = "there")
             /\ tracked'[g] = e /\ \A i \in Hashes \ {g} : tracked'[i] = tracked[i]
             /\ Tracked' = Tracked
             /\ pass'.pc = (IF pass.todo = {} THEN "wake" ELSE "pass") /\ pass'.now = pass.now
             /\ pass'.todo = pass.todo
             /\ pass'.wake = IF e.woken /\ ~tracked[g].woken THEN pass.wake \cup {g} ELSE pass.wake
      BY <1>10, ApplyMoves
    <2>2. h \in Tracked /\ h \notin announced /\ pass'.pc # "idle" /\ pass.pc # "idle"
      BY <2>1
    <2>3. CASE h # g
      <3>1. AheadOfWake(h) => AheadOfWake(h)'
        BY <2>1, <2>3 DEF AheadOfWake
      <3> QED BY <1>0, <1>1, <2>1, <2>2, <2>3, <3>1 DEF OnTime
    <2>4. CASE h = g
      <3>1. PICK b \in BOOLEAN : b = (pass.pc = "there")
        OBVIOUS
      <3>2. /\ e.first_seen = tracked[g].first_seen
            /\ e.woken <=> tracked[g].woken \/ b \/ pass.now >= tracked[g].first_seen + WAKE_FALLBACK
        BY <2>1, <3>1, SettledIs
      <3>3. tracked'[h].first_seen = tracked[h].first_seen /\ tracked[h].first_seen \in Nat
        BY <1>1, <2>1, <2>2, <2>4, <3>2
      <3>4. CASE e.woken
        <4>1. h \in pass'.wake
          BY <1>1, <2>1, <2>2, <2>4, <3>4
        <4>2. pass.now <= tracked[h].first_seen + WAKE_FALLBACK + Pass + SETTLE_INTERVAL
          BY <1>0, <1>1, <2>2, <3>3, Constants DEF OnTime
        <4> QED BY <2>1, <2>2, <3>3, <4>1, <4>2 DEF OnTime, AheadOfWake
      <3>5. CASE ~e.woken
        <4>1. pass.now <= tracked[h].first_seen + WAKE_FALLBACK
          BY <1>0, <2>4, <3>2, <3>3, <3>5
        <4> QED BY <2>1, <2>2, <3>3, <4>1 DEF OnTime
      <3> QED BY <3>4, <3>5
    <2> QED BY <2>3, <2>4
  <1>11. CASE WakeAll
    <2>1. /\ UNCHANGED tracked /\ Tracked' = Tracked /\ pass.pc = "wake"
          /\ announced' = announced \cup pass.wake
      BY <1>11, WakeAllMoves
    <2>2. h \in Tracked /\ h \notin announced /\ h \notin pass.wake /\ h \notin pass.todo /\ ~Pending
      BY <2>1 DEF TimesInv, Shape, Pending
    <2>3. pass.now <= tracked[h].first_seen + WAKE_FALLBACK
      BY <1>1, <2>1, <2>2 DEF OnTime, AheadOfWake
    <2>4. PICK f \in Nat : f = tracked[h].first_seen
      BY <1>1, <2>2
    <2>5. \A a \in BOOLEAN : OnTime(f, WAKE_FALLBACK, a)'
      BY <1>0, <1>11, <2>3, <2>4, OnTimeEnds
    <2>6. PICK a \in BOOLEAN : a = AheadOfWake(h)'
      BY DEF AheadOfWake
    <2> QED BY <2>1, <2>4, <2>5, <2>6 DEF OnTime
  <1>12. CASE UNCHANGED vars
    BY <1>2, <1>12 DEF vars
  <1> QED BY <1>3, <1>4, <1>5, <1>6, <1>7, <1>8, <1>9, <1>10, <1>11, <1>12 DEF Next

\* However many entries are behind sleeping peers, the subscribers of an entry
\* are woken after the fallback and two passes at the latest.
THEOREM WokenBy == Spec => []WokenInTime
  <1>1. Init => TimesInv /\ WokenOnTime
    BY TimesInit DEF Init, WokenOnTime, Tracked
  <1>2. TimesInv /\ WokenOnTime => WokenInTime
    <2> SUFFICES ASSUME TimesInv, WokenOnTime, NEW h \in Tracked, h \notin announced
                 PROVE  clock - tracked[h].first_seen <= WAKE_FALLBACK + TwoPasses
      BY DEF WokenInTime
    <2>1. tracked[h].first_seen \in Nat /\ clock \in Nat
      BY DEF TimesInv, TimesType, Tracked, TrackedEntry
    <2>2. OnTime(tracked[h].first_seen, WAKE_FALLBACK, AheadOfWake(h))
      BY DEF WokenOnTime, AheadOfWake
    <2>3. clock <= tracked[h].first_seen + WAKE_FALLBACK + TwoPasses
      BY <2>1, <2>2, OnTimeBound, Constants
    <2> QED BY <2>1, <2>3, Constants
  <1> QED BY <1>1, <1>2, TimesNext, WokenNext, PTL DEF Spec

(***************************************************************************)
(* Late content.                                                           *)
(***************************************************************************)
Late(h) == stored[h] # None /\ (h \in Outstanding \/ h \notin announced)
Both(h) == Later(stored[h], tracked[h].first_seen)

AheadOfUse(h) == \/ h \in pass.todo
                 \/ h = pass.item /\ pass.pc = "there"
                 \/ h \in pass.wake /\ h \notin Outstanding

LEMMA UsedNext == TimesInv /\ UsedOnTime /\ [Next]_vars => UsedOnTime'
  <1> SUFFICES ASSUME TimesInv, UsedOnTime, [Next]_vars, NEW h \in Tracked', Late(h)'
               PROVE  OnTime(Both(h), 0, AheadOfUse(h))'
    BY DEF UsedOnTime, AheadOfUse, Late, Both
  <1>0. h \in Hashes /\ clock \in Nat /\ pass.now \in Nat /\ Tracked \subseteq Hashes /\ clock # None
    BY SettleAssumption DEF Tracked, TimesInv, TimesType
  <1>1. ASSUME h \in Tracked, Late(h)
        PROVE  OnTime(Both(h), 0, AheadOfUse(h)) /\ Both(h) \in Nat
    BY <1>1 DEF UsedOnTime, AheadOfUse, Late, Both, TimesInv, TimesType, Tracked, TrackedEntry, Later
  <1>2. ASSUME UNCHANGED <<clock, tracked, ticker, pass, announced>>, stored'[h] = stored[h]
        PROVE  OnTime(Both(h), 0, AheadOfUse(h))'
    <2>1. h \in Tracked /\ Late(h) /\ Both(h)' = Both(h) /\ AheadOfUse(h)' = AheadOfUse(h)
      BY <1>2 DEF Tracked, Late, Outstanding, Both, AheadOfUse
    <2> QED BY <1>1, <1>2, <2>1 DEF OnTime
  <1>3. ASSUME NEW p \in Peers, WakesUp(p) \/ FallsAsleep(p)
        PROVE  OnTime(Both(h), 0, AheadOfUse(h))'
    BY <1>2, <1>3 DEF WakesUp, FallsAsleep
  \* Bytes that arrive matter since now, as their entry is no older.
  <1>4. ASSUME UNCHANGED <<clock, tracked, ticker, pass>>, h \in Tracked, stored'[h] = clock
        PROVE  OnTime(Both(h), 0, AheadOfUse(h))'
    <2>1. tracked[h].first_seen \in Nat /\ tracked[h].first_seen <= clock
      BY <1>0, <1>4 DEF TimesInv, TimesType, Tracked, TrackedEntry, Dated
    <2>2. Both(h)' = clock /\ AheadOfUse(h)' = AheadOfUse(h)
      BY <1>0, <1>4, <2>1 DEF Both, Later, AheadOfUse, Outstanding, Tracked
    <2>3. OnTime(clock, 0, AheadOfUse(h))
      BY OnTimeFresh
    <2> QED BY <1>4, <2>2, <2>3 DEF OnTime
  <1>5. ASSUME NEW g \in Hashes, Arrive(g)
        PROVE  OnTime(Both(h), 0, AheadOfUse(h))'
    <2>1. UNCHANGED <<clock, tracked, ticker, pass, announced>> /\ stored' = [stored EXCEPT ![g] = clock]
      BY <1>5 DEF Arrive
    <2>2. stored \in [Hashes -> Nat \cup {None}] /\ h \in Tracked
      BY <2>1 DEF TimesInv, TimesType, Tracked
    <2>3. CASE h = g
      BY <1>0, <1>4, <2>1, <2>2, <2>3
    <2>4. CASE h # g
      BY <1>0, <1>2, <2>1, <2>2, <2>4
    <2> QED BY <2>3, <2>4
  <1>6. ASSUME NEW g \in Hashes, Track(g)
        PROVE  OnTime(Both(h), 0, AheadOfUse(h))'
    <2>1. /\ UNCHANGED <<clock, stored, ticker, pass, announced>> /\ stored[g] = None
          /\ \A i \in Hashes \ {g} : tracked'[i] = tracked[i]
          /\ Tracked' = Tracked \cup {g} /\ Outstanding' = Outstanding \cup {g}
      BY <1>6, TrackMoves
    <2>2. h # g /\ h \in Tracked /\ tracked'[h] = tracked[h] /\ (h \in Outstanding' <=> h \in Outstanding)
      BY <1>0, <2>1 DEF Late
    <2>3. Late(h) /\ Both(h)' = Both(h) /\ AheadOfUse(h)' = AheadOfUse(h)
      BY <2>1, <2>2 DEF Late, Both, AheadOfUse
    <2> QED BY <1>1, <2>1, <2>2, <2>3 DEF OnTime
  <1>7. CASE Tick
    <2>1. UNCHANGED <<tracked, stored, pass, announced>>
      BY <1>7 DEF Tick
    <2>2. h \in Tracked /\ Late(h) /\ Both(h)' = Both(h) /\ AheadOfUse(h)' = AheadOfUse(h)
      BY <2>1 DEF Tracked, Late, Outstanding, Both, AheadOfUse
    <2>3. PICK w \in Nat, a \in BOOLEAN : w = Both(h) /\ a = AheadOfUse(h)
      BY <1>1, <2>2 DEF AheadOfUse
    <2>4. OnTime(w, 0, a)
      BY <1>1, <2>2, <2>3 DEF OnTime
    <2>5. OnTime(w, 0, a)'
      BY <1>7, <2>4, OnTimeTicks
    <2> QED BY <2>2, <2>3, <2>5 DEF OnTime
  <1>8. CASE PassStart
    <2>1. /\ UNCHANGED <<clock, tracked, stored, announced>> /\ pass.pc = "idle"
          /\ Tracked' = Tracked /\ Outstanding' = Outstanding
          /\ Outstanding # {} => pass'.pc = "pass" /\ pass'.now = clock /\ pass'.todo = Outstanding
      BY <1>8, PassStartMoves
    <2>2. h \in Tracked /\ Late(h) /\ Both(h)' = Both(h)
      BY <2>1 DEF Late, Both
    <2>3. h \in Outstanding
      BY <2>1, <2>2 DEF TimesInv, Shape, Outstanding, Late
    <2>4. clock <= Both(h) + 0 + Pass + SETTLE_INTERVAL
      BY <1>1, <2>1, <2>2 DEF OnTime
    <2> QED BY <2>1, <2>2, <2>3, <2>4 DEF OnTime, AheadOfUse
  <1>9. ASSUME NEW g \in Hashes, Probe(g)
        PROVE  OnTime(Both(h), 0, AheadOfUse(h))'
    <2>1. /\ UNCHANGED <<tracked, stored, announced>> /\ pass.pc = "pass"
          /\ Tracked' = Tracked /\ Outstanding' = Outstanding
          /\ pass'.now = pass.now /\ pass'.todo = pass.todo \ {g} /\ pass'.item = g /\ pass'.wake = pass.wake
          /\ pass'.pc \in {"there", "fetch", "missing"} /\ (stored[g] # None => pass'.pc = "there")
      BY <1>9, ProbeMoves
    <2>2. h \in Tracked /\ Late(h) /\ Both(h)' = Both(h)
      BY <2>1 DEF Late, Both
    <2>3. AheadOfUse(h) => AheadOfUse(h)'
      BY <2>1, <2>2 DEF AheadOfUse, Late
    <2> QED BY <1>1, <2>1, <2>2, <2>3 DEF OnTime
  <1>10. CASE FetchOk \/ FetchFails
    <2>1. /\ UNCHANGED <<clock, tracked, announced>> /\ pass.pc = "fetch"
          /\ Tracked' = Tracked /\ Outstanding' = Outstanding
          /\ pass'.now = pass.now /\ pass'.todo = pass.todo /\ pass'.item = pass.item /\ pass'.wake = pass.wake
          /\ pass'.pc \in {"there", "missing"}
          /\ stored'[h] = stored[h] \/ (h = pass.item /\ stored'[h] = clock)
      BY <1>0, <1>10, FetchMoves
    <2>2. CASE stored'[h] = stored[h]
      <3>1. h \in Tracked /\ Late(h) /\ Both(h)' = Both(h)
        BY <2>1, <2>2 DEF Late, Both
      <3>2. AheadOfUse(h) => AheadOfUse(h)'
        BY <2>1 DEF AheadOfUse
      <3> QED BY <1>1, <2>1, <3>1, <3>2 DEF OnTime
    <2>3. CASE stored'[h] = clock
      <3>1. tracked[h].first_seen \in Nat /\ tracked[h].first_seen <= clock
        BY <2>1 DEF TimesInv, TimesType, Tracked, TrackedEntry, Dated
      <3>2. Both(h)' = clock
        BY <1>0, <2>1, <2>3, <3>1 DEF Both, Later
      <3>3. pass.now <= clock
        BY <2>1 DEF TimesInv, Budget
      <3> QED BY <1>0, <2>1, <3>2, <3>3 DEF OnTime
    <2> QED BY <2>1, <2>2, <2>3
  <1>11. CASE Apply
    <2>1. PICK g \in Tracked, e \in TrackedEntry :
             /\ g = pass.item /\ pass.pc \in {"there", "missing"}
             /\ UNCHANGED <<clock, stored, announced>>
             /\ e = Settled(g, pass.pc = "there")
             /\ tracked'[g] = e /\ \A i \in Hashes \ {g} : tracked'[i] = tracked[i]
             /\ Tracked' = Tracked
             /\ Outstanding' = IF pass.pc = "there" THEN Outstanding \ {g} ELSE Outstanding
             /\ pass'.pc = (IF pass.todo = {} THEN "wake" ELSE "pass") /\ pass'.now = pass.now
             /\ pass'.todo = pass.todo
             /\ pass'.wake = IF e.woken /\ ~tracked[g].woken THEN pass.wake \cup {g} ELSE pass.wake
      BY <1>11, ApplyMoves
    <2>2. PICK b \in BOOLEAN : b = (pass.pc = "there")
      OBVIOUS
    <2>3. /\ e.first_seen = tracked[g].first_seen
          /\ e.woken <=> tracked[g].woken \/ b \/ pass.now >= tracked[g].first_seen + WAKE_FALLBACK
      BY <2>1, <2>2, SettledIs
    <2>4. tracked'[h].first_seen = tracked[h].first_seen
      BY <1>0, <2>1, <2>3
    <2>5. h \in Tracked /\ Late(h) /\ Both(h)' = Both(h) /\ pass'.pc # "idle" /\ pass.pc # "idle"
      BY <2>1, <2>4 DEF Late, Both
    <2>6. AheadOfUse(h) => AheadOfUse(h)'
      <3>1. CASE h \in pass.todo
        BY <2>1, <3>1 DEF AheadOfUse
      <3>2. CASE h = pass.item /\ pass.pc = "there"
        <4>1. h \notin Outstanding' /\ h \notin announced
          BY <2>1, <3>2 DEF Late
        <4>2. e.woken /\ (tracked[h].woken => h \in pass.wake)
          BY <2>1, <2>2, <2>3, <2>5, <3>2, <4>1 DEF TimesInv, Shape
        <4>3. h \in pass'.wake
          BY <2>1, <3>2, <4>2
        <4> QED BY <4>1, <4>3 DEF AheadOfUse
      <3>3. CASE h \in pass.wake /\ h \notin Outstanding
        BY <2>1, <3>3 DEF AheadOfUse
      <3> QED BY <3>1, <3>2, <3>3 DEF AheadOfUse
    <2> QED BY <1>1, <2>1, <2>5, <2>6 DEF OnTime
  <1>12. CASE WakeAll
    <2>1. /\ UNCHANGED <<tracked, stored>> /\ pass.pc = "wake"
          /\ Tracked' = Tracked /\ Outstanding' = Outstanding
          /\ announced' = announced \cup pass.wake
      BY <1>12, WakeAllMoves
    <2>2. h \in Tracked /\ Late(h) /\ Both(h)' = Both(h) /\ ~AheadOfUse(h)
      BY <2>1 DEF Late, Both, AheadOfUse, TimesInv, Shape
    <2>3. pass.now <= Both(h) + 0
      BY <1>1, <2>1, <2>2 DEF OnTime
    <2>4. PICK w \in Nat : w = Both(h)
      BY <1>1, <2>2
    <2>5. \A a \in BOOLEAN : OnTime(w, 0, a)'
      BY <1>12, <2>3, <2>4, OnTimeEnds
    <2>6. PICK a \in BOOLEAN : a = AheadOfUse(h)'
      BY DEF AheadOfUse
    <2> QED BY <2>2, <2>4, <2>5, <2>6 DEF OnTime
  <1>13. CASE UNCHANGED vars
    BY <1>2, <1>13 DEF vars
  <1> QED BY <1>3, <1>5, <1>6, <1>7, <1>8, <1>9, <1>10, <1>11, <1>12, <1>13 DEF Next

\* However far the backoff of an entry had grown, and whenever within a pass
\* its bytes arrive, it is present and announced two passes later.
THEOREM UsedBy == Spec => []ArrivalUsed
  <1>1. Init => TimesInv /\ UsedOnTime
    BY TimesInit DEF Init, UsedOnTime, Tracked
  <1>2. TimesInv /\ UsedOnTime => ArrivalUsed
    <2> SUFFICES ASSUME TimesInv, UsedOnTime, NEW h \in Tracked, Late(h)
                 PROVE  clock - Both(h) <= TwoPasses
      BY DEF ArrivalUsed, Late, Both
    <2>1. Both(h) \in Nat /\ clock \in Nat
      BY DEF TimesInv, TimesType, Tracked, TrackedEntry, Late, Both, Later
    <2>2. OnTime(Both(h), 0, AheadOfUse(h))
      BY DEF UsedOnTime, AheadOfUse, Late, Both
    <2>3. clock <= Both(h) + 0 + TwoPasses
      BY <2>1, <2>2, OnTimeBound
    <2> QED BY <2>1, <2>3, Constants
  <1> QED BY <1>1, <1>2, TimesNext, UsedNext, PTL DEF Spec

(***************************************************************************)
(* Peers that wake up.                                                     *)
(***************************************************************************)
Missed(h, p) == stored[h] = None /\ p \in Sources(h) /\ awake[p] # None

AheadOfFetch(h) == h \in pass.todo \/ (h = pass.item /\ pass.pc = "fetch")

Kept(h, p) ==
    /\ tracked[h].next_attempt <= Since(h, p) + CEILING
    /\ pass.pc = "missing" /\ pass.item = h /\ Due(h) => pass.now <= Since(h, p)
    /\ OnTime(Since(h, p), CEILING, AheadOfFetch(h))

LEMMA FetchedNext == TimesInv /\ FetchedOnTime /\ [Next]_vars => FetchedOnTime'
  <1> SUFFICES ASSUME TimesInv, FetchedOnTime, [Next]_vars, NEW h \in Tracked', NEW p \in Peers, Missed(h, p)'
               PROVE  Kept(h, p)'
    BY DEF FetchedOnTime, Kept, Missed, AheadOfFetch
  <1>0. /\ h \in Hashes /\ clock \in Nat /\ pass.now \in Nat /\ Tracked \subseteq Hashes /\ clock # None
        /\ CEILING \in Nat /\ Sources(h)' = Sources(h)
    BY SettleAssumption, Constants DEF Tracked, TimesInv, TimesType, Sources
  <1>1. ASSUME h \in Tracked, Missed(h, p)
        PROVE  /\ Kept(h, p) /\ Since(h, p) \in Nat /\ tracked[h].next_attempt \in Nat
               /\ tracked[h].first_seen \in Nat /\ tracked[h].first_seen <= clock
               /\ awake[p] \in Nat /\ awake[p] <= clock
    BY <1>1 DEF FetchedOnTime, Kept, Missed, AheadOfFetch, Since, Later, TimesInv, TimesType, Dated,
                Tracked, TrackedEntry
  <1>2. ASSUME UNCHANGED <<clock, tracked, ticker, pass>>, stored'[h] = stored[h], awake'[p] = awake[p]
        PROVE  Kept(h, p)'
    <2>1. h \in Tracked /\ Missed(h, p) /\ Since(h, p)' = Since(h, p) /\ AheadOfFetch(h)' = AheadOfFetch(h)
          /\ Due(h)' = Due(h)
      BY <1>0, <1>2 DEF Tracked, Missed, Since, AheadOfFetch, Due
    <2> QED BY <1>1, <1>2, <2>1 DEF Kept, OnTime
  <1>3. ASSUME NEW q \in Peers, WakesUp(q) \/ FallsAsleep(q)
        PROVE  Kept(h, p)'
    <2>1. /\ UNCHANGED <<clock, tracked, stored, ticker, pass, announced>>
          /\ awake' = [awake EXCEPT ![q] = clock] \/ awake' = [awake EXCEPT ![q] = None]
      BY <1>3 DEF WakesUp, FallsAsleep
    <2>2. awake'[p] = awake[p] \/ awake'[p] = clock
      BY <2>1 DEF Missed, TimesInv, TimesType
    <2>3. CASE awake'[p] = awake[p]
      BY <1>2, <2>1, <2>3
    <2>4. CASE awake'[p] = clock
      <3>1. h \in Tracked /\ tracked[h].first_seen <= clock /\ tracked[h].first_seen \in Nat
        BY <2>1 DEF Tracked, TimesInv, TimesType, TrackedEntry, Dated
      <3>2. Since(h, p)' = clock
        BY <1>0, <2>1, <2>4, <3>1 DEF Since, Later
      <3>3. TimesInv'
        BY <1>3, WakesUpTimes
      <3>4. tracked'[h].next_attempt <= clock' + CEILING /\ (pass'.pc # "idle" => pass'.now <= clock')
        BY <3>3 DEF TimesInv, Dated, Budget
      <3>5. OnTime(clock, CEILING, AheadOfFetch(h))
        BY <1>0, OnTimeFresh
      <3>6. AheadOfFetch(h)' = AheadOfFetch(h)
        BY <2>1 DEF AheadOfFetch
      <3>7. OnTime(Since(h, p), CEILING, AheadOfFetch(h))'
        BY <2>1, <3>2, <3>5, <3>6 DEF OnTime
      <3> QED BY <2>1, <3>2, <3>4, <3>7 DEF Kept
    <2> QED BY <2>2, <2>3, <2>4
  <1>4. ASSUME NEW g \in Hashes, Arrive(g)
        PROVE  Kept(h, p)'
    <2>1. UNCHANGED <<clock, awake, tracked, ticker, pass>> /\ stored' = [stored EXCEPT ![g] = clock]
      BY <1>4 DEF Arrive
    <2>2. stored'[h] = stored[h]
      BY <1>0, <2>1 DEF Missed, TimesInv, TimesType
    <2> QED BY <1>2, <2>1, <2>2
  <1>5. ASSUME NEW g \in Hashes, Track(g)
        PROVE  Kept(h, p)'
    <2>1. /\ UNCHANGED <<clock, awake, stored, ticker, pass, announced>> /\ tracked'[g] = Fresh
          /\ \A i \in Hashes \ {g} : tracked'[i] = tracked[i]
          /\ Tracked' = Tracked \cup {g}
      BY <1>5, TrackMoves
    <2>2. CASE h = g
      <3>1. tracked'[h].first_seen = clock /\ tracked'[h].next_attempt = 0
        BY <2>1, <2>2 DEF Fresh
      <3>2. awake[p] # None /\ awake'[p] = awake[p]
        BY <2>1 DEF Missed
      <3>3. awake[p] \in Nat /\ awake[p] <= clock
        BY <3>2 DEF TimesInv, TimesType, Dated
      <3>4. Since(h, p)' = clock
        BY <1>0, <3>1, <3>2, <3>3 DEF Since, Later
      <3>5. OnTime(clock, CEILING, AheadOfFetch(h)) /\ (pass.pc # "idle" => pass.now <= clock)
        BY <1>0, OnTimeFresh DEF TimesInv, Budget
      <3>6. AheadOfFetch(h)' = AheadOfFetch(h)
        BY <2>1 DEF AheadOfFetch
      <3>7. OnTime(Since(h, p), CEILING, AheadOfFetch(h))'
        BY <2>1, <3>4, <3>5, <3>6 DEF OnTime
      <3> QED BY <1>0, <2>1, <3>1, <3>4, <3>5, <3>7 DEF Kept
    <2>3. CASE h # g
      <3>1. /\ h \in Tracked /\ tracked'[h] = tracked[h] /\ Missed(h, p) /\ Since(h, p)' = Since(h, p)
            /\ AheadOfFetch(h)' = AheadOfFetch(h) /\ Due(h)' = Due(h)
        BY <1>0, <2>1, <2>3 DEF Missed, Since, AheadOfFetch, Due
      <3> QED BY <1>1, <2>1, <3>1 DEF Kept, OnTime
    <2> QED BY <2>2, <2>3
  <1>6. CASE Tick
    <2>1. UNCHANGED <<awake, tracked, stored, pass>>
      BY <1>6 DEF Tick
    <2>2. /\ h \in Tracked /\ Missed(h, p) /\ Since(h, p)' = Since(h, p)
          /\ AheadOfFetch(h)' = AheadOfFetch(h) /\ Due(h)' = Due(h)
      BY <1>0, <2>1 DEF Tracked, Missed, Since, AheadOfFetch, Due
    <2>3. PICK w \in Nat, a \in BOOLEAN : w = Since(h, p) /\ a = AheadOfFetch(h)
      BY <1>1, <2>2 DEF AheadOfFetch
    <2>4. OnTime(w, CEILING, a)
      BY <1>1, <2>2, <2>3 DEF Kept, OnTime
    <2>5. OnTime(w, CEILING, a)'
      BY <1>0, <1>6, <2>4, OnTimeTicks
    <2>6. OnTime(Since(h, p), CEILING, AheadOfFetch(h))'
      BY <2>2, <2>3, <2>5 DEF OnTime
    <2> QED BY <1>1, <2>1, <2>2, <2>6 DEF Kept
  <1>7. CASE PassStart
    <2>1. /\ UNCHANGED <<clock, awake, tracked, stored>> /\ pass.pc = "idle" /\ Tracked' = Tracked
          /\ Outstanding # {} => pass'.pc = "pass" /\ pass'.now = clock /\ pass'.todo = Outstanding
      BY <1>7, PassStartMoves
    <2>2. h \in Tracked /\ Missed(h, p) /\ Since(h, p)' = Since(h, p)
      BY <1>0, <2>1 DEF Missed, Since
    <2>3. h \in Outstanding
      BY <2>2 DEF TimesInv, Shape, Outstanding, Missed
    <2>4. clock <= Since(h, p) + CEILING + Pass + SETTLE_INTERVAL
      BY <1>1, <2>1, <2>2 DEF Kept, OnTime
    <2>5. OnTime(Since(h, p), CEILING, AheadOfFetch(h))'
      BY <2>1, <2>2, <2>3, <2>4 DEF OnTime, AheadOfFetch
    <2> QED BY <1>1, <2>1, <2>2, <2>3, <2>5 DEF Kept
  <1>8. ASSUME NEW g \in Hashes, Probe(g)
        PROVE  Kept(h, p)'
    <2>1. /\ UNCHANGED <<awake, tracked, stored>> /\ pass.pc = "pass" /\ Tracked' = Tracked
          /\ pass'.now = pass.now /\ pass'.todo = pass.todo \ {g} /\ pass'.item = g
          /\ stored[g] = None => pass'.pc = IF Due(g) THEN "fetch" ELSE "missing"
          /\ pass'.pc \in {"there", "fetch", "missing"}
      BY <1>8, ProbeMoves
    <2>2. h \in Tracked /\ Missed(h, p) /\ Since(h, p)' = Since(h, p) /\ Due(h)' = Due(h)
      BY <1>0, <2>1 DEF Missed, Since, Due
    <2>3. Kept(h, p) /\ Since(h, p) \in Nat /\ tracked[h].next_attempt \in Nat
      BY <1>1, <2>2
    <2>4. CASE h # g
      <3>1. AheadOfFetch(h) => AheadOfFetch(h)'
        BY <2>1, <2>4 DEF AheadOfFetch
      <3>2. OnTime(Since(h, p), CEILING, AheadOfFetch(h))'
        BY <2>1, <2>2, <2>3, <3>1 DEF Kept, OnTime
      <3> QED BY <2>1, <2>2, <2>3, <2>4, <3>2 DEF Kept
    <2>5. CASE h = g /\ Due(h)
      <3>1. pass'.pc = "fetch" /\ AheadOfFetch(h)'
        BY <2>1, <2>2, <2>5 DEF AheadOfFetch, Missed
      <3>2. OnTime(Since(h, p), CEILING, AheadOfFetch(h))'
        BY <1>0, <2>1, <2>2, <2>3, <3>1, Constants DEF Kept, OnTime
      <3> QED BY <2>1, <2>2, <2>3, <3>1, <3>2 DEF Kept
    \* Not due: the pass began before its next attempt.
    <2>6. CASE h = g /\ ~Due(h)
      <3>1. pass.now <= Since(h, p) + CEILING
        BY <1>0, <2>3, <2>6 DEF Due, Kept
      <3>2. OnTime(Since(h, p), CEILING, AheadOfFetch(h))'
        BY <2>1, <2>2, <3>1 DEF OnTime
      <3> QED BY <2>1, <2>2, <2>3, <2>6, <3>2 DEF Kept
    <2> QED BY <2>4, <2>5, <2>6
  <1>9. CASE FetchOk
    <2>1. /\ UNCHANGED <<awake, tracked>> /\ pass.pc = "fetch" /\ Tracked' = Tracked
          /\ pass'.now = pass.now /\ pass'.todo = pass.todo /\ pass'.item = pass.item /\ pass'.pc = "there"
          /\ stored'[h] = IF h = pass.item /\ stored[h] = None THEN clock ELSE stored[h]
      BY <1>0, <1>9, FetchMoves
    <2>2. h # pass.item /\ stored[h] = None
      BY <1>0, <2>1 DEF Missed
    <2>3. h \in Tracked /\ Missed(h, p) /\ Since(h, p)' = Since(h, p)
      BY <1>0, <2>1, <2>2 DEF Missed, Since
    <2>4. AheadOfFetch(h) => AheadOfFetch(h)'
      BY <2>1, <2>2 DEF AheadOfFetch
    <2>5. OnTime(Since(h, p), CEILING, AheadOfFetch(h))'
      BY <1>1, <2>1, <2>3, <2>4 DEF Kept, OnTime
    <2> QED BY <1>1, <2>1, <2>3, <2>5 DEF Kept
  <1>10. CASE FetchFails
    <2>1. /\ UNCHANGED <<awake, tracked, stored>> /\ pass.pc = "fetch" /\ Tracked' = Tracked
          /\ pass'.now = pass.now /\ pass'.todo = pass.todo /\ pass'.item = pass.item /\ pass'.pc = "missing"
      BY <1>10, FetchMoves
    <2>2. h \in Tracked /\ Missed(h, p) /\ Since(h, p)' = Since(h, p) /\ Due(h)' = Due(h)
      BY <1>0, <2>1 DEF Missed, Since, Due
    <2>3. CASE h # pass.item
      <3>1. AheadOfFetch(h) => AheadOfFetch(h)'
        BY <2>1, <2>3 DEF AheadOfFetch
      <3>2. OnTime(Since(h, p), CEILING, AheadOfFetch(h))'
        BY <1>1, <2>1, <2>2, <3>1 DEF Kept, OnTime
      <3> QED BY <1>1, <2>1, <2>2, <2>3, <3>2 DEF Kept
    \* The peer woke up, again perhaps, after the fetch began.
    <2>4. CASE h = pass.item
      <3>1. ~(awake[p] <= pass.since)
        BY <1>10, <2>2, <2>4 DEF FetchFails, ReachableThroughout, Missed
      <3>2. pass.now <= pass.since /\ pass.since \in Nat
        BY <2>1 DEF TimesInv, TimesType, Budget
      <3>3. pass.now <= Since(h, p)
        BY <1>0, <1>1, <2>2, <3>1, <3>2 DEF Since, Later
      <3>4. pass.now <= Since(h, p) + CEILING
        BY <1>0, <1>1, <2>2, <3>3
      <3>5. OnTime(Since(h, p), CEILING, AheadOfFetch(h))'
        BY <2>1, <2>2, <3>4 DEF OnTime
      <3> QED BY <1>1, <2>1, <2>2, <3>3, <3>5 DEF Kept
    <2> QED BY <2>3, <2>4
  <1>11. CASE Apply
    <2>1. PICK g \in Tracked, e \in TrackedEntry :
             /\ g = pass.item /\ pass.pc \in {"there", "missing"}
             /\ UNCHANGED <<clock, awake, stored>>
             /\ e = Settled(g, pass.pc = "there")
             /\ tracked'[g] = e /\ \A i \in Hashes \ {g} : tracked'[i] = tracked[i]
             /\ Tracked' = Tracked
             /\ pass'.pc = (IF pass.todo = {} THEN "wake" ELSE "pass") /\ pass'.now = pass.now
             /\ pass'.todo = pass.todo
      BY <1>11, ApplyMoves
    <2>2. PICK b \in BOOLEAN : b = (pass.pc = "there")
      OBVIOUS
    <2>3. /\ e.first_seen = tracked[g].first_seen
          /\ ~b /\ Due(g) => e.next_attempt <= pass.now + CEILING
          /\ b \/ ~Due(g) => e.next_attempt = tracked[g].next_attempt
          /\ e.next_attempt \in Nat
      <3>1. e = Settled(g, b)
        BY <2>1, <2>2
      <3>2. e.next_attempt \in Nat
        BY DEF TrackedEntry
      <3> QED BY <3>1, <3>2, SettledIs
    <2>4. tracked'[h].first_seen = tracked[h].first_seen
      BY <1>0, <2>1, <2>3
    <2>5. /\ h \in Tracked /\ Missed(h, p) /\ Since(h, p)' = Since(h, p)
          /\ pass'.pc \notin {"idle", "missing"} /\ pass.pc \notin {"idle", "fetch"}
      BY <1>0, <2>1, <2>4 DEF Missed, Since
    <2>6. AheadOfFetch(h) => AheadOfFetch(h)'
      BY <2>1, <2>5 DEF AheadOfFetch
    <2>7. OnTime(Since(h, p), CEILING, AheadOfFetch(h))'
      BY <1>1, <2>1, <2>5, <2>6 DEF Kept, OnTime
    <2>8. tracked'[h].next_attempt <= Since(h, p) + CEILING
      <3>1. CASE h # g
        BY <1>0, <1>1, <2>1, <2>5, <3>1 DEF Kept
      <3>2. CASE h = g /\ (b \/ ~Due(g))
        BY <1>1, <2>1, <2>3, <2>5, <3>2 DEF Kept
      <3>3. CASE h = g /\ ~b /\ Due(g)
        <4>1. pass.now <= Since(h, p)
          BY <1>1, <2>1, <2>2, <2>5, <3>3 DEF Kept
        <4>2. tracked'[h].next_attempt <= pass.now + CEILING /\ tracked'[h].next_attempt \in Nat
          BY <2>1, <2>3, <3>3
        <4> QED BY <1>0, <1>1, <2>5, <4>1, <4>2
      <3> QED BY <3>1, <3>2, <3>3
    <2> QED BY <2>5, <2>7, <2>8 DEF Kept
  <1>12. CASE WakeAll
    <2>1. /\ UNCHANGED <<awake, tracked, stored>> /\ pass.pc = "wake" /\ Tracked' = Tracked /\ pass'.pc = "idle"
      BY <1>12, WakeAllMoves
    <2>2. h \in Tracked /\ Missed(h, p) /\ Since(h, p)' = Since(h, p) /\ ~AheadOfFetch(h)
      BY <1>0, <2>1 DEF Missed, Since, AheadOfFetch, TimesInv, Shape
    <2>3. pass.now <= Since(h, p) + CEILING
      BY <1>1, <2>1, <2>2 DEF Kept, OnTime
    <2>4. PICK w \in Nat : w = Since(h, p)
      BY <1>1, <2>2
    <2>5. \A a \in BOOLEAN : OnTime(w, CEILING, a)'
      BY <1>0, <1>12, <2>3, <2>4, OnTimeEnds
    <2>6. PICK a \in BOOLEAN : a = AheadOfFetch(h)'
      BY DEF AheadOfFetch
    <2>7. OnTime(Since(h, p), CEILING, AheadOfFetch(h))'
      BY <2>2, <2>4, <2>5, <2>6 DEF OnTime
    <2> QED BY <1>1, <2>1, <2>2, <2>7 DEF Kept
  <1>13. CASE UNCHANGED vars
    BY <1>2, <1>13 DEF vars
  <1> QED BY <1>3, <1>4, <1>5, <1>6, <1>7, <1>8, <1>9, <1>10, <1>11, <1>12, <1>13 DEF Next

\* Whatever the backoff of a missing entry, its bytes are there once either of
\* its two peers has been awake for the ceiling of the backoff and two passes.
THEOREM FetchedBy == Spec => []PeerUsedInTime
  <1>1. Init => TimesInv /\ FetchedOnTime
    BY TimesInit DEF Init, FetchedOnTime, Tracked
  <1>2. TimesInv /\ FetchedOnTime => PeerUsedInTime
    <2> SUFFICES ASSUME TimesInv, FetchedOnTime, NEW h \in Tracked, NEW p \in Peers, Missed(h, p)
                 PROVE  clock - Since(h, p) <= CEILING + TwoPasses
      BY DEF PeerUsedInTime, Missed, Since, Sources
    <2>1. Since(h, p) \in Nat /\ clock \in Nat
      BY DEF TimesInv, TimesType, Tracked, TrackedEntry, Missed, Since, Later
    <2>2. OnTime(Since(h, p), CEILING, AheadOfFetch(h))
      BY DEF FetchedOnTime, AheadOfFetch, Missed
    <2>3. clock <= Since(h, p) + CEILING + TwoPasses
      BY <2>1, <2>2, OnTimeBound, Constants
    <2> QED BY <2>1, <2>3, Constants
  <1> QED BY <1>1, <1>2, TimesNext, FetchedNext, PTL DEF Spec

(***************************************************************************)
(* The schedule of the fetches.                                            *)
(***************************************************************************)
Schedule == INSTANCE DataInduction
                WITH Op <- LAMBDA ctx, at, n : IF n <= 1 THEN 0 ELSE at + Backoff(n - 1), Base <- 0

\* The recursion that NthTry solves.
LEMMA NthTryIs ==
    /\ \A n \in Nat : NthTry[n] \in Nat
    /\ NthTry[0] = 0 /\ NthTry[1] = 0
    /\ \A n \in Nat \ {0} : NthTry[n + 1] = NthTry[n] + Backoff(n)
  <1>1. PICK f : f = [n \in Nat |-> IF n = 0 THEN 0 ELSE IF n <= 1 THEN 0 ELSE f[n - 1] + Backoff(n - 1)]
    BY Schedule!Recursion
  <1>2. f = [n \in Nat |-> IF n <= 1 THEN 0 ELSE f[n - 1] + Backoff(n - 1)]
    <2>1. \A n \in Nat : f[n] = IF n <= 1 THEN 0 ELSE f[n - 1] + Backoff(n - 1)
      BY <1>1
    <2>2. f = [n \in Nat |-> f[n]]
      BY <1>1
    <2> QED BY <2>1, <2>2
  <1>3. NthTry = [n \in Nat |-> IF n <= 1 THEN 0 ELSE NthTry[n - 1] + Backoff(n - 1)]
    BY <1>2 DEF NthTry
  <1> HIDE DEF NthTry
  <1>4. \A n \in Nat : NthTry[n] = IF n <= 1 THEN 0 ELSE NthTry[n - 1] + Backoff(n - 1)
    BY <1>3
  <1>5. NthTry[0] = 0 /\ NthTry[1] = 0
    BY <1>4
  <1>6. \A n \in Nat \ {0} : NthTry[n + 1] = NthTry[n] + Backoff(n)
    <2> TAKE n \in Nat \ {0}
    <2>1. n + 1 \in Nat /\ ~(n + 1 <= 1) /\ (n + 1) - 1 = n
      OBVIOUS
    <2> QED BY <1>4, <2>1
  <1>7. \A n \in Nat : NthTry[n] \in Nat
    <2> DEFINE S == {n \in Nat : NthTry[n] \in Nat}
    <2>1. 0 \in S
      BY <1>5
    <2>2. ASSUME NEW n \in Nat, n \in S PROVE n + 1 \in S
      <3>1. CASE n = 0
        BY <1>5, <3>1
      <3>2. CASE n # 0
        BY <1>6, <2>2, <3>2, BackoffBound
      <3> QED BY <3>1, <3>2
    <2>3. Nat \subseteq S
      <3> HIDE DEF S
      <3> QED BY <2>1, <2>2, Schedule!Induction
    <2> QED BY <2>3
  <1> QED BY <1>5, <1>6, <1>7

\* The exponent is capped, and so is the count it is taken from.
LEMMA BackoffCapped ==
    ASSUME NEW n \in Nat
    PROVE  /\ Backoff(Least(n, MaxShift)) = Backoff(n)
           /\ Least(Least(n, MaxShift) + 1, MaxShift) = Least(n + 1, MaxShift)
  <1>1. MaxShift \in Nat
    BY SettleAssumption
  <1>2. Least(Least(n, MaxShift), MaxShift) = Least(n, MaxShift)
    BY <1>1 DEF Least
  <1>3. Least(Least(n, MaxShift) + 1, MaxShift) = Least(n + 1, MaxShift)
    BY <1>1 DEF Least
  <1> QED BY <1>2, <1>3 DEF Backoff

\* The fetch under way, or just failed, is not among the attempts of its entry.
Failing(h) == h = pass.item /\ pass.pc \in {"fetch", "missing"} /\ Due(h)
Counted(h) == IF Failing(h) THEN tries[h] - 1 ELSE tries[h]

OnSchedule(e, n) ==
    /\ e.attempts = Least(n, MaxShift)
    /\ n # 0 => e.first_seen + NthTry[n + 1] <= e.next_attempt

InHand(h) == h \in pass.todo \/ (Pending /\ h = pass.item)

ScheduleInv ==
    /\ tries \in [Hashes -> Nat]
    /\ \A h \in Hashes : /\ tracked[h] = None => tries[h] = 0
                         /\ Failing(h) => tries[h] # 0
    /\ pass.pc = "fetch" => Due(pass.item)
    /\ \A h \in Tracked : InHand(h) => tracked[h].first_seen <= pass.now
    /\ \A h \in Outstanding :
          (h = pass.item /\ pass.pc = "there") \/ OnSchedule(tracked[h], Counted(h))

\* What TimesInv says of the numbers of an entry ..
LEMMA EntryNumbers ==
    ASSUME TimesInv, NEW h \in Tracked
    PROVE  /\ tracked[h].first_seen \in Nat /\ tracked[h].next_attempt \in Nat /\ tracked[h].attempts \in Nat
           /\ tracked[h].first_seen <= clock /\ h \in Hashes
  BY DEF TimesInv, TimesType, Dated, Tracked, TrackedEntry

\* .. and of a pass.
LEMMA NumbersOfPass ==
    ASSUME TimesInv
    PROVE  /\ clock \in Nat /\ pass.now \in Nat /\ MaxShift \in Nat
           /\ Tracked \subseteq Hashes /\ Outstanding \subseteq Tracked /\ pass.todo \subseteq Outstanding
           /\ Pending => pass.item \in Outstanding \ pass.todo
           /\ pass.pc # "idle" => pass.now <= clock
           /\ pass.pc \in {"fetch", "there", "missing"} <=> Pending
  BY SettleAssumption DEF TimesInv, TimesType, Shape, Budget, Tracked, Outstanding, Pending

\* What handling an entry does to its attempts.
LEMMA SettledAttempts ==
    ASSUME TimesInv, NEW h \in Tracked
    PROVE  LET e == Settled(h, FALSE)
           IN  /\ Due(h) => e.attempts = Tries(h) /\ e.next_attempt = pass.now + Backoff(Tries(h))
               /\ ~Due(h) => e.attempts = tracked[h].attempts /\ e.next_attempt = tracked[h].next_attempt
  <1> DEFINE overdue == pass.now >= tracked[h].first_seen + WAKE_FALLBACK
             w == tracked[h].woken \/ FALSE \/ overdue
             n == IF Due(h) THEN Tries(h) ELSE tracked[h].attempts
             t == IF Due(h) THEN pass.now + Backoff(Tries(h)) ELSE tracked[h].next_attempt
  <1>1. tracked[h] \in TrackedEntry
    BY DEF TimesInv, TimesType, Tracked
  <1>2. Settled(h, FALSE) = [tracked[h] EXCEPT !.content_present = FALSE, !.woken = w,
                                               !.attempts = n, !.next_attempt = t]
    BY DEF Settled
  <1> HIDE DEF w, n, t
  <1>3. PICK o \in TrackedEntry : o = tracked[h]
    BY <1>1
  <1>6. PICK a : a = w
    OBVIOUS
  <1>4. Settled(h, FALSE) = [o EXCEPT !.content_present = FALSE, !.woken = a, !.attempts = n, !.next_attempt = t]
    BY <1>2, <1>3, <1>6
  <1>5. Settled(h, FALSE).attempts = n /\ Settled(h, FALSE).next_attempt = t
    BY <1>4 DEF TrackedEntry
  <1> QED BY <1>5 DEF n, t

\* An entry that is fetched for is on time for that fetch.
LEMMA FetchOnSchedule ==
    ASSUME TimesInv, NEW h \in Tracked, NEW n \in Nat, OnSchedule(tracked[h], n), Due(h),
           tracked[h].first_seen <= pass.now
    PROVE  tracked[h].first_seen + NthTry[n + 1] <= pass.now
  <1>1. /\ tracked[h].first_seen \in Nat /\ tracked[h].next_attempt \in Nat /\ pass.now \in Nat
        /\ tracked[h].next_attempt <= pass.now /\ NthTry[n + 1] \in Nat
    BY EntryNumbers, NumbersOfPass, NthTryIs DEF Due
  <1>2. CASE n = 0
    BY <1>1, <1>2, NthTryIs
  <1>3. CASE n # 0
    BY <1>1, <1>3 DEF OnSchedule
  <1> QED BY <1>2, <1>3

\* A new entry has not been fetched for; the others are left alone.
LEMMA TrackSchedule ==
    ASSUME TimesInv, ScheduleInv, BackoffKept, NEW h \in Hashes, Track(h)
    PROVE  ScheduleInv' /\ BackoffKept'
  <1>1. /\ UNCHANGED <<clock, pass>>
        /\ tracked[h] = None /\ tracked'[h] = Fresh /\ tracked'[h] # None
        /\ \A g \in Hashes \ {h} : tracked'[g] = tracked[g]
        /\ Tracked' = Tracked \cup {h} /\ Outstanding' = Outstanding \cup {h}
    BY TrackMoves
  <1>2. UNCHANGED tries
    BY DEF Track
  <1>3. h \notin Tracked /\ Pending' = Pending /\ tries[h] = 0
    BY <1>1 DEF Tracked, Pending, ScheduleInv
  <1>4. ~InHand(h) /\ ~InHand(h)' /\ ~Failing(h)' /\ Counted(h)' = 0
    BY <1>1, <1>2, <1>3, NumbersOfPass DEF InHand, Failing, Counted
  <1>5. ASSUME NEW g \in Hashes \ {h}
        PROVE  /\ Failing(g)' = Failing(g) /\ Counted(g)' = Counted(g) /\ InHand(g)' = InHand(g)
               /\ tracked'[g] = tracked[g] /\ tries'[g] = tries[g]
    BY <1>1, <1>2, <1>3 DEF Failing, Counted, InHand, Due
  <1>6. Fresh.first_seen = clock /\ Fresh.attempts = 0
    BY DEF Fresh
  <1>7. OnSchedule(tracked'[h], 0) /\ clock' - tracked'[h].first_seen >= NthTry[tries'[h]]
    BY <1>1, <1>2, <1>3, <1>6, NumbersOfPass, NthTryIs DEF OnSchedule, Least
  <1>8. ScheduleInv'
    <2>1. pass'.pc = "fetch" => Due(pass.item)'
      <3>1. pass.pc = "fetch" => pass.item \in Hashes \ {h}
        BY <1>3, NumbersOfPass
      <3> QED BY <1>1, <3>1 DEF ScheduleInv, Due
    <2>2. \A g \in Hashes : /\ tracked'[g] = None => tries'[g] = 0
                            /\ Failing(g)' => tries'[g] # 0
      BY <1>1, <1>4, <1>5 DEF ScheduleInv
    <2>3. \A g \in Tracked' : InHand(g)' => tracked'[g].first_seen <= pass'.now
      BY <1>1, <1>3, <1>4, <1>5, NumbersOfPass DEF ScheduleInv
    <2>4. \A g \in Outstanding' : (g = pass'.item /\ pass'.pc = "there") \/ OnSchedule(tracked'[g], Counted(g)')
      <3>1. OnSchedule(tracked'[h], Counted(h)')
        BY <1>4, <1>7
      <3>2. \A g \in Outstanding \ {h} : (g = pass'.item /\ pass'.pc = "there") \/ OnSchedule(tracked'[g], Counted(g)')
        BY <1>1, <1>5, NumbersOfPass DEF ScheduleInv
      <3> QED BY <1>1, <3>1, <3>2
    <2> QED BY <1>2, <2>1, <2>2, <2>3, <2>4 DEF ScheduleInv, OnSchedule
  <1>9. BackoffKept'
    BY <1>1, <1>2, <1>7, NumbersOfPass DEF BackoffKept
  <1> QED BY <1>8, <1>9

\* A fetch that begins counts, and begins no earlier than its entry allows.
LEMMA ProbeSchedule ==
    ASSUME TimesInv, ScheduleInv, BackoffKept, NEW h \in Hashes, Probe(h)
    PROVE  ScheduleInv' /\ BackoffKept'
  <1>1. /\ UNCHANGED <<clock, tracked>>
        /\ Tracked' = Tracked /\ Outstanding' = Outstanding
        /\ pass.pc = "pass" /\ h \in pass.todo
        /\ pass'.now = pass.now /\ pass'.todo = pass.todo \ {h} /\ pass'.item = h
        /\ stored[h] # None => pass'.pc = "there"
        /\ stored[h] = None => pass'.pc = IF Due(h) THEN "fetch" ELSE "missing"
    BY ProbeMoves
  <1>2. tries' = IF stored[h] = None /\ Due(h) THEN [tries EXCEPT ![h] = @ + 1] ELSE tries
    BY DEF Probe, Has
  <1>3. /\ tries' \in [Hashes -> Nat] /\ \A g \in Hashes \ {h} : tries'[g] = tries[g]
        /\ tries'[h] = IF stored[h] = None /\ Due(h) THEN tries[h] + 1 ELSE tries[h]
        /\ tries[h] \in Nat
    BY <1>2 DEF ScheduleInv
  <1>4. h \in Outstanding /\ h \in Tracked /\ InHand(h) /\ tracked[h].first_seen <= pass.now /\ pass.now <= clock
    BY <1>1, NumbersOfPass DEF InHand, ScheduleInv
  <1>5. \A g \in Hashes : ~Failing(g) /\ Counted(g) = tries[g] /\ Due(g)' = Due(g)
    BY <1>1 DEF Failing, Counted, Due
  <1>6. Failing(h)' <=> stored[h] = None /\ Due(h)
    BY <1>1, <1>5 DEF Failing
  <1>7. Counted(h)' = tries[h]
    BY <1>3, <1>6 DEF Counted
  <1>8. \A g \in Hashes \ {h} : ~Failing(g)' /\ Counted(g)' = tries[g] /\ (InHand(g)' => InHand(g))
    BY <1>1, <1>3 DEF Failing, Counted, InHand
  <1>9. OnSchedule(tracked[h], tries[h])
    BY <1>1, <1>4, <1>5 DEF ScheduleInv
  <1>10. ScheduleInv'
    <2>1. pass'.pc = "fetch" => Due(pass.item)'
      BY <1>1, <1>5
    <2>2. \A g \in Hashes : /\ tracked'[g] = None => tries'[g] = 0
                            /\ Failing(g)' => tries'[g] # 0
      BY <1>1, <1>3, <1>4, <1>6, <1>8 DEF ScheduleInv, Tracked
    <2>3. \A g \in Tracked' : InHand(g)' => tracked'[g].first_seen <= pass'.now
      BY <1>1, <1>4, <1>8, NumbersOfPass DEF ScheduleInv
    <2>4. \A g \in Outstanding' : (g = pass'.item /\ pass'.pc = "there") \/ OnSchedule(tracked'[g], Counted(g)')
      BY <1>1, <1>5, <1>7, <1>8, <1>9, NumbersOfPass DEF ScheduleInv
    <2> QED BY <1>3, <2>1, <2>2, <2>3, <2>4 DEF ScheduleInv, OnSchedule
  <1>11. BackoffKept'
    <2>1. ASSUME NEW g \in Tracked \ {h} PROVE clock' - tracked'[g].first_seen >= NthTry[tries'[g]]
      BY <1>1, <1>3, NumbersOfPass DEF BackoffKept
    <2>2. clock' - tracked'[h].first_seen >= NthTry[tries'[h]]
      <3>1. CASE stored[h] = None /\ Due(h)
        <4>1. tracked[h].first_seen + NthTry[tries[h] + 1] <= pass.now
          BY <1>3, <1>4, <1>9, <3>1, FetchOnSchedule
        <4>2. NthTry[tries[h] + 1] \in Nat /\ tracked[h].first_seen \in Nat /\ clock \in Nat /\ pass.now \in Nat
          BY <1>3, <1>4, EntryNumbers, NumbersOfPass, NthTryIs
        <4>3. tries'[h] = tries[h] + 1
          BY <1>3, <3>1
        <4> QED BY <1>1, <1>4, <4>1, <4>2, <4>3
      <3>2. CASE ~(stored[h] = None /\ Due(h))
        BY <1>1, <1>3, <1>4, <3>2 DEF BackoffKept
      <3> QED BY <3>1, <3>2
    <2> QED BY <1>1, <2>1, <2>2 DEF BackoffKept
  <1> QED BY <1>10, <1>11

\* A fetch that failed is settled: it is counted, and the next one waits for its backoff.
LEMMA ApplySchedule ==
    ASSUME TimesInv, ScheduleInv, BackoffKept, Apply
    PROVE  ScheduleInv' /\ BackoffKept'
  <1>1. PICK h \in Tracked, e \in TrackedEntry :
           /\ h = pass.item /\ pass.pc \in {"there", "missing"}
           /\ UNCHANGED clock
           /\ e = Settled(h, pass.pc = "there")
           /\ tracked'[h] = e /\ \A g \in Hashes \ {h} : tracked'[g] = tracked[g]
           /\ Tracked' = Tracked
           /\ Outstanding' = IF pass.pc = "there" THEN Outstanding \ {h} ELSE Outstanding
           /\ pass'.pc = (IF pass.todo = {} THEN "wake" ELSE "pass") /\ pass'.now = pass.now
           /\ pass'.todo = pass.todo
    BY ApplyMoves
  <1>2. UNCHANGED tries
    BY DEF Apply
  <1>3. /\ Pending /\ h \in Outstanding /\ h \in Hashes /\ InHand(h) /\ h \notin pass.todo
        /\ tries[h] \in Nat /\ tracked[h].first_seen <= pass.now
    BY <1>1, NumbersOfPass DEF InHand, ScheduleInv
  <1>4. e.first_seen = tracked[h].first_seen
    <2>1. (pass.pc = "there") \in BOOLEAN
      OBVIOUS
    <2> QED BY <1>1, <2>1, SettledIs
  <1>5. \A g \in Hashes : ~Failing(g)' /\ Counted(g)' = tries[g] /\ (InHand(g)' => g \in pass.todo)
    BY <1>1, <1>2 DEF Failing, Counted, InHand, Pending
  <1>6. \A g \in Hashes \ {h} : ~Failing(g) /\ Counted(g) = tries[g]
    BY <1>1 DEF Failing, Counted
  <1>7. pass.pc = "missing" => OnSchedule(e, tries[h])
    <2> SUFFICES ASSUME pass.pc = "missing" PROVE OnSchedule(e, tries[h])
      OBVIOUS
    <2>1. e = Settled(h, FALSE)
      <3>1. (pass.pc = "there") = FALSE
        OBVIOUS
      <3> QED BY <1>1, <3>1
    <2>2. OnSchedule(tracked[h], Counted(h))
      BY <1>1, <1>3 DEF ScheduleInv
    <2>3. CASE ~Due(h)
      <3>1. Counted(h) = tries[h]
        BY <2>3 DEF Counted, Failing
      <3>2. e.attempts = tracked[h].attempts /\ e.next_attempt = tracked[h].next_attempt
        BY <2>1, <2>3, SettledAttempts
      <3> QED BY <1>4, <2>2, <3>1, <3>2 DEF OnSchedule
    <2>4. CASE Due(h)
      <3>1. Failing(h) /\ tries[h] # 0 /\ Counted(h) = tries[h] - 1
        BY <1>1, <1>3, <2>4 DEF Failing, Counted, ScheduleInv
      <3>2. PICK n \in Nat : n = tries[h] - 1 /\ tries[h] = n + 1
        BY <1>3, <3>1
      <3>3. tracked[h].attempts = Least(n, MaxShift) /\ tracked[h].first_seen + NthTry[n + 1] <= pass.now
        BY <1>3, <2>2, <2>4, <3>1, <3>2, FetchOnSchedule DEF OnSchedule
      <3>4. Tries(h) = Least(n + 1, MaxShift)
        BY <3>3, BackoffCapped DEF Tries
      <3>5. e.attempts = Least(n + 1, MaxShift) /\ e.next_attempt = pass.now + Backoff(n + 1)
        <4>1. Backoff(Tries(h)) = Backoff(n + 1)
          BY <3>4, BackoffCapped
        <4>2. e.attempts = Tries(h) /\ e.next_attempt = pass.now + Backoff(Tries(h))
          BY <2>1, <2>4, SettledAttempts
        <4> QED BY <3>4, <4>1, <4>2
      <3>6. NthTry[n + 1 + 1] = NthTry[n + 1] + Backoff(n + 1)
        BY NthTryIs
      <3>7. /\ tracked[h].first_seen \in Nat /\ pass.now \in Nat
            /\ NthTry[n + 1] \in Nat /\ Backoff(n + 1) \in Nat
        BY EntryNumbers, NumbersOfPass, NthTryIs, BackoffBound
      <3>8. e.first_seen + NthTry[n + 1 + 1] <= e.next_attempt
        BY <1>4, <3>3, <3>5, <3>6, <3>7
      <3> QED BY <3>2, <3>5, <3>8 DEF OnSchedule
    <2> QED BY <2>3, <2>4
  <1>8. ScheduleInv'
    <2>1. pass'.pc # "fetch" /\ pass'.pc # "there"
      BY <1>1
    <2>2. \A g \in Hashes : tracked'[g] = None => tries'[g] = 0
      <3>1. tracked'[h] # None
        BY <1>1, SettleAssumption
      <3> QED BY <1>1, <1>2, <3>1 DEF ScheduleInv
    <2>3. \A g \in Tracked' : InHand(g)' => tracked'[g].first_seen <= pass'.now
      BY <1>1, <1>3, <1>5, NumbersOfPass DEF ScheduleInv, InHand
    <2>4. \A g \in Outstanding' : OnSchedule(tracked'[g], Counted(g)')
      <3>1. \A g \in Outstanding \ {h} : OnSchedule(tracked'[g], Counted(g)')
        BY <1>1, <1>5, <1>6, NumbersOfPass DEF ScheduleInv
      <3>2. h \in Outstanding' => OnSchedule(tracked'[h], Counted(h)')
        BY <1>1, <1>3, <1>5, <1>7
      <3>3. Outstanding' \subseteq Outstanding
        BY <1>1
      <3> QED BY <3>1, <3>2, <3>3
    <2> QED BY <1>2, <1>5, <2>1, <2>2, <2>3, <2>4 DEF ScheduleInv, OnSchedule
  <1>9. BackoffKept'
    BY <1>1, <1>2, <1>4, NumbersOfPass DEF BackoffKept
  <1> QED BY <1>8, <1>9

LEMMA ScheduleNext == TimesInv /\ ScheduleInv /\ BackoffKept /\ [Next]_vars => ScheduleInv' /\ BackoffKept'
  <1> SUFFICES ASSUME TimesInv, ScheduleInv, BackoffKept, [Next]_vars PROVE ScheduleInv' /\ BackoffKept'
    OBVIOUS
  <1>1. ASSUME NEW h \in Hashes, Arrive(h) PROVE ScheduleInv' /\ BackoffKept'
    BY <1>1 DEF Arrive, ScheduleInv, BackoffKept, Tracked, Outstanding, InHand, Pending, Failing, Counted,
                Due, OnSchedule
  <1>2. ASSUME NEW p \in Peers, WakesUp(p) \/ FallsAsleep(p) PROVE ScheduleInv' /\ BackoffKept'
    BY <1>2 DEF WakesUp, FallsAsleep, ScheduleInv, BackoffKept, Tracked, Outstanding, InHand, Pending,
                Failing, Counted, Due, OnSchedule
  <1>3. ASSUME Tick PROVE ScheduleInv' /\ BackoffKept'
    <2>1. UNCHANGED <<tracked, pass, tries>> /\ clock' = clock + 1
      BY <1>3 DEF Tick
    <2>2. ScheduleInv'
      BY <2>1 DEF ScheduleInv, Tracked, Outstanding, InHand, Pending, Failing, Counted, Due, OnSchedule
    <2>3. Tracked' = Tracked
      BY <2>1 DEF Tracked
    <2>4. ASSUME NEW h \in Tracked PROVE clock' - tracked'[h].first_seen >= NthTry[tries'[h]]
      <3>1. tracked[h].first_seen \in Nat /\ clock \in Nat /\ NthTry[tries[h]] \in Nat
        BY EntryNumbers, NumbersOfPass, NthTryIs DEF ScheduleInv
      <3> QED BY <2>1, <3>1 DEF BackoffKept
    <2> QED BY <2>2, <2>3, <2>4 DEF BackoffKept
  <1>4. ASSUME PassStart \/ WakeAll PROVE ScheduleInv' /\ BackoffKept'
    <2>1. /\ UNCHANGED <<clock, tracked, tries>> /\ Tracked' = Tracked /\ Outstanding' = Outstanding
          /\ pass.pc \in {"idle", "wake"} /\ pass'.pc \in {"idle", "pass"}
          /\ pass'.todo = {} \/ (pass'.now = clock /\ pass'.todo = Outstanding)
      <3>1. CASE PassStart
        <4>1. UNCHANGED tries
          BY <3>1 DEF PassStart
        <4> QED BY <3>1, <4>1, PassStartMoves
      <3>2. CASE WakeAll
        <4>1. UNCHANGED tries
          BY <3>2 DEF WakeAll
        <4> QED BY <3>2, <4>1, WakeAllMoves
      <3> QED BY <1>4, <3>1, <3>2
    <2>2. ~Pending' /\ \A h : ~Failing(h) /\ ~Failing(h)' /\ Counted(h)' = Counted(h)
      BY <2>1 DEF Pending, Failing, Counted
    <2>3. \A h \in Tracked : InHand(h)' => tracked'[h].first_seen <= pass'.now
      BY <2>1, <2>2, EntryNumbers DEF InHand
    <2>4. \A h \in Outstanding : OnSchedule(tracked'[h], Counted(h)')
      BY <2>1, <2>2 DEF ScheduleInv
    <2>5. ScheduleInv'
      BY <2>1, <2>2, <2>3, <2>4 DEF ScheduleInv, OnSchedule
    <2> QED BY <2>1, <2>5 DEF BackoffKept
  <1>5. ASSUME FetchOk \/ FetchFails PROVE ScheduleInv' /\ BackoffKept'
    <2>1. /\ UNCHANGED <<clock, tracked>> /\ Tracked' = Tracked /\ Outstanding' = Outstanding
          /\ pass.pc = "fetch" /\ pass'.pc \in {"there", "missing"}
          /\ pass'.now = pass.now /\ pass'.todo = pass.todo /\ pass'.item = pass.item
      BY <1>5, FetchMoves
    <2>2. UNCHANGED tries
      BY <1>5 DEF FetchOk, FetchFails
    <2>3. \A h : /\ InHand(h)' = InHand(h) /\ Due(h)' = Due(h)
                 /\ h # pass.item \/ pass'.pc = "missing" => Failing(h)' = Failing(h) /\ Counted(h)' = Counted(h)
                 /\ Failing(h)' => Failing(h)
      BY <2>1, <2>2 DEF InHand, Pending, Due, Failing, Counted
    <2>4. ScheduleInv'
      BY <2>1, <2>2, <2>3 DEF ScheduleInv, OnSchedule
    <2> QED BY <2>1, <2>2, <2>4 DEF BackoffKept
  <1>6. CASE UNCHANGED vars
    BY <1>6 DEF vars, ScheduleInv, BackoffKept, Tracked, Outstanding, InHand, Pending, Failing, Counted,
                Due, OnSchedule
  <1> QED BY <1>1, <1>2, <1>3, <1>4, <1>5, <1>6, TrackSchedule, ProbeSchedule, ApplySchedule DEF Next

\* "An author that is asleep for hours costs a couple of attempts, not
\* thousands": the n-th fetch of an entry never comes before the sum of the
\* backoffs between, whatever the length of the passes.
THEOREM BackoffHolds == Spec => []BackoffKept
  <1>1. Init => ScheduleInv /\ BackoffKept
    <2> SUFFICES ASSUME Init PROVE ScheduleInv /\ BackoffKept
      OBVIOUS
    <2>1. Tracked = {} /\ Outstanding = {} /\ pass.pc = "idle"
      BY DEF Init, Tracked, Outstanding, Resting
    <2> QED BY <2>1 DEF Init, ScheduleInv, BackoffKept, Failing
  <1> QED BY <1>1, TimesInit, TimesNext, ScheduleNext, PTL DEF Spec

=============================================================================
