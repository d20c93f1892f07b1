---------------------------- MODULE ProcessProofs ----------------------------
(***************************************************************************)
(* Theorems about StashProcess, for every set of environments, every       *)
(* bounds of the knobs, every log line and every failure.                  *)
(***************************************************************************)
EXTENDS StashProcess, FiniteSetTheorems, TLAPS

(***************************************************************************)
(* The knobs.                                                              *)
(***************************************************************************)
LEMMA ParseClamp ==
    ASSUME NEW v, NEW max \in Nat, NEW low \in Nat, NEW high \in Nat, NEW default \in low..high
    PROVE  Clamp(UnwrapOr(Parse(v, max), default), low, high) \in low..high
  <1>1. UnwrapOr(Parse(v, max), default) \in Nat
    BY ConfigAssumption DEF UnwrapOr, Parse
  <1> QED BY <1>1 DEF Clamp

LEMMA Scale ==
    ASSUME NEW a \in Nat, NEW b \in Nat, NEW c \in Nat, a <= b
    PROVE  a * c <= b * c /\ a * c \in Nat
  OBVIOUS

\* The window in milliseconds: no product of an accepted number of hours overflows.
LEMMA WindowScaled ==
    ASSUME NEW hours \in MIN_RETENTION_HOURS..MAX_RETENTION_HOURS
    PROVE  FromHours(hours) \in MIN_RETENTION_HOURS * MS_PER_HOUR..MAX_RETENTION_HOURS * MS_PER_HOUR
  <1>1. /\ MIN_RETENTION_HOURS \in Nat /\ MAX_RETENTION_HOURS \in Nat /\ MS_PER_HOUR \in Nat /\ U64_MAX \in Nat
        /\ MAX_RETENTION_HOURS * MS_PER_HOUR <= U64_MAX
    BY ConfigAssumption
  <1> DEFINE low  == MIN_RETENTION_HOURS * MS_PER_HOUR
             mid  == hours * MS_PER_HOUR
             high == MAX_RETENTION_HOURS * MS_PER_HOUR
  <1>2. low <= mid /\ mid <= high /\ low \in Nat /\ mid \in Nat /\ high \in Nat /\ high <= U64_MAX
    BY <1>1, Scale
  <1>3. FromHours(hours) = IF mid > U64_MAX THEN U64_MAX ELSE mid
    BY DEF FromHours, SaturatingMul
  <1> HIDE DEF low, mid, high
  <1>4. FromHours(hours) \in low..high
    BY <1>1, <1>2, <1>3
  <1> QED BY <1>4 DEF low, high

LEMMA EnvSane ==
    ASSUME NEW e
    PROVE  /\ FromEnv(e).port \in 1..U16_MAX
           /\ FromEnv(e).retention_ms \in
                  MIN_RETENTION_HOURS * MS_PER_HOUR..MAX_RETENTION_HOURS * MS_PER_HOUR
           /\ FromEnv(e).prune_interval_min \in MIN_PRUNE_INTERVAL_MIN..MAX_PRUNE_INTERVAL_MIN
  <1>1. /\ U16_MAX \in Nat /\ U64_MAX \in Nat /\ DEFAULT_PORT \in 1..U16_MAX
        /\ MIN_RETENTION_HOURS \in Nat /\ MAX_RETENTION_HOURS \in Nat
        /\ DEFAULT_RETENTION_HOURS \in MIN_RETENTION_HOURS..MAX_RETENTION_HOURS
        /\ MIN_PRUNE_INTERVAL_MIN \in Nat /\ MAX_PRUNE_INTERVAL_MIN \in Nat
        /\ DEFAULT_PRUNE_INTERVAL_MIN \in MIN_PRUNE_INTERVAL_MIN..MAX_PRUNE_INTERVAL_MIN
    BY ConfigAssumption
  <1>2. FromEnv(e).port \in 1..U16_MAX
    <2> DEFINE port == Parse(e.PORT, U16_MAX)
    <2>1. port \in 0..U16_MAX \/ port = None
      BY DEF Parse
    <2>2. FromEnv(e).port = IF port = 0 THEN DEFAULT_PORT ELSE UnwrapOr(port, DEFAULT_PORT)
      BY DEF FromEnv
    <2> HIDE DEF port
    <2> QED BY <1>1, <2>1, <2>2 DEF UnwrapOr
  <1>3. FromEnv(e).retention_ms \in
            MIN_RETENTION_HOURS * MS_PER_HOUR..MAX_RETENTION_HOURS * MS_PER_HOUR
    <2> DEFINE hours == Clamp(UnwrapOr(Parse(e.RETENTION_HOURS, U64_MAX), DEFAULT_RETENTION_HOURS),
                              MIN_RETENTION_HOURS, MAX_RETENTION_HOURS)
    <2>1. hours \in MIN_RETENTION_HOURS..MAX_RETENTION_HOURS
      BY <1>1, ParseClamp
    <2>2. FromEnv(e).retention_ms = FromHours(hours)
      BY DEF FromEnv
    <2> HIDE DEF hours
    <2> QED BY <2>1, <2>2, WindowScaled
  <1>4. FromEnv(e).prune_interval_min \in MIN_PRUNE_INTERVAL_MIN..MAX_PRUNE_INTERVAL_MIN
    <2>1. FromEnv(e).prune_interval_min =
              Clamp(UnwrapOr(Parse(e.PRUNE_INTERVAL_MIN, U64_MAX), DEFAULT_PRUNE_INTERVAL_MIN),
                    MIN_PRUNE_INTERVAL_MIN, MAX_PRUNE_INTERVAL_MIN)
      BY DEF FromEnv
    <2> QED BY <1>1, <2>1, ParseClamp
  <1> QED BY <1>2, <1>3, <1>4

\* A process has a configuration out of FromEnv; the prune loop its period.
KnobsInv ==
    /\ phase = "down" => config = None
    /\ config # None => /\ \E e : config = FromEnv(e)
                        /\ phase # "spawning" => pruning = config.prune_interval_min * 60

LEMMA KnobsNext == KnobsInv /\ [Next]_vars => KnobsInv'
  <1> SUFFICES ASSUME KnobsInv, [Next]_vars PROVE KnobsInv'
    OBVIOUS
  <1> USE DEF KnobsInv
  <1>1. CASE Boot
    BY <1>1 DEF Boot
  <1>2. CASE SpawnOk
    BY <1>2 DEF SpawnOk
  <1>3. ASSUME NEW how, Ends(how) PROVE KnobsInv'
    BY <1>3 DEF Ends
  <1>4. CASE SpawnFails \/ ServeFailureEnds \/ Return \/ Killed
    BY <1>3, <1>4 DEF SpawnFails, ServeFailureEnds, Return, Killed
  <1>5. CASE StopSignalled \/ Shutdown
    BY <1>5 DEF StopSignalled, Shutdown
  <1>6. CASE BootRefused \/ Redeploy \/ Bind \/ ExportBatch \/ Signal \/ UNCHANGED vars
    BY <1>6 DEF BootRefused, Redeploy, Bind, ExportBatch, Signal, vars, main
  <1>7. ASSUME NEW event \in Messages, Emit(event) PROVE KnobsInv'
    BY <1>7 DEF Emit, main
  <1>8. ASSUME NEW fields \in Spans, SpanEnds(fields) PROVE KnobsInv'
    BY <1>8 DEF SpanEnds, main
  <1> QED BY <1>1, <1>2, <1>4, <1>5, <1>6, <1>7, <1>8 DEF Next, Process

\* Whatever the environment holds, the port, the window and the period of the
\* prune loop are within the bounds config.rs sets.
THEOREM Knobs == Spec => []KnobsSane
  <1>1. Init => KnobsInv
    BY DEF Init, KnobsInv
  <1>2. KnobsInv => KnobsSane
    <2> SUFFICES ASSUME KnobsInv, config # None PROVE KnobsSane
      BY DEF KnobsSane
    <2>1. PICK e : config = FromEnv(e)
      BY DEF KnobsInv
    <2>2. /\ config.port \in 1..U16_MAX
          /\ config.retention_ms \in MIN_RETENTION_HOURS * MS_PER_HOUR..MAX_RETENTION_HOURS * MS_PER_HOUR
          /\ config.prune_interval_min \in MIN_PRUNE_INTERVAL_MIN..MAX_PRUNE_INTERVAL_MIN
      BY <2>1, EnvSane
    <2>3. phase # "spawning" => pruning \in MIN_PRUNE_INTERVAL_MIN * 60..MAX_PRUNE_INTERVAL_MIN * 60
      BY <2>2, ConfigAssumption DEF KnobsInv
    <2> QED BY <2>2, <2>3 DEF KnobsSane
  <1> QED BY <1>1, <1>2, KnobsNext, PTL DEF Spec

(***************************************************************************)
(* The gate.                                                               *)
(***************************************************************************)
\* The environment a process runs with is the one it read at its start: it is
\* edited only while nothing runs, and nothing serves then.
GateInv ==
    /\ env \in Envs
    /\ phase # "down" => config = FromEnv(env)
    /\ phase = "down" => serve = "none"

LEMMA GateNext == GateInv /\ [Next]_vars => GateInv'
  <1> SUFFICES ASSUME GateInv, [Next]_vars PROVE GateInv'
    OBVIOUS
  <1> USE DEF GateInv
  <1>1. CASE Boot \/ BootRefused \/ Redeploy
    BY <1>1 DEF Boot, BootRefused, Redeploy, Running
  <1>2. CASE SpawnOk
    BY <1>2 DEF SpawnOk
  <1>3. ASSUME NEW how, Ends(how) PROVE GateInv'
    BY <1>3 DEF Ends
  <1>4. CASE SpawnFails \/ ServeFailureEnds \/ Return \/ Killed
    BY <1>3, <1>4 DEF SpawnFails, ServeFailureEnds, Return, Killed
  <1>5. CASE StopSignalled \/ Shutdown \/ Bind
    BY <1>5 DEF StopSignalled, Shutdown, Bind
  <1>6. CASE ExportBatch \/ Signal \/ UNCHANGED vars
    BY <1>6 DEF ExportBatch, Signal, vars, main
  <1>7. ASSUME NEW event \in Messages, Emit(event) PROVE GateInv'
    BY <1>7 DEF Emit, main
  <1>8. ASSUME NEW fields \in Spans, SpanEnds(fields) PROVE GateInv'
    BY <1>8 DEF SpanEnds, main
  <1> QED BY <1>1, <1>2, <1>4, <1>5, <1>6, <1>7, <1>8 DEF Next, Process

\* However often the deployment is edited between two processes, a process
\* that listens lets in exactly the callers its own deployment lets in.
THEOREM GateHolds == Spec => []GateAsDeployed
  <1>1. Init => GateInv
    BY DEF Init, GateInv
  <1>2. GateInv => GateAsDeployed
    <2> SUFFICES ASSUME GateInv, serve = "listening", NEW header \in Headers
                 PROVE  Gate!Allowed(header) <=> \/ env.PSK = None
                                                 \/ env.PSK.text \in {"", Gate!BearerToken(header)}
      BY DEF GateAsDeployed
    <2>1. config.psk = Secret(env.PSK)
      BY DEF GateInv, FromEnv
    <2>2. env.PSK # None => env.PSK.text # None
      BY ProcessAssumption DEF GateInv
    <2>3. Gate!Allowed(header) <=> \/ config.psk = None
                                   \/ /\ Gate!BearerToken(header) # None
                                      /\ Gate!BearerToken(header) = config.psk
      BY DEF Gate!Allowed, Gate!Authorize
    <2> QED BY <2>1, <2>2, <2>3 DEF Secret
  <1> QED BY <1>1, <1>2, GateNext, PTL DEF Spec

(***************************************************************************)
(* The sorted ranges.                                                      *)
(***************************************************************************)
\* The two folds: over the ranges of a line, and over its characters.
Copies   == INSTANCE DataInduction WITH Op <- LAMBDA line, acc, r : Copy(line, acc, r),
                                        Base <- [output |-> <<>>, copied |-> 0]
Squeezes == INSTANCE DataInduction WITH Op <- LAMBDA line, acc, c : Squeezed(acc, c), Base <- <<>>

Intervals(n) == [start : 0..n, end : 0..n]
InOrder(seq) == \A i, j \in DOMAIN seq : i < j => Before(seq[i], seq[j])

\* Of any ranges one comes after all the others.
LEMMA LastRange ==
    ASSUME NEW n \in Nat, NEW ranges \in SUBSET Intervals(n), ranges # {}
    PROVE  \E x \in ranges : \A y \in ranges : Before(y, x)
  <1> DEFINE starts == {k \in Nat : \E y \in ranges : k = n - y.start}
  <1>1. \A y \in ranges : y.start \in 0..n /\ y.end \in 0..n
    BY DEF Intervals
  <1>2. \A y \in ranges : n - y.start \in starts
    BY <1>1
  <1>3. PICK a \in starts : \A k \in starts : a <= k
    <2>1. starts \in SUBSET Nat /\ starts # {}
      BY <1>2
    <2> HIDE DEF starts
    <2> QED BY <2>1, Squeezes!LeastNumber
  <1> DEFINE ends == {k \in Nat : \E y \in ranges : a = n - y.start /\ k = n - y.end}
  <1>4. \A y \in ranges : a = n - y.start => n - y.end \in ends
    BY <1>1
  <1>5. PICK b \in ends : \A k \in ends : b <= k
    <2>1. ends \in SUBSET Nat /\ ends # {}
      BY <1>3, <1>4
    <2> HIDE DEF ends
    <2> QED BY <2>1, Squeezes!LeastNumber
  <1>6. PICK x \in ranges : a = n - x.start /\ b = n - x.end
    BY <1>5
  <1>7. ASSUME NEW y \in ranges PROVE Before(y, x)
    <2>1. a <= n - y.start
      BY <1>2, <1>3
    <2>2. a = n - y.start => b <= n - y.end
      BY <1>4, <1>5
    <2>3. y.start \in 0..n /\ y.end \in 0..n /\ x.start \in 0..n /\ x.end \in 0..n
      BY <1>1
    <2> HIDE DEF starts, ends
    <2> QED BY <1>6, <2>1, <2>2, <2>3 DEF Before
  <1> QED BY <1>7

\* Finitely many ranges can be put in order: the last one goes behind the rest.
LEMMA SortedSome ==
    ASSUME NEW n \in Nat, NEW ranges \in SUBSET Intervals(n), IsFiniteSet(ranges)
    PROVE  \E seq \in SetToSeqs(ranges) : InOrder(seq)
  <1> DEFINE Sortable == {k \in Nat : \A T \in SUBSET Intervals(n) :
                              IsFiniteSet(T) /\ Cardinality(T) = k =>
                                  \E seq \in SetToSeqs(T) : InOrder(seq)}
  <1>1. 0 \in Sortable
    <2> SUFFICES ASSUME NEW T \in SUBSET Intervals(n), IsFiniteSet(T), Cardinality(T) = 0
                 PROVE  \E seq \in SetToSeqs(T) : InOrder(seq)
      OBVIOUS
    <2>1. T = {}
      BY FS_EmptySet
    <2>2. <<>> \in [1..0 -> T] /\ DOMAIN <<>> = {}
      OBVIOUS
    <2>3. <<>> \in SetToSeqs(T)
      BY <2>1, <2>2, FS_EmptySet DEF SetToSeqs
    <2> QED BY <2>2, <2>3 DEF InOrder
  <1>2. ASSUME NEW k \in Nat, k \in Sortable PROVE k + 1 \in Sortable
    <2> SUFFICES ASSUME NEW T \in SUBSET Intervals(n), IsFiniteSet(T), Cardinality(T) = k + 1
                 PROVE  \E seq \in SetToSeqs(T) : InOrder(seq)
      OBVIOUS
    <2>1. T # {}
      BY FS_EmptySet
    <2>2. PICK x \in T : \A y \in T : Before(y, x)
      BY <2>1, LastRange
    <2> DEFINE T0 == T \ {x}
    <2>3. IsFiniteSet(T0) /\ Cardinality(T0) = k
      <3>1. IsFiniteSet(T0) /\ Cardinality(T0) = Cardinality(T) - 1
        BY <2>2, FS_RemoveElement
      <3> QED BY <3>1
    <2>4. PICK f \in SetToSeqs(T0) : InOrder(f)
      BY <1>2, <2>3
    <2>5. f \in [1..k -> T0] /\ \A i, j \in 1..k : i # j => f[i] # f[j]
      BY <2>3, <2>4 DEF SetToSeqs
    <2> DEFINE g == [i \in 1..k + 1 |-> IF i = k + 1 THEN x ELSE f[i]]
    <2>6. \A i \in 1..k + 1 : i # k + 1 => i \in 1..k
      OBVIOUS
    <2>7. g \in SetToSeqs(T)
      <3>1. g \in [1..k + 1 -> T]
        BY <2>5, <2>6
      <3>2. \A i, j \in 1..k + 1 : i # j => g[i] # g[j]
        BY <2>5, <2>6
      <3> HIDE DEF g
      <3> QED BY <3>1, <3>2 DEF SetToSeqs
    <2>8. ASSUME NEW i \in 1..k + 1, NEW j \in 1..k + 1, i < j PROVE Before(g[i], g[j])
      <3>1. i \in 1..k /\ g[i] = f[i] /\ g[i] \in T
        BY <2>5, <2>8
      <3>2. CASE j = k + 1
        BY <2>2, <3>1, <3>2
      <3>3. CASE j # k + 1
        <4>1. j \in 1..k /\ g[j] = f[j]
          BY <3>3
        <4> QED BY <2>4, <2>5, <2>8, <3>1, <4>1 DEF InOrder
      <3> QED BY <3>2, <3>3
    <2>9. InOrder(g)
      <3>1. DOMAIN g = 1..k + 1
        OBVIOUS
      <3> HIDE DEF g
      <3> QED BY <2>8, <3>1 DEF InOrder
    <2> QED BY <2>7, <2>9
  <1>3. Nat \subseteq Sortable
    <2> HIDE DEF Sortable
    <2> QED BY <1>1, <1>2, Squeezes!Induction
  <1>4. Cardinality(ranges) \in Nat
    BY FS_CardinalityType
  <1> QED BY <1>3, <1>4

\* A line has finitely many ranges.
LEMMA IntervalsFinite ==
    ASSUME NEW n \in Nat
    PROVE  IsFiniteSet(Intervals(n))
  <1> DEFINE pairs == (0..n) \X (0..n)
             f == [p \in pairs |-> [start |-> p[1], end |-> p[2]]]
  <1>1. IsFiniteSet(pairs)
    <2>1. IsFiniteSet(0..n)
      BY FS_Interval
    <2> QED BY <2>1, FS_Product
  <1>2. f \in Surjection(pairs, Intervals(n))
    <2>1. f \in [pairs -> Intervals(n)]
      BY DEF Intervals
    <2>2. ASSUME NEW r \in Intervals(n) PROVE \E p \in pairs : f[p] = r
      <3>1. <<r.start, r.end>> \in pairs
        BY DEF Intervals
      <3>2. r = [start |-> r.start, end |-> r.end]
        BY DEF Intervals
      <3> QED BY <3>1, <3>2
    <2> HIDE DEF f
    <2> QED BY <2>1, <2>2 DEF Surjection
  <1> HIDE DEF f, pairs
  <1> QED BY <1>1, <1>2, FS_Surjection

\* The ranges of a line, in order, each one and no other.
LEMMA SortedRanges ==
    ASSUME NEW C, NEW line \in Seq(C)
    PROVE  /\ Sorted(Ranges(line)) \in Seq(Ranges(line))
           /\ InOrder(Sorted(Ranges(line)))
           /\ \A r \in Ranges(line) : \E i \in DOMAIN Sorted(Ranges(line)) : Sorted(Ranges(line))[i] = r
  <1> DEFINE T == Ranges(line)
             n == Cardinality(T)
             f == Sorted(T)
  <1>1. T \in SUBSET Intervals(Len(line))
    BY DEF Ranges, Runs, Intervals
  <1>2. IsFiniteSet(T)
    BY <1>1, IntervalsFinite, FS_Subset
  <1>3. f \in SetToSeqs(T) /\ InOrder(f)
    <2>1. \E seq \in SetToSeqs(T) : InOrder(seq)
      BY <1>1, <1>2, SortedSome
    <2> QED BY <2>1 DEF Sorted, InOrder
  <1> HIDE DEF f, T
  <1>4. n \in Nat
    BY <1>2, FS_CardinalityType
  <1>5. f \in [1..n -> T] /\ \A i, j \in 1..n : i # j => f[i] # f[j]
    BY <1>3 DEF SetToSeqs
  <1>6. f \in Injection(1..n, T)
    BY <1>5 DEF Injection, IsInjective
  <1>7. Cardinality(1..n) = n
    BY <1>4, FS_Interval
  <1>8. f \in Surjection(1..n, T)
    BY <1>2, <1>4, <1>6, <1>7, FS_Injection
  <1>9. \A r \in T : \E i \in DOMAIN f : f[i] = r
    BY <1>5, <1>8 DEF Surjection
  <1>10. f \in Seq(T)
    BY <1>4, <1>5
  <1> QED BY <1>3, <1>9, <1>10 DEF f, T

(***************************************************************************)
(* Squeeze, one character after another.                                   *)
(***************************************************************************)
SqueezedTo(Q, seq) == /\ Q[0] = <<>>
                      /\ \A k \in 1..Len(seq) : Q[k] = Squeezed(Q[k - 1], seq[k])

\* Squeeze is what it comes to after the last character.
LEMMA SqueezeSteps ==
    ASSUME NEW S, NEW seq \in Seq(S)
    PROVE  \E Q : SqueezedTo(Q, seq) /\ Q[Len(seq)] = Squeeze(seq)
  <1>1. Squeezes!Fold(0, seq) = Squeeze(seq)
    BY DEF Squeezes!Fold, Squeeze, FoldLeft, MapThenFoldSet, Max,
           Squeezes!FoldLeft, Squeezes!MapThenFoldSet, Squeezes!Max
  <1>2. PICK Q : /\ Q[0] = <<>>
                 /\ \A k \in 1..Len(seq) : Q[k] = Squeezed(Q[k - 1], seq[k])
                 /\ Q[Len(seq)] = Squeezes!Fold(0, seq)
    BY Squeezes!FoldSteps
  <1> QED BY <1>1, <1>2 DEF SqueezedTo

\* One more character is one more step.
LEMMA SqueezeAppend ==
    ASSUME NEW S, NEW seq \in Seq(S), NEW c \in S
    PROVE  Squeeze(Append(seq, c)) = Squeezed(Squeeze(seq), c)
  <1> DEFINE n == Len(seq)
             longer == Append(seq, c)
  <1>1. n \in Nat /\ longer \in Seq(S) /\ Len(longer) = n + 1 /\ longer[n + 1] = c
    OBVIOUS
  <1>2. \A k \in 1..n : longer[k] = seq[k]
    OBVIOUS
  <1>3. PICK Q : SqueezedTo(Q, seq) /\ Q[n] = Squeeze(seq)
    BY SqueezeSteps
  <1> HIDE DEF longer
  <1>4. PICK P : SqueezedTo(P, longer) /\ P[n + 1] = Squeeze(longer)
    BY <1>1, SqueezeSteps
  <1> HIDE DEF n
  <1> DEFINE Same == {k \in 0..n : P[k] = Q[k]}
  <1>5. 0..n \subseteq Same
    <2>1. 0 \in Same
      BY <1>1, <1>3, <1>4 DEF SqueezedTo
    <2>2. ASSUME NEW k \in 0..n, k \in Same, k + 1 \in 0..n PROVE k + 1 \in Same
      <3>1. k + 1 \in 1..n /\ k + 1 \in 1..n + 1 /\ (k + 1) - 1 = k
        BY <1>1, <2>2
      <3>2. Q[k + 1] = Squeezed(Q[k], seq[k + 1]) /\ P[k + 1] = Squeezed(P[k], longer[k + 1])
        BY <1>1, <1>3, <1>4, <3>1 DEF SqueezedTo, n
      <3> QED BY <1>2, <2>2, <3>1, <3>2
    <2> HIDE DEF Same
    <2> QED BY <1>1, <2>1, <2>2, Squeezes!BoundedInduction
  <1>6. P[n] = Q[n]
    BY <1>1, <1>5
  <1>7. P[n + 1] = Squeezed(P[n], c)
    <2>1. n + 1 \in 1..n + 1 /\ (n + 1) - 1 = n
      BY <1>1
    <2> QED BY <1>1, <1>4, <2>1 DEF SqueezedTo
  <1> QED BY <1>3, <1>4, <1>6, <1>7 DEF longer

\* Nothing but characters of the sequence is put out.
LEMMA SqueezedSeqs ==
    ASSUME NEW S, NEW seq \in Seq(S), NEW Q, SqueezedTo(Q, seq), NEW k \in 0..Len(seq)
    PROVE  Q[k] \in Seq(S)
  <1> DEFINE n == Len(seq)
             Typed == {j \in 0..n : Q[j] \in Seq(S)}
  <1>1. n \in Nat
    OBVIOUS
  <1>2. 0 \in Typed
    <2>1. <<>> \in Seq(S) /\ 0 \in 0..n
      OBVIOUS
    <2> QED BY <2>1 DEF SqueezedTo
  <1>3. ASSUME NEW j \in 0..n, j \in Typed, j + 1 \in 0..n PROVE j + 1 \in Typed
    <2>1. j + 1 \in 1..n /\ (j + 1) - 1 = j /\ seq[j + 1] \in S
      BY <1>3
    <2>2. Q[j + 1] = Squeezed(Q[j], seq[j + 1])
      BY <2>1 DEF SqueezedTo
    <2>3. Q[j + 1] = Q[j] \/ Q[j + 1] = Append(Q[j], seq[j + 1])
      BY <2>2 DEF Squeezed
    <2>4. Q[j] \in Seq(S) /\ j + 1 \in 0..n
      BY <1>3
    <2>5. Append(Q[j], seq[j + 1]) \in Seq(S)
      BY <2>1, <2>4
    <2>6. Q[j + 1] \in Seq(S)
      BY <2>3, <2>4, <2>5
    <2> QED BY <2>4, <2>6
  <1>4. 0..n \subseteq Typed
    <2> HIDE DEF Typed, n
    <2> QED BY <1>1, <1>2, <1>3, Squeezes!BoundedInduction
  <1> QED BY <1>4

\* A marker after a marker is the same marker.
LEMMA OneMarker ==
    ASSUME NEW S, NEW out \in Seq(S)
    PROVE  Squeezed(Squeezed(out, REDACTED), REDACTED) = Squeezed(out, REDACTED)
  <1>1. CASE out # <<>> /\ Last(out) = REDACTED
    BY <1>1 DEF Squeezed
  <1>2. CASE ~(out # <<>> /\ Last(out) = REDACTED)
    <2>1. Squeezed(out, REDACTED) = Append(out, REDACTED)
      BY <1>2 DEF Squeezed
    <2>2. out \in Seq(S \cup {REDACTED})
      OBVIOUS
    <2>3. Append(out, REDACTED) # <<>> /\ Last(Append(out, REDACTED)) = REDACTED
      BY <2>2 DEF Last
    <2> QED BY <2>1, <2>3 DEF Squeezed
  <1> QED BY <1>1, <1>2

(***************************************************************************)
(* A line read by positions: Q[d] is what is squeezed out of the first d.  *)
(***************************************************************************)
AllKept(line, masked, c, d) == \A i \in c + 1 .. d : masked[i] = line[i]
AllHidden(masked, c, d) == \A i \in c + 1 .. d : masked[i] = REDACTED

\* A stretch that is kept is copied.
LEMMA KeptStretch ==
    ASSUME NEW S, NEW line \in Seq(S), NEW masked, Len(masked) = Len(line),
           NEW Q, SqueezedTo(Q, masked), NEW out \in Seq(S),
           NEW c \in 0..Len(line), NEW d \in c..Len(line), Squeeze(out) = Q[c],
           AllKept(line, masked, c, d)
    PROVE  Squeeze(out \o SubSeq(line, c + 1, d)) = Q[d]
  <1> DEFINE n == Len(line)
             upto(m) == out \o SubSeq(line, c + 1, c + m)
             Done == {m \in 0..d - c : Squeeze(upto(m)) = Q[c + m]}
  <1>1. n \in Nat /\ c \in Nat /\ d \in Nat /\ d - c \in Nat /\ c <= d /\ d <= n
    OBVIOUS
  <1>2. 0 \in Done
    <2>1. SubSeq(line, c + 1, c + 0) = <<>>
      BY <1>1
    <2>2. upto(0) = out
      BY <2>1
    <2>3. 0 \in 0..d - c /\ c + 0 = c
      BY <1>1
    <2> HIDE DEF upto
    <2> QED BY <2>2, <2>3
  <1>3. ASSUME NEW m \in 0..d - c, m \in Done, m + 1 \in 0..d - c PROVE m + 1 \in Done
    <2>1. /\ c + (m + 1) \in 1..n /\ c + (m + 1) \in c + 1 .. d /\ (c + (m + 1)) - 1 = c + m
          /\ m \in Nat
      BY <1>1, <1>3
    <2> DEFINE k == c + (m + 1)
    <2>2. SubSeq(line, c + 1, k) = Append(SubSeq(line, c + 1, c + m), line[k])
      BY <1>1, <2>1
    <2>3. SubSeq(line, c + 1, c + m) \in Seq(S) /\ line[k] \in S
      BY <1>1, <2>1
    <2>4. upto(m) \in Seq(S) /\ upto(m + 1) = Append(upto(m), line[k])
      <3> DEFINE part == SubSeq(line, c + 1, c + m)
      <3>1. upto(m) = out \o part /\ upto(m + 1) = out \o Append(part, line[k])
        BY <2>2
      <3>2. part \in Seq(S)
        BY <2>3
      <3> HIDE DEF part, upto, k
      <3>3. out \o Append(part, line[k]) = Append(out \o part, line[k]) /\ out \o part \in Seq(S)
        BY <2>3, <3>2
      <3> QED BY <3>1, <3>3
    <2>5. Squeeze(upto(m + 1)) = Squeezed(Squeeze(upto(m)), line[k])
      <3> HIDE DEF upto
      <3> QED BY <2>3, <2>4, SqueezeAppend
    <2>6. Q[k] = Squeezed(Q[c + m], line[k])
      BY <2>1 DEF SqueezedTo, AllKept
    <2> HIDE DEF upto
    <2> QED BY <1>3, <2>5, <2>6
  <1>4. 0..d - c \subseteq Done
    <2> HIDE DEF Done, n
    <2> QED BY <1>1, <1>2, <1>3, Squeezes!BoundedInduction
  <1>5. d - c \in 0..d - c /\ c + (d - c) = d
    BY <1>1
  <1>6. d - c \in Done
    BY <1>4, <1>5
  <1> QED BY <1>5, <1>6

\* A stretch that is hidden is one marker.
LEMMA HiddenStretch ==
    ASSUME NEW S, NEW masked \in Seq(S), NEW Q, SqueezedTo(Q, masked),
           NEW c \in 0..Len(masked), NEW d \in c + 1 .. Len(masked),
           AllHidden(masked, c, d)
    PROVE  Q[d] = Squeezed(Q[c], REDACTED)
  <1> DEFINE n == Len(masked)
             Done == {m \in 0..(d - c) - 1 : Q[c + (m + 1)] = Squeezed(Q[c], REDACTED)}
  <1>1. n \in Nat /\ c \in Nat /\ d \in Nat /\ (d - c) - 1 \in Nat /\ d <= n
    OBVIOUS
  <1>2. \A k \in c + 1 .. d : Q[k] = Squeezed(Q[k - 1], REDACTED)
    <2>1. \A k \in c + 1 .. d : k \in 1..n
      BY <1>1
    <2> QED BY <2>1 DEF SqueezedTo, AllHidden
  <1>3. Q[c] \in Seq(S)
    BY SqueezedSeqs
  <1>4. 0 \in Done
    <2>1. c + 1 \in c + 1 .. d /\ (c + 1) - 1 = c /\ 0 \in 0..(d - c) - 1 /\ c + (0 + 1) = c + 1
      BY <1>1
    <2> QED BY <1>2, <2>1
  <1>5. ASSUME NEW m \in 0..(d - c) - 1, m \in Done, m + 1 \in 0..(d - c) - 1 PROVE m + 1 \in Done
    <2> DEFINE k == c + ((m + 1) + 1)
    <2>1. k \in c + 1 .. d /\ k - 1 = c + (m + 1)
      BY <1>1, <1>5
    <2>2. Q[k] = Squeezed(Q[c + (m + 1)], REDACTED)
      BY <1>2, <2>1
    <2>3. Q[k] = Squeezed(Q[c], REDACTED)
      BY <1>3, <1>5, <2>2, OneMarker
    <2> QED BY <1>5, <2>3
  <1>6. 0..(d - c) - 1 \subseteq Done
    <2> HIDE DEF Done
    <2> QED BY <1>1, <1>4, <1>5, Squeezes!BoundedInduction
  <1>7. (d - c) - 1 \in 0..(d - c) - 1 /\ c + (((d - c) - 1) + 1) = d
    BY <1>1
  <1>8. (d - c) - 1 \in Done
    BY <1>6, <1>7
  <1> QED BY <1>7, <1>8

\* What has been put out after some of the ranges is what the first `copied`
\* positions come to, and none of these ranges reaches further.
Through(line, Q, acc, ranges, k) ==
    /\ acc.copied \in 0..Len(line)
    /\ acc.output \in Seq(Range(line) \cup {REDACTED})
    /\ Squeeze(acc.output) = Q[acc.copied]
    /\ \A m \in 1..k : ranges[m].end <= acc.copied

\* The masked line has the length of the line.
LEMMA MaskedLine ==
    ASSUME NEW line, line \in Seq(Range(line))
    PROVE  /\ line \in Seq(Range(line) \cup {REDACTED})
           /\ Masked(line) \in Seq(Range(line) \cup {REDACTED})
           /\ Len(Masked(line)) = Len(line)
  <1>1. Masked(line) \in [1..Len(line) -> Range(line) \cup {REDACTED}]
    BY DEF Masked
  <1> QED BY <1>1

\* A range is not empty and lies in the line.
LEMMA RangeOfLine ==
    ASSUME NEW line, Len(line) \in Nat, NEW r \in Ranges(line)
    PROVE  r.start \in Nat /\ r.end \in Nat /\ r.start < r.end /\ r.end <= Len(line)
  BY DEF Ranges, Runs

\* One round of the loop, for each of the ways a range can lie to what is copied.
LEMMA CopyStep ==
    ASSUME NEW line, line \in Seq(Range(line)), NEW Q, SqueezedTo(Q, Masked(line)),
           NEW ranges \in Seq(Ranges(line)), InOrder(ranges),
           \A r \in Ranges(line) : \E i \in DOMAIN ranges : ranges[i] = r,
           NEW k \in 1..Len(ranges), NEW acc, Through(line, Q, acc, ranges, k - 1)
    PROVE  Through(line, Q, Copy(line, acc, ranges[k]), ranges, k)
  <1> DEFINE S == Range(line) \cup {REDACTED}
             n == Len(line)
             masked == Masked(line)
             r == ranges[k]
             c == acc.copied
             kept == SubSeq(line, c + 1, r.start)
             next == [output |-> acc.output \o kept \o <<REDACTED>>, copied |-> r.end]
  <1>1. n \in Nat /\ k \in Nat /\ k \in DOMAIN ranges /\ DOMAIN ranges = 1..Len(ranges) /\ Len(ranges) \in Nat
    OBVIOUS
  <1>2. r \in Ranges(line) /\ r.start \in Nat /\ r.end \in Nat /\ r.start < r.end /\ r.end <= n
    BY <1>1, RangeOfLine
  <1>3. /\ line \in Seq(S) /\ masked \in Seq(S) /\ Len(masked) = n /\ DOMAIN line = 1..n
        /\ SqueezedTo(Q, masked)
    BY MaskedLine
  <1>4. /\ c \in 0..n /\ acc.output \in Seq(S) /\ Squeeze(acc.output) = Q[c]
        /\ \A m \in 1..k - 1 : ranges[m].end <= c
    BY DEF Through
  <1>5. \A m \in 1..k : m = k \/ m \in 1..k - 1
    BY <1>1
  <1>6. CASE r.end <= c
    <2>1. Copy(line, acc, r) = acc
      BY <1>6 DEF Copy
    <2>2. \A m \in 1..k : ranges[m].end <= c
      BY <1>4, <1>5, <1>6
    <2> QED BY <1>4, <2>1, <2>2 DEF Through
  <1>7. CASE ~(r.end <= c)
    <2>1. Copy(line, acc, r) = next
      BY <1>7 DEF Copy
    <2>2. c < r.end /\ c \in Nat
      BY <1>2, <1>4, <1>7
    <2>3. \A m \in 1..k : ranges[m].end <= r.end
      <3> SUFFICES ASSUME NEW m \in 1..k PROVE ranges[m].end <= r.end
        OBVIOUS
      <3>1. m \in 1..Len(ranges) /\ ranges[m] \in Ranges(line)
        BY <1>1
      <3>2. ranges[m].end \in Nat
        BY <1>1, <3>1, RangeOfLine
      <3>3. CASE m = k
        BY <1>2, <3>3
      <3>4. CASE m \in 1..k - 1
        <4>1. ranges[m].end <= c
          BY <1>4, <3>4
        <4> HIDE DEF r, c
        <4> QED BY <1>2, <2>2, <3>2, <4>1
      <3> QED BY <1>5, <3>3, <3>4
    <2>4. AllHidden(masked, r.start, r.end)
      <3>1. \A i \in r.start + 1 .. r.end : i \in DOMAIN line
        BY <1>2, <1>3
      <3> QED BY <1>2, <3>1 DEF Masked, AllHidden
    <2>5. kept \in Seq(S)
      BY <1>2, <1>3, <2>2
    <2>6. next.output \in Seq(S)
      BY <1>4, <2>5
    <2>7. Squeeze(next.output) = Squeezed(Squeeze(acc.output \o kept), REDACTED)
      <3>1. acc.output \o kept \in Seq(S) /\ REDACTED \in S
        BY <1>4, <2>5
      <3>2. next.output = Append(acc.output \o kept, REDACTED)
        <4> DEFINE o == acc.output
        <4>1. next.output = (o \o kept) \o <<REDACTED>> /\ o \in Seq(S)
          BY <1>4
        <4> HIDE DEF o, kept, S, next
        <4>2. (o \o kept) \o <<REDACTED>> = Append(o \o kept, REDACTED)
          BY <2>5, <4>1
        <4> QED BY <4>1, <4>2 DEF o
      <3> HIDE DEF kept, S, next
      <3> QED BY <3>1, <3>2, SqueezeAppend
    <2>8. CASE r.start <= c
      <3>1. kept = <<>>
        BY <1>2, <2>2, <2>8
      <3>2. acc.output \o kept = acc.output
        <4> DEFINE o == acc.output
        <4>1. o \in Seq(S)
          BY <1>4
        <4> HIDE DEF o, S
        <4>2. o \o <<>> = o
          BY <4>1
        <4> HIDE DEF kept
        <4> QED BY <3>1, <4>2 DEF o
      <3>3. AllHidden(masked, c, r.end)
        <4>1. \A i \in c + 1 .. r.end : i \in r.start + 1 .. r.end
          BY <1>2, <2>2, <2>8
        <4> QED BY <2>4, <4>1 DEF AllHidden
      <3>4. Q[r.end] = Squeezed(Q[c], REDACTED)
        <4>1. c \in 0..Len(masked) /\ r.end \in c + 1 .. Len(masked)
          BY <1>2, <1>3, <1>4, <2>2
        <4> HIDE DEF masked, S, c, n, r, kept, next
        <4> QED BY <1>3, <3>3, <4>1, HiddenStretch
      <3>5. Squeeze(next.output) = Q[r.end]
        BY <1>4, <2>7, <3>2, <3>4
      <3> QED BY <1>2, <2>1, <2>3, <2>6, <3>5 DEF Through
    <2>9. CASE ~(r.start <= c)
      <3>1. r.start \in c..n /\ c < r.start
        BY <1>2, <2>2, <2>9
      <3>2. AllKept(line, masked, c, r.start)
        <4> SUFFICES ASSUME NEW i \in c + 1 .. r.start PROVE masked[i] = line[i]
          BY DEF AllKept
        <4>1. i \in DOMAIN line
          BY <1>2, <1>3, <2>2
        <4>2. ASSUME NEW s \in Ranges(line), i \in s.start + 1 .. s.end PROVE FALSE
          <5>1. PICK m \in DOMAIN ranges : ranges[m] = s
            OBVIOUS
          <5>2. s.start \in Nat /\ s.end \in Nat
            BY <1>1, RangeOfLine
          <5>3. CASE m < k
            <6>1. m \in 1..k - 1
              BY <1>1, <5>3
            <6>2. s.end <= c
              BY <1>4, <5>1, <6>1
            <6> QED BY <2>2, <4>2, <5>2, <6>2
          <5>4. CASE m = k
            BY <1>2, <2>2, <4>2, <5>1, <5>4
          <5>5. CASE m > k
            <6>1. Before(r, s)
              BY <1>1, <5>1, <5>5 DEF InOrder
            <6>2. r.start <= s.start
              BY <1>2, <5>2, <6>1 DEF Before
            <6> HIDE DEF r, c
            <6>3. i \in Int /\ i <= r.start /\ s.start < i
              BY <1>2, <2>2, <4>2, <5>2
            <6> QED BY <1>2, <5>2, <6>2, <6>3
          <5> QED BY <1>1, <5>3, <5>4, <5>5
        <4> QED BY <4>1, <4>2 DEF Masked
      <3>3. Squeeze(acc.output \o kept) = Q[r.start]
        <4>1. c \in 0..Len(line) /\ r.start \in c..Len(line) /\ Len(masked) = Len(line)
          BY <1>3, <1>4, <3>1
        <4> HIDE DEF masked, S, c, n, r, next
        <4> QED BY <1>3, <1>4, <3>2, <4>1, KeptStretch
      <3>4. Q[r.end] = Squeezed(Q[r.start], REDACTED)
        <4>1. r.start \in 0..Len(masked) /\ r.end \in r.start + 1 .. Len(masked)
          BY <1>2, <1>3
        <4> HIDE DEF masked, S, c, n, r, kept, next
        <4> QED BY <1>3, <2>4, <4>1, HiddenStretch
      <3>5. Squeeze(next.output) = Q[r.end]
        BY <2>7, <3>3, <3>4
      <3> QED BY <1>2, <2>1, <2>3, <2>6, <3>5 DEF Through
    <2> QED BY <2>8, <2>9
  <1> QED BY <1>6, <1>7

\* However the ranges overlap, touch or contain each other: a line comes out
\* with what lies in a range hidden and with everything else as it was.
THEOREM LineScrubbed ==
    ASSUME NEW line, line \in Seq(Range(line))
    PROVE  Scrubbed(line, RedactLogLine(line))
  <1> DEFINE ranges == Sorted(Ranges(line))
             n == Len(line)
             done == Copies!Fold(line, ranges)
  <1>1. /\ ranges \in Seq(Ranges(line)) /\ InOrder(ranges)
        /\ \A r \in Ranges(line) : \E i \in DOMAIN ranges : ranges[i] = r
    BY SortedRanges
  <1>2. RedactLogLine(line) = done.output \o SubSeq(line, done.copied + 1, Len(line))
    BY DEF RedactLogLine, Copies!Fold, FoldLeft, MapThenFoldSet, Max,
           Copies!FoldLeft, Copies!MapThenFoldSet, Copies!Max
  <1> HIDE DEF ranges
  <1>3. PICK F : /\ F[0] = [output |-> <<>>, copied |-> 0]
                 /\ \A k \in 1..Len(ranges) : F[k] = Copy(line, F[k - 1], ranges[k])
                 /\ F[Len(ranges)] = done
    BY <1>1, Copies!FoldSteps
  <1> HIDE DEF done
  <1>4. /\ line \in Seq(Range(line) \cup {REDACTED}) /\ Len(Masked(line)) = n
        /\ Masked(line) \in Seq(Range(line) \cup {REDACTED}) /\ n \in Nat /\ DOMAIN line = 1..n
    <2>1. n \in Nat /\ DOMAIN line = 1..n
      OBVIOUS
    <2> QED BY <2>1, MaskedLine
  <1>5. PICK Q : SqueezedTo(Q, Masked(line)) /\ Q[Len(Masked(line))] = Squeeze(Masked(line))
    BY <1>4, SqueezeSteps
  <1> DEFINE l == Len(ranges)
             Good == {k \in 0..l : Through(line, Q, F[k], ranges, k)}
  <1>6. l \in Nat /\ DOMAIN ranges = 1..l
    BY <1>1
  <1>7. 0 \in Good
    <2>1. Squeeze(<<>>) = Q[0]
      <3>1. PICK P : SqueezedTo(P, <<>>) /\ P[Len(<<>>)] = Squeeze(<<>>)
        <4>1. <<>> \in Seq({})
          OBVIOUS
        <4> QED BY <4>1, SqueezeSteps
      <3>2. Len(<<>>) = 0
        OBVIOUS
      <3> QED BY <1>5, <3>1, <3>2 DEF SqueezedTo
    <2>2. F[0].output = <<>> /\ F[0].copied = 0 /\ <<>> \in Seq(Range(line) \cup {REDACTED})
      BY <1>3
    <2>3. 0 \in 0..l /\ 0 \in 0..Len(line) /\ 1..0 = {}
      BY <1>4, <1>6
    <2>4. Through(line, Q, F[0], ranges, 0)
      BY <2>1, <2>2, <2>3 DEF Through
    <2> QED BY <2>3, <2>4
  <1>8. ASSUME NEW k \in 0..l, k \in Good, k + 1 \in 0..l PROVE k + 1 \in Good
    <2>1. k + 1 \in 1..Len(ranges) /\ (k + 1) - 1 = k
      BY <1>6, <1>8
    <2>2. F[k + 1] = Copy(line, F[k], ranges[k + 1])
      BY <1>3, <2>1
    <2>3. Through(line, Q, F[k], ranges, (k + 1) - 1)
      BY <1>8, <2>1
    <2>4. Through(line, Q, Copy(line, F[k], ranges[k + 1]), ranges, k + 1)
      BY <1>1, <1>5, <2>1, <2>3, CopyStep
    <2> QED BY <1>8, <2>2, <2>4
  <1>9. 0..l \subseteq Good
    <2> HIDE DEF Good, l
    <2> QED BY <1>6, <1>7, <1>8, Copies!BoundedInduction
  <1>10. Through(line, Q, done, ranges, l)
    BY <1>3, <1>6, <1>9
  <1>11. ASSUME NEW i \in done.copied + 1 .. n PROVE Masked(line)[i] = line[i]
    <2>1. i \in DOMAIN line /\ i > done.copied /\ done.copied \in Nat
      BY <1>4, <1>10 DEF Through
    <2>2. ASSUME NEW s \in Ranges(line), i \in s.start + 1 .. s.end PROVE FALSE
      <3>1. PICK m \in 1..l : ranges[m] = s
        BY <1>1, <1>6
      <3>2. s.end <= done.copied
        BY <1>10, <3>1 DEF Through
      <3>3. s.start \in Nat /\ s.end \in Nat
        BY <1>4, RangeOfLine
      <3> QED BY <2>1, <2>2, <3>2, <3>3
    <2> QED BY <2>1, <2>2 DEF Masked
  <1>12. Squeeze(done.output \o SubSeq(line, done.copied + 1, n)) = Q[n]
    <2> DEFINE S == Range(line) \cup {REDACTED}
               masked == Masked(line)
    <2>1. /\ done.copied \in 0..Len(line) /\ done.output \in Seq(S) /\ Squeeze(done.output) = Q[done.copied]
          /\ n \in done.copied..Len(line)
      BY <1>4, <1>10 DEF Through
    <2>2. line \in Seq(S) /\ Len(masked) = Len(line) /\ SqueezedTo(Q, masked)
      BY <1>4, <1>5
    <2>3. AllKept(line, masked, done.copied, n)
      BY <1>11 DEF AllKept
    <2> HIDE DEF S, masked, n
    <2> QED BY <2>3, <2>1, <2>2, KeptStretch
  <1> QED BY <1>2, <1>4, <1>5, <1>12 DEF Scrubbed

\* RedactingFormat prints a line with exactly its sensitive runs taken out,
\* whatever line a running process has occasion to log.
THEOREM Scrubs == Spec => []ScrubbedExactly
  <1>1. ScrubbedExactly
    BY LineScrubbed, ProcessAssumption DEF ScrubbedExactly, EveryLineScrubbed, Printed
  <1> QED BY <1>1, PTL

(***************************************************************************)
(* The log pipeline.                                                       *)
(***************************************************************************)
\* What a record says of its event: the body with exactly its sensitive runs
\* taken out.
BodyScrubbed(x) == x.body # None => \E event \in Messages : Scrubbed(event.body, x.body)

\* The bodies that leave the process: "exported OTLP log bodies pass through the
\* same function" as the lines of the console.  Attributes do not.
ExportedBodiesScrubbed == \A x \in pending \cup collected \cup refused : BodyScrubbed(x)

\* Nothing is batched without a process, nor after the final flush; what was
\* recorded while the pipeline was open is batched, taken or refused.
PipeInv ==
    /\ phase \in {"down", "flushed"} => pending = {} /\ ~open
    /\ outcome = "ok" => phase = "down" /\ due \subseteq collected \cup refused
    /\ phase # "down" => due \subseteq pending \cup collected \cup refused
    /\ ExportedBodiesScrubbed

\* A batch ends with the collector or is refused, and nothing else does.
LEMMA ExportKeeps ==
    ASSUME Export
    PROVE  /\ pending' = {}
           /\ collected' \cup refused' = pending \cup collected \cup refused
  BY DEF Export

LEMMA RecordsScrubbed ==
    /\ \A event \in Messages : BodyScrubbed(Exported(event))
    /\ \A fields : BodyScrubbed([body |-> None, attributes |-> fields])
  <1>1. ASSUME NEW event \in Messages PROVE BodyScrubbed(Exported(event))
    <2>1. Scrubbed(event.body, RedactLogLine(event.body))
      BY ProcessAssumption, LineScrubbed
    <2> QED BY <2>1 DEF BodyScrubbed, Exported
  <1> QED BY <1>1 DEF BodyScrubbed

LEMMA PipeNext == PipeInv /\ [Next]_vars => PipeInv'
  <1> SUFFICES ASSUME PipeInv, [Next]_vars PROVE PipeInv'
    OBVIOUS
  <1> USE DEF PipeInv
  <1>1. CASE Boot \/ BootRefused
    BY <1>1 DEF Boot, BootRefused, Running, ExportedBodiesScrubbed
  <1>2. ASSUME NEW how, how # "ok", Ends(how) PROVE PipeInv'
    BY <1>2 DEF Ends, ExportedBodiesScrubbed
  <1>3. CASE SpawnFails \/ ServeFailureEnds \/ Killed
    BY <1>2, <1>3 DEF SpawnFails, ServeFailureEnds, Killed
  <1>4. CASE Return
    BY <1>4 DEF Return, Ends, ExportedBodiesScrubbed
  <1>5. CASE SpawnOk \/ StopSignalled
    BY <1>5 DEF SpawnOk, StopSignalled, io, ExportedBodiesScrubbed
  <1>6. CASE Shutdown
    <2>1. /\ phase = "stopping" /\ phase' = "flushed" /\ open' = FALSE /\ UNCHANGED <<outcome, due>>
          /\ pending' = {} /\ collected' \cup refused' = pending \cup collected \cup refused
      BY <1>6, ExportKeeps DEF Shutdown
    <2> QED BY <2>1 DEF ExportedBodiesScrubbed
  <1>7. CASE ExportBatch
    <2>1. /\ open /\ UNCHANGED <<phase, outcome, open, due>>
          /\ pending' = {} /\ collected' \cup refused' = pending \cup collected \cup refused
      BY <1>7, ExportKeeps DEF ExportBatch, main
    <2> QED BY <2>1 DEF ExportedBodiesScrubbed
  <1>8. CASE Redeploy \/ Bind \/ Signal \/ UNCHANGED vars
    BY <1>8 DEF Redeploy, Bind, Signal, vars, io, ExportedBodiesScrubbed
  <1>9. ASSUME NEW x, BodyScrubbed(x), Record(x), phase # "down",
               UNCHANGED <<phase, outcome, open, collected, refused>>
        PROVE  PipeInv'
    BY <1>9 DEF Record, ExportedBodiesScrubbed
  <1>10. ASSUME NEW event \in Messages, Emit(event) PROVE PipeInv'
    BY <1>9, <1>10, RecordsScrubbed DEF Emit, main, Running
  <1>11. ASSUME NEW fields \in Spans, SpanEnds(fields) PROVE PipeInv'
    BY <1>9, <1>11, RecordsScrubbed DEF SpanEnds, main, Running
  <1> QED BY <1>1, <1>3, <1>4, <1>5, <1>6, <1>7, <1>8, <1>10, <1>11 DEF Next, Process

LEMMA PipeAlways == Spec => []PipeInv
  <1>1. Init => PipeInv
    BY DEF Init, PipeInv, ExportedBodiesScrubbed
  <1> QED BY <1>1, PipeNext, PTL DEF Spec

\* telemetry::shutdown hands over every batch before a graceful end.
THEOREM LastBatch == Spec => []CollectorSawConsole
  <1>1. PipeInv => CollectorSawConsole
    BY DEF PipeInv, CollectorSawConsole
  <1> QED BY <1>1, PipeAlways, PTL

\* RedactingLogProcessor: no part of a sensitive run in the body of an event is
\* ever handed to the collector, and nothing else of the body is lost.
THEOREM BodiesLeaveScrubbed == Spec => []ExportedBodiesScrubbed
  <1>1. PipeInv => ExportedBodiesScrubbed
    BY DEF PipeInv
  <1> QED BY <1>1, PipeAlways, PTL

=============================================================================
