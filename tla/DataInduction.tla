---------------------------- MODULE DataInduction ----------------------------
(***************************************************************************)
(* Induction over data, for the recursions and the folds of the models.    *)
(*                                                                         *)
(* The induction theorems of the library take an operator, which no prover *)
(* can supply; WFMin takes a set, and the least-number principle follows.  *)
(* The operator of a recursion is a constant of this module instead: whoever *)
(* needs the facts for an operator of its own instantiates the module.     *)
(***************************************************************************)
EXTENDS SequencesExt, WellFoundedInduction, TLAPS

CONSTANTS Op(_, _, _),   \* context, accumulator, element
          Base           \* the first accumulator

Less == {ss \in Nat \X Nat : ss[1] < ss[2]}

\* Every non-empty set of natural numbers has a least element.
LEMMA LeastNumber ==
    ASSUME NEW T \in SUBSET Nat, T # {}
    PROVE  \E x \in T : \A y \in T : x <= y
  <1>1. IsWellFoundedOn(Less, Nat)
    BY NatLessThanWellFounded DEF OpToRel, Less
  <1>2. \E x \in T : \A y \in T : ~ (<<y, x>> \in Less)
    BY <1>1, WFMin
  <1>3. \A x, y \in Nat : ~ (<<y, x>> \in Less) => x <= y
    BY DEF Less
  <1> QED BY <1>2, <1>3

\* A set that has 0 and with each number the next one has them all.
LEMMA Induction ==
    ASSUME NEW S, 0 \in S, \A n \in Nat : n \in S => n + 1 \in S
    PROVE  Nat \subseteq S
  <1> SUFFICES ASSUME Nat \ S # {} PROVE FALSE
    OBVIOUS
  <1>1. PICK x \in Nat \ S : \A y \in Nat \ S : x <= y
    BY LeastNumber
  <1>2. x # 0 /\ x - 1 \in Nat /\ x - 1 \in S
    BY <1>1
  <1> QED BY <1>1, <1>2

\* The same up to a bound.
LEMMA BoundedInduction ==
    ASSUME NEW N \in Nat, NEW S, 0 \in S, \A n \in 0..N : n \in S /\ n + 1 \in 0..N => n + 1 \in S
    PROVE  0..N \subseteq S
  <1> DEFINE T == {n \in Nat : n <= N => n \in S}
  <1>1. 0 \in T /\ \A n \in Nat : n \in T => n + 1 \in T
    OBVIOUS
  <1>2. Nat \subseteq T
    <2> HIDE DEF T
    <2> QED BY <1>1, Induction
  <1> QED BY <1>2

(***************************************************************************)
(* Recursion over the natural numbers.                                     *)
(***************************************************************************)
UpTo(ctx, k, g) == g = [n \in 0..k |-> IF n = 0 THEN Base ELSE Op(ctx, g[n - 1], n)]

\* The recursion has a solution up to any number.
LEMMA UpToSome ==
    ASSUME NEW ctx, NEW k \in Nat
    PROVE  \E g : UpTo(ctx, k, g)
  <1> DEFINE S == {m \in Nat : \E g : UpTo(ctx, m, g)}
  <1>1. 0 \in S
    <2>1. UpTo(ctx, 0, [n \in 0..0 |-> Base])
      BY DEF UpTo
    <2> QED BY <2>1
  <1>2. ASSUME NEW m \in Nat, m \in S PROVE m + 1 \in S
    <2>1. PICK g : UpTo(ctx, m, g)
      BY <1>2
    <2>2. \A n \in 0..m : g[n] = IF n = 0 THEN Base ELSE Op(ctx, g[n - 1], n)
      BY <2>1 DEF UpTo
    <2> DEFINE h == [n \in 0..m + 1 |-> IF n = m + 1 THEN Op(ctx, g[m], m + 1) ELSE g[n]]
    <2>3. ASSUME NEW n \in 0..m + 1
          PROVE  h[n] = IF n = 0 THEN Base ELSE Op(ctx, h[n - 1], n)
      <3>1. CASE n = m + 1
        <4>1. n # 0 /\ n - 1 = m /\ m \in 0..m + 1 /\ m # m + 1
          BY <3>1
        <4> QED BY <3>1, <4>1
      <3>2. CASE n \in 0..m
        <4>1. n # m + 1 /\ (n # 0 => n - 1 \in 0..m + 1 /\ n - 1 # m + 1)
          BY <3>2
        <4> QED BY <2>2, <3>2, <4>1
      <3> QED BY <3>1, <3>2
    <2>4. UpTo(ctx, m + 1, h)
      <3> DEFINE H == [n \in 0..m + 1 |-> IF n = 0 THEN Base ELSE Op(ctx, h[n - 1], n)]
      <3>1. DOMAIN h = 0..m + 1 /\ h = [n \in 0..m + 1 |-> h[n]]
        OBVIOUS
      <3> HIDE DEF h
      <3>2. h = H
        BY <2>3, <3>1
      <3> QED BY <3>2 DEF UpTo
    <2> QED BY <2>4
  <1>3. Nat \subseteq S
    <2> HIDE DEF S
    <2> QED BY <1>1, <1>2, Induction
  <1> QED BY <1>3

\* The function that such a recursion defines exists.
THEOREM Recursion ==
    ASSUME NEW ctx
    PROVE  \E f : f = [n \in Nat |-> IF n = 0 THEN Base ELSE Op(ctx, f[n - 1], n)]
  <1> DEFINE a(k) == CHOOSE g : UpTo(ctx, k, g)
             f == [n \in Nat |-> a(n)[n]]
             S == {n \in Nat : \A k \in Nat : n <= k => a(k)[n] = f[n]}
  <1>1. \A k \in Nat : UpTo(ctx, k, a(k))
    BY UpToSome
  <1> HIDE DEF a
  <1>2. \A k \in Nat : \A n \in 0..k : a(k)[n] = IF n = 0 THEN Base ELSE Op(ctx, a(k)[n - 1], n)
    BY <1>1 DEF UpTo
  <1>3. 0 \in S
    BY <1>2
  <1>4. ASSUME NEW n \in Nat, n \in S PROVE n + 1 \in S
    <2>1. ASSUME NEW k \in Nat, n + 1 <= k PROVE a(k)[n + 1] = Op(ctx, f[n], n + 1)
      <3>1. n + 1 \in 0..k /\ n + 1 # 0 /\ (n + 1) - 1 = n /\ n <= k
        BY <2>1
      <3> QED BY <1>2, <1>4, <3>1
    <2>2. f[n + 1] = a(n + 1)[n + 1]
      OBVIOUS
    <2> HIDE DEF f
    <2> QED BY <2>1, <2>2
  <1>5. Nat \subseteq S
    <2> HIDE DEF S
    <2> QED BY <1>3, <1>4, Induction
  <1>6. ASSUME NEW n \in Nat PROVE f[n] = IF n = 0 THEN Base ELSE Op(ctx, f[n - 1], n)
    <2>1. f[n] = a(n)[n]
      OBVIOUS
    <2>2. n # 0 => n - 1 \in Nat /\ n - 1 <= n
      OBVIOUS
    <2>3. n # 0 => a(n)[n - 1] = f[n - 1]
      BY <1>5, <2>2
    <2> HIDE DEF f
    <2> QED BY <1>2, <2>1, <2>3
  <1>7. f = [n \in Nat |-> f[n]]
    OBVIOUS
  <1> HIDE DEF f
  <1>8. f = [n \in Nat |-> IF n = 0 THEN Base ELSE Op(ctx, f[n - 1], n)]
    BY <1>6, <1>7
  <1> QED BY <1>8

(***************************************************************************)
(* The largest element of a bounded set of numbers.                        *)
(***************************************************************************)
LEMMA MaxAbove ==
    ASSUME NEW k \in Nat, NEW s \in SUBSET (1..k + 1), k + 1 \in s
    PROVE  Max(s) = k + 1
  <1>1. \A i \in s : i \in Int /\ k + 1 >= i
    OBVIOUS
  <1>2. Max(s) \in s /\ \A i \in s : Max(s) >= i
    BY <1>1 DEF Max
  <1>3. Max(s) \in Int /\ Max(s) >= k + 1 /\ k + 1 >= Max(s)
    BY <1>1, <1>2
  <1> QED BY <1>3

\* A non-empty set of numbers up to k has its maximum: k minus the least distance to k.
LEMMA MaxIn ==
    ASSUME NEW k \in Nat, NEW s \in SUBSET (1..k), s # {}
    PROVE  Max(s) \in s
  <1> DEFINE T == {j \in Nat : k - j \in s}
  <1>1. T # {}
    <2>1. PICK i : i \in s
      OBVIOUS
    <2>2. i \in Nat /\ k - i \in Nat /\ k - (k - i) = i
      BY <2>1
    <2> QED BY <2>1, <2>2
  <1>2. PICK x \in T : \A y \in T : x <= y
    <2> HIDE DEF T
    <2>1. T \in SUBSET Nat
      BY DEF T
    <2> QED BY <1>1, <2>1, LeastNumber
  <1>3. ASSUME NEW i \in s PROVE k - x >= i
    <2>1. i \in Nat /\ k - i \in Nat /\ k - (k - i) = i
      OBVIOUS
    <2>2. k - i \in T
      BY <2>1
    <2> QED BY <1>2, <2>1, <2>2
  <1>4. \E m \in s : \A i \in s : m >= i
    BY <1>2, <1>3
  <1> QED BY <1>4 DEF Max

(***************************************************************************)
(* FoldLeft.                                                               *)
(***************************************************************************)
Fold(ctx, seq) == LET op(acc, e) == Op(ctx, acc, e) IN FoldLeft(op, Base, seq)

Unrolls(ctx, seq, D, g) ==
    g = [s \in SUBSET D |->
            IF s = {} THEN Base ELSE Op(ctx, g[s \ {Max(s)}], seq[Max(s)])]

\* FoldLeft as the modules define it.
LEMMA FoldChosen ==
    ASSUME NEW ctx, NEW seq
    PROVE  Fold(ctx, seq) = (CHOOSE g : Unrolls(ctx, seq, DOMAIN seq, g))[DOMAIN seq]
  BY DEF Fold, FoldLeft, MapThenFoldSet, Unrolls

\* The recursion of the fold has a solution on any prefix of the sequence.
LEMMA UnrollsSome ==
    ASSUME NEW ctx, NEW seq, NEW n \in Nat
    PROVE  \E g : Unrolls(ctx, seq, 1..n, g)
  <1> DEFINE S == {k \in Nat : \E g : Unrolls(ctx, seq, 1..k, g)}
  <1>1. 0 \in S
    <2>1. SUBSET (1..0) = {{}}
      OBVIOUS
    <2>2. Unrolls(ctx, seq, 1..0, [s \in SUBSET (1..0) |-> Base])
      BY <2>1 DEF Unrolls
    <2> QED BY <2>2
  <1>2. ASSUME NEW k \in Nat, k \in S PROVE k + 1 \in S
    <2>1. PICK g : Unrolls(ctx, seq, 1..k, g)
      BY <1>2
    <2> DEFINE h == [s \in SUBSET (1..k + 1) |->
                        IF k + 1 \in s THEN Op(ctx, g[s \ {k + 1}], seq[k + 1]) ELSE g[s]]
    <2>2. ASSUME NEW s \in SUBSET (1..k + 1)
          PROVE  h[s] = IF s = {} THEN Base ELSE Op(ctx, h[s \ {Max(s)}], seq[Max(s)])
      <3>1. CASE k + 1 \in s
        <4>1. s \ {k + 1} \in SUBSET (1..k + 1) /\ k + 1 \notin s \ {k + 1}
          OBVIOUS
        <4>2. h[s \ {k + 1}] = g[s \ {k + 1}]
          BY <4>1
        <4> QED BY <3>1, <4>2, MaxAbove
      <3>2. CASE k + 1 \notin s
        <4>1. s \in SUBSET (1..k)
          BY <3>2
        <4>2. h[s] = g[s]
          BY <3>2
        <4>3. s # {} => Max(s) \in s
          BY <4>1, MaxIn
        <4>4. h[s \ {Max(s)}] = g[s \ {Max(s)}]
          BY <3>2
        <4>5. g[s] = IF s = {} THEN Base ELSE Op(ctx, g[s \ {Max(s)}], seq[Max(s)])
          BY <2>1, <4>1 DEF Unrolls
        <4> QED BY <4>2, <4>4, <4>5
      <3> QED BY <3>1, <3>2
    <2>3. Unrolls(ctx, seq, 1..k + 1, h)
      <3> DEFINE G == [s \in SUBSET (1..k + 1) |->
                          IF s = {} THEN Base ELSE Op(ctx, h[s \ {Max(s)}], seq[Max(s)])]
      <3>1. \A s \in SUBSET (1..k + 1) : h[s] = G[s]
        <4> HIDE DEF h
        <4> QED BY <2>2
      <3>2. h = G
        <4>1. DOMAIN h = SUBSET (1..k + 1) /\ DOMAIN G = SUBSET (1..k + 1)
          OBVIOUS
        <4>2. h = [s \in DOMAIN h |-> h[s]] /\ G = [s \in DOMAIN G |-> G[s]]
          OBVIOUS
        <4> HIDE DEF h, G
        <4> QED BY <3>1, <4>1, <4>2
      <3> HIDE DEF h
      <3> QED BY <3>2 DEF Unrolls
    <2> QED BY <2>3
  <1>3. Nat \subseteq S
    <2> HIDE DEF S
    <2> QED BY <1>1, <1>2, Induction
  <1> QED BY <1>3

\* A fold passes through the accumulators F[0], F[1], .. of its prefixes.
THEOREM FoldSteps ==
    ASSUME NEW ctx, NEW S, NEW seq \in Seq(S)
    PROVE  \E F : /\ F[0] = Base
                  /\ \A k \in 1..Len(seq) : F[k] = Op(ctx, F[k - 1], seq[k])
                  /\ F[Len(seq)] = Fold(ctx, seq)
  <1> DEFINE n == Len(seq)
             g == CHOOSE h : Unrolls(ctx, seq, 1..n, h)
             F == [k \in 0..n |-> g[1..k]]
  <1>1. n \in Nat /\ DOMAIN seq = 1..n
    OBVIOUS
  <1> HIDE DEF n
  <1>2. Unrolls(ctx, seq, 1..n, g)
    BY <1>1, UnrollsSome
  <1>3. Fold(ctx, seq) = g[1..n]
    BY <1>1, FoldChosen
  <1> HIDE DEF g
  <1>4. \A s \in SUBSET (1..n) :
            g[s] = IF s = {} THEN Base ELSE Op(ctx, g[s \ {Max(s)}], seq[Max(s)])
    BY <1>2 DEF Unrolls
  <1>5. F[0] = Base
    <2>1. 1..0 = {} /\ 1..0 \in SUBSET (1..n) /\ 0 \in 0..n
      BY <1>1
    <2> QED BY <1>4, <2>1
  <1>6. ASSUME NEW k \in 1..n PROVE F[k] = Op(ctx, F[k - 1], seq[k])
    <2>1. k - 1 \in Nat /\ k = (k - 1) + 1 /\ k - 1 \in 0..n /\ k \in 0..n /\ k \in 1..k
      BY <1>1
    <2>2. 1..k \in SUBSET (1..n) /\ 1..k # {} /\ (1..k) \ {k} = 1..k - 1
      <3>1. \A i : i \in 1..k => i \in 1..n
        BY <1>1, <2>1
      <3>2. \A i : i \in (1..k) \ {k} <=> i \in 1..k - 1
        BY <1>1, <2>1
      <3> QED BY <2>1, <3>1, <3>2
    <2>4. Max(1..k) = k
      BY <2>1, MaxAbove
    <2>3. g[1..k] = Op(ctx, g[1..k - 1], seq[k])
      BY <1>4, <2>2, <2>4
    <2> QED BY <2>1, <2>3
  <1>7. F[n] = Fold(ctx, seq)
    BY <1>1, <1>3
  <1> HIDE DEF F
  <1> QED BY <1>5, <1>6, <1>7 DEF n

=============================================================================
