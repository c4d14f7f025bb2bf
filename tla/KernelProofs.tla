------------------------------ MODULE KernelProofs ------------------------------
(***************************************************************************)
(* Proofs about the memory budget (MemoryBudget) and the lifecycle engine  *)
(* (Lifecycle), for every budget, time to live and number of callers, and  *)
(* for every deadline and length of the deferred queue.                    *)
(*                                                                         *)
(* Both models compute with folds over sequences: the bytes of a book,     *)
(* what is left of one, the engine that a queue of commands leaves behind. *)
(* The first part shows what a fold computes, element by element, and by   *)
(* induction over sets of places what the models need of it.               *)
(***************************************************************************)
EXTENDS MemoryBudget, Lifecycle, Integers, FiniteSetTheorems, SequenceTheorems,
        WellFoundedInduction, TLAPS

(***************************************************************************)
(* What a fold over a sequence computes, step by step                      *)
(***************************************************************************)

\* A set of numbers that is not empty has a smallest one.
LEMMA SmallestNat ==
  ASSUME NEW T, T \subseteq Nat, T # {}
  PROVE  \E n \in T : \A m \in T : n <= m
<1>1. IsWellFoundedOn(OpToRel(<, Nat), Nat)
  BY NatLessThanWellFounded
<1>2. PICK x \in T : \A y \in T : ~ (<<y, x>> \in OpToRel(<, Nat))
  BY <1>1, WFMin
<1>3. \A y \in T : ~(y < x)
  BY <1>2 DEF OpToRel
<1> QED
  BY <1>3

\* Induction up to n, with the set of the numbers of which a claim is true.
LEMMA UpTo ==
  ASSUME NEW n \in Nat, NEW T, 0 \in T,
         \A k \in 1..n : k - 1 \in T => k \in T
  PROVE  \A k \in 0..n : k \in T
<1> DEFINE U == (0..n) \ T
<1>1. SUFFICES ASSUME U # {} PROVE FALSE
  BY <1>1
<1>2. U \subseteq Nat
  OBVIOUS
<1> PICK V : V = U
  OBVIOUS
<1>3. PICK k \in U : \A m \in U : k <= m
  BY <1>1, <1>2, SmallestNat
<1>4. k \in 1..n
  BY <1>3
<1>5. k - 1 \notin U
  BY <1>3, <1>4
<1> QED
  BY <1>3, <1>4, <1>5

\* The place a fold takes next is the last one.
LEMMA LastPlace ==
  ASSUME NEW k \in Nat \ {0}
  PROVE  /\ Max(1..k) = k
         /\ (1..k) \ {k} = 1..k - 1
<1>1. \E x \in 1..k : \A y \in 1..k : x >= y
  OBVIOUS
<1>2. Max(1..k) \in 1..k /\ \A y \in 1..k : Max(1..k) >= y
  BY <1>1 DEF Max
<1>3. k \in 1..k
  OBVIOUS
<1>4. Max(1..k) >= k
  BY <1>2, <1>3
<1> QED
  BY <1>2, <1>4

\* Of every set of places one is the last.
LEMMA LastOfPlaces ==
  ASSUME NEW n \in Nat, NEW t \in SUBSET (1..n), t # {}
  PROVE  Max(t) \in t /\ \A y \in t : Max(t) >= y
<1> DEFINE U == {m \in Nat : \A y \in t : y <= m}
<1>1. n \in U
  OBVIOUS
<1>2. PICK m \in U : \A x \in U : m <= x
  <2>1. U \subseteq Nat /\ U # {}
    BY <1>1
  <2> HIDE DEF U
  <2> QED
    BY <2>1, SmallestNat
<1>3. m \in t
  <2> SUFFICES ASSUME m \notin t PROVE FALSE
    OBVIOUS
  <2>1. PICK y \in t : TRUE
    OBVIOUS
  <2>2. y <= m /\ y >= 1
    BY <1>2, <2>1
  <2>3. m - 1 \in Nat
    BY <2>2, <1>2
  <2>4. \A x \in t : x <= m - 1
    BY <1>2
  <2>5. m - 1 \in U
    BY <2>3, <2>4
  <2> QED
    BY <1>2, <2>5
<1>4. \E x \in t : \A y \in t : x >= y
  BY <1>2, <1>3
<1> QED
  BY <1>4 DEF Max

\* What a fold over n places, the last one last, defines on the sets of these places.
Folds(f, n, base, step) ==
  f = [t \in SUBSET (1..n) |-> IF t = {} THEN base ELSE step[Max(t)][f[t \ {Max(t)}]]]

\* Such a function exists.
LEMMA FoldExists ==
  ASSUME NEW n \in Nat, NEW S, NEW base \in S, NEW step \in [1..n -> [S -> S]]
  PROVE  \E f \in [SUBSET (1..n) -> S] : Folds(f, n, base, step)
<1> DEFINE T == {k \in 0..n : \E f \in [SUBSET (1..k) -> S] : Folds(f, k, base, step)}
<1>1. 0 \in T
  <2> DEFINE f == [t \in SUBSET (1..0) |-> base]
  <2>1. \A t \in SUBSET (1..0) : t = {}
    OBVIOUS
  <2>2. f = [t \in SUBSET (1..0) |-> IF t = {} THEN base ELSE step[Max(t)][f[t \ {Max(t)}]]]
    BY <2>1
  <2>3. f \in [SUBSET (1..0) -> S]
    OBVIOUS
  <2> HIDE DEF f
  <2>4. Folds(f, 0, base, step)
    BY <2>2 DEF Folds
  <2>5. \E h \in [SUBSET (1..0) -> S] : Folds(h, 0, base, step)
    BY <2>3, <2>4
  <2> QED
    BY <2>5, 0 \in 0..n
<1>2. ASSUME NEW k \in 1..n, k - 1 \in T
      PROVE  k \in T
  <2>1. PICK f \in [SUBSET (1..k - 1) -> S] : Folds(f, k - 1, base, step)
    BY <1>2
  <2> DEFINE g == [t \in SUBSET (1..k) |-> IF k \in t THEN step[k][f[t \ {k}]] ELSE f[t]]
  <2>2. \A t \in SUBSET (1..k) : t \ {k} \in SUBSET (1..k - 1)
    OBVIOUS
  <2>3. g \in [SUBSET (1..k) -> S]
    <3>1. ASSUME NEW t \in SUBSET (1..k) PROVE g[t] \in S
      <4>1. f[t \ {k}] \in S
        BY <2>2
      <4>2. CASE k \in t
        BY <4>1, <4>2
      <4>3. CASE k \notin t
        <5>1. t \ {k} = t
          BY <4>3
        <5> QED
          BY <4>1, <4>3, <5>1
      <4> QED
        BY <4>2, <4>3
    <3> QED
      BY <3>1
  <2>4. ASSUME NEW t \in SUBSET (1..k)
        PROVE  g[t] = IF t = {} THEN base ELSE step[Max(t)][g[t \ {Max(t)}]]
    <3>1. CASE k \in t
      <4>1. Max(t) \in t /\ \A y \in t : Max(t) >= y
        <5> HIDE DEF g, T
        <5>1. t # {} /\ k \in Nat
          BY <3>1
        <5> QED
          BY <5>1, LastOfPlaces
      <4>2. Max(t) = k
        <5>1. Max(t) \in 1..k /\ Max(t) >= k
          BY <3>1, <4>1
        <5> QED
          BY <5>1
      <4>3. g[t \ {k}] = f[t \ {k}]
        BY <2>2
      <4>4. g[t] = step[k][f[t \ {k}]]
        BY <3>1
      <4> HIDE DEF g
      <4> QED
        BY <3>1, <4>2, <4>3, <4>4
    <3>2. CASE k \notin t
      <4>1. t \in SUBSET (1..k - 1)
        BY <2>2, <3>2
      <4>2. g[t] = f[t]
        BY <3>2
      <4>3. f[t] = IF t = {} THEN base ELSE step[Max(t)][f[t \ {Max(t)}]]
        BY <2>1, <4>1 DEF Folds
      <4>4. g[t \ {Max(t)}] = f[t \ {Max(t)}]
        BY <3>2
      <4> HIDE DEF g
      <4> QED
        BY <4>2, <4>3, <4>4
    <3> QED
      BY <3>1, <3>2
  <2>5. g = [t \in SUBSET (1..k) |-> IF t = {} THEN base ELSE step[Max(t)][g[t \ {Max(t)}]]]
    <3>1. g = [t \in SUBSET (1..k) |-> g[t]]
      OBVIOUS
    <3> HIDE DEF g
    <3> QED
      BY <2>4, <3>1
  <2> HIDE DEF g
  <2>6. Folds(g, k, base, step)
    BY <2>5 DEF Folds
  <2> QED
    BY <2>3, <2>6
<1>3. n \in 0..n
  OBVIOUS
<1> HIDE DEF T
<1>4. n \in T
  BY <1>1, <1>2, <1>3, UpTo
<1> QED
  BY <1>4 DEF T

(***************************************************************************)
(* The bytes of a book, and what is left of one                            *)
(***************************************************************************)

\* The sums of the beginnings of a sequence end in the sum of its bytes.
Sums(p, s) ==
  /\ p \in [0..Len(s) -> Nat]
  /\ p[0] = 0
  /\ \A k \in 1..Len(s) : p[k] = p[k - 1] + s[k].bytes

\* These sums are numbers.
LEMMA SumsAreNat ==
  ASSUME NEW n \in Nat, NEW p, NEW w \in [1..n -> Nat],
         p[0] = 0, \A k \in 1..n : p[k] = p[k - 1] + w[k]
  PROVE  \A k \in 0..n : p[k] \in Nat
<1> DEFINE T == {k \in 0..n : p[k] \in Nat}
<1>1. 0 \in T
  OBVIOUS
<1>2. ASSUME NEW k \in 1..n, k - 1 \in T PROVE k \in T
  <2>1. p[k - 1] \in Nat /\ w[k] \in Nat
    BY <1>2
  <2>2. p[k] = p[k - 1] + w[k]
    OBVIOUS
  <2>3. p[k - 1] + w[k] \in Nat
    BY <2>1
  <2> QED
    BY <2>2, <2>3
<1> HIDE DEF T
<1>3. \A k \in 0..n : k \in T
  BY <1>1, <1>2, UpTo
<1> QED
  BY <1>3 DEF T

\* The fold that adds the bytes has such sums.
LEMMA BytesAreSums ==
  ASSUME NEW S, NEW s \in Seq(S), \A x \in S : x.bytes \in Nat
  PROVE  \E p : Sums(p, s) /\ Bytes(s) = p[Len(s)]
<1> DEFINE n == Len(s)
<1>1. n \in Nat
  OBVIOUS
<1>0. DOMAIN s = 1..n /\ \A i \in 1..n : s[i].bytes \in Nat
  OBVIOUS
<1>2. n = Len(s)
  OBVIOUS
<1> HIDE DEF n
<1> DEFINE step == [i \in 1..n |-> [v \in Nat |-> v + s[i].bytes]]
<1>3. step \in [1..n -> [Nat -> Nat]]
  BY <1>0
<1>4. PICK f \in [SUBSET (1..n) -> Nat] : Folds(f, n, 0, step)
  <2> HIDE DEF step
  <2> QED
    BY <1>1, <1>3, FoldExists
<1>5. ASSUME NEW t \in SUBSET (1..n), t # {}
      PROVE  step[Max(t)][f[t \ {Max(t)}]] = f[t \ {Max(t)}] + s[Max(t)].bytes
  <2>1. Max(t) \in 1..n
    BY <1>1, <1>5, LastOfPlaces
  <2>2. f[t \ {Max(t)}] \in Nat
    OBVIOUS
  <2> QED
    BY <2>1, <2>2
<1>6. f = [t \in SUBSET DOMAIN s |->
             IF t = {} THEN 0 ELSE LET x == Max(t) IN f[t \ {x}] + s[x].bytes]
  <2> HIDE DEF step
  <2> QED
    BY <1>0, <1>4, <1>5 DEF Folds
<1> HIDE DEF step
<1> DEFINE g == CHOOSE h : h = [t \in SUBSET DOMAIN s |->
                             IF t = {} THEN 0 ELSE LET x == Max(t) IN h[t \ {x}] + s[x].bytes]
<1>7. g = [t \in SUBSET DOMAIN s |->
             IF t = {} THEN 0 ELSE LET x == Max(t) IN g[t \ {x}] + s[x].bytes]
  BY <1>6
<1>8. Bytes(s) = g[DOMAIN s]
  BY DEF Bytes, FoldLeft, MapThenFoldSet
<1> HIDE DEF g
<1> DEFINE p == [k \in 0..n |-> g[1..k]]
<1>9. p[0] = 0
  <2>1. 1..0 = {}
    OBVIOUS
  <2>2. g[{}] = 0
    BY <1>7
  <2> QED
    BY <1>1, <2>1, <2>2
<1>10. ASSUME NEW k \in 1..n PROVE p[k] = p[k - 1] + s[k].bytes
  <2>1. 1..k # {} /\ 1..k \in SUBSET DOMAIN s
    <3>1. k \in 1..k /\ 1..k \subseteq 1..n
      BY <1>1
    <3> QED
      BY <1>0, <3>1
  <2>2. g[1..k] = g[(1..k) \ {Max(1..k)}] + s[Max(1..k)].bytes
    BY <1>7, <2>1
  <2>3. Max(1..k) = k /\ (1..k) \ {k} = 1..k - 1
    BY <1>1, LastPlace
  <2>4. g[1..k] = g[1..k - 1] + s[k].bytes
    BY <2>2, <2>3
  <2> QED
    BY <1>1, <2>4
<1>11. p = [k \in 0..n |-> p[k]]
  OBVIOUS
<1> HIDE DEF p
<1>12. \A k \in 0..n : p[k] \in Nat
  <2> DEFINE w == [k \in 1..n |-> s[k].bytes]
  <2>1. w \in [1..n -> Nat]
    BY <1>0
  <2>2. \A k \in 1..n : p[k] = p[k - 1] + w[k]
    BY <1>10
  <2> HIDE DEF w
  <2> QED
    BY <1>1, <1>9, <2>1, <2>2, SumsAreNat
<1>13. Sums(p, s)
  BY <1>2, <1>9, <1>10, <1>11, <1>12 DEF Sums
<1>14. Bytes(s) = p[Len(s)]
  BY <1>1, <1>2, <1>8 DEF p
<1> QED
  BY <1>13, <1>14

\* The sums of a sequence are what they are.
LEMMA SumsAgree ==
  ASSUME NEW S, NEW s \in Seq(S), \A x \in S : x.bytes \in Nat,
         NEW p, Sums(p, s), NEW q, Sums(q, s)
  PROVE  \A k \in 0..Len(s) : p[k] = q[k]
<1> DEFINE T == {k \in 0..Len(s) : p[k] = q[k]}
<1>1. 0 \in T
  BY DEF Sums
<1>2. ASSUME NEW k \in 1..Len(s), k - 1 \in T PROVE k \in T
  BY <1>2 DEF Sums
<1>3. Len(s) \in Nat
  OBVIOUS
<1> HIDE DEF T
<1>4. \A k \in 0..Len(s) : k \in T
  BY <1>1, <1>2, <1>3, UpTo
<1> QED
  BY <1>4 DEF T

\* Whatever function has the sums of a sequence ends in its bytes.
LEMMA BytesIs ==
  ASSUME NEW S, NEW s \in Seq(S), \A x \in S : x.bytes \in Nat, NEW p, Sums(p, s)
  PROVE  Bytes(s) = p[Len(s)] /\ Bytes(s) \in Nat
<1>1. PICK q : Sums(q, s) /\ Bytes(s) = q[Len(s)]
  BY BytesAreSums
<1>2. p[Len(s)] = q[Len(s)]
  BY <1>1, SumsAgree
<1> QED
  BY <1>1, <1>2 DEF Sums

\* The bytes of a sequence are a number.
LEMMA BytesNat ==
  ASSUME NEW S, NEW s \in Seq(S), \A x \in S : x.bytes \in Nat
  PROVE  Bytes(s) \in Nat
BY BytesAreSums, BytesIs

\* One more element adds its bytes.
LEMMA BytesAppend ==
  ASSUME NEW S, NEW s \in Seq(S), \A x \in S : x.bytes \in Nat, NEW x \in S
  PROVE  Bytes(Append(s, x)) = Bytes(s) + x.bytes
<1>1. PICK p : Sums(p, s) /\ Bytes(s) = p[Len(s)]
  BY BytesAreSums
<1> PICK r : r = Append(s, x)
  OBVIOUS
<1>2. /\ r \in Seq(S) /\ Len(r) = Len(s) + 1
      /\ \A i \in 1..Len(s) : r[i] = s[i]
      /\ r[Len(s) + 1] = x
  BY AppendProperties
<1> PICK q : q = [k \in 0..Len(r) |-> IF k = Len(r) THEN p[Len(s)] + x.bytes ELSE p[k]]
  OBVIOUS
<1>3. Sums(q, r)
  <2>p. p \in [0..Len(s) -> Nat] /\ Len(s) \in Nat /\ x.bytes \in Nat
    BY <1>1 DEF Sums
  <2>1. q \in [0..Len(r) -> Nat]
    <3>1. ASSUME NEW k \in 0..Len(r)
          PROVE  (IF k = Len(r) THEN p[Len(s)] + x.bytes ELSE p[k]) \in Nat
      <4>0. p[Len(s)] \in Nat /\ p[Len(s)] + x.bytes \in Nat
        BY <2>p
      <4>1. CASE k = Len(r)
        BY <4>0, <4>1
      <4>2. CASE k # Len(r)
        <5>1. k \in 0..Len(s)
          BY <2>p, <1>2, <4>2
        <5> QED
          BY <2>p, <4>2, <5>1
      <4> QED
        BY <4>1, <4>2
    <3> QED
      BY <3>1
  <2>2. q[0] = 0
    BY <1>1, <1>2 DEF Sums
  <2>3. ASSUME NEW k \in 1..Len(r) PROVE q[k] = q[k - 1] + r[k].bytes
    BY <1>1, <1>2 DEF Sums
  <2> QED
    BY <2>1, <2>2, <2>3 DEF Sums
<1>4. Bytes(r) = q[Len(r)]
  BY <1>2, <1>3, BytesIs
<1> QED
  BY <1>1, <1>2, <1>4

\* A sequence without its place i.
LEMMA RemovedAt ==
  ASSUME NEW S, NEW s \in Seq(S), NEW i \in 1..Len(s)
  PROVE  /\ RemoveAt(s, i) \in Seq(S)
         /\ Len(RemoveAt(s, i)) = Len(s) - 1
         /\ \A k \in 1..Len(s) - 1 : RemoveAt(s, i)[k] = IF k < i THEN s[k] ELSE s[k + 1]
<1> DEFINE a == SubSeq(s, 1, i - 1)
           b == SubSeq(s, i + 1, Len(s))
<1>1. a \in Seq(S) /\ Len(a) = i - 1 /\ \A k \in 1..i - 1 : a[k] = s[k]
  OBVIOUS
<1>2. b \in Seq(S) /\ Len(b) = Len(s) - i /\ \A k \in 1..Len(s) - i : b[k] = s[k + i]
  OBVIOUS
<1>0. RemoveAt(s, i) = a \o b
  BY DEF RemoveAt
<1> HIDE DEF a, b
<1>3. /\ a \o b \in Seq(S)
      /\ Len(a \o b) = Len(a) + Len(b)
      /\ \A k \in 1..Len(a) + Len(b) : (a \o b)[k] = IF k <= Len(a) THEN a[k] ELSE b[k - Len(a)]
  BY <1>1, <1>2, ConcatProperties
<1> DEFINE r == RemoveAt(s, i)
<1>4. /\ r \in Seq(S) /\ Len(r) = Len(s) - 1
      /\ \A k \in 1..Len(s) - 1 : r[k] = IF k <= i - 1 THEN a[k] ELSE b[k - (i - 1)]
  BY <1>0, <1>1, <1>2, <1>3
<1> HIDE DEF r
<1>5. ASSUME NEW k \in 1..Len(s) - 1 PROVE r[k] = IF k < i THEN s[k] ELSE s[k + 1]
  <2>1. CASE k < i
    BY <1>1, <1>4, <2>1
  <2>2. CASE k >= i
    <3>1. r[k] = b[k - (i - 1)]
      <4>1. r[k] = IF k <= i - 1 THEN a[k] ELSE b[k - (i - 1)]
        BY <1>4
      <4>2. ~(k <= i - 1)
        BY <2>2
      <4> QED
        BY <4>1, <4>2
    <3>2. k - (i - 1) \in 1..Len(s) - i /\ k - (i - 1) + i = k + 1
      BY <2>2
    <3> QED
      BY <1>2, <2>2, <3>1, <3>2
  <2> QED
    BY <2>1, <2>2
<1> QED
  BY <1>4, <1>5 DEF r

\* The sums of the beginnings of a row of n numbers, and of the row without its place i.
Adds(p, n, w) == p[0] = 0 /\ \A k \in 1..n : p[k] = p[k - 1] + w[k]
Skips(w, i, k) == IF k < i THEN w[k] ELSE w[k + 1]
AddsOthers(q, n, w, i) == q[0] = 0 /\ \A k \in 1..n - 1 : q[k] = q[k - 1] + Skips(w, i, k)

\* The sum of a row without its place i is the sum of the row without what is there.
LEMMA OthersAdd ==
  ASSUME NEW n \in Nat \ {0}, NEW i \in 1..n,
         NEW p \in [0..n -> Nat], NEW q \in [0..n - 1 -> Nat], NEW w \in [1..n -> Nat],
         Adds(p, n, w), AddsOthers(q, n, w, i)
  PROVE  q[n - 1] + w[i] = p[n]
<1> DEFINE Differ(k) == IF k < i THEN q[k] = p[k] ELSE q[k] + w[i] = p[k + 1]
           T == {k \in 0..n - 1 : Differ(k)}
<1>1. 0 \in T
  BY DEF Adds, AddsOthers
<1>2. ASSUME NEW k \in 1..n - 1, k - 1 \in T PROVE k \in T
  <2>1. q[k] = q[k - 1] + Skips(w, i, k)
    BY DEF AddsOthers
  <2>2. p[k] = p[k - 1] + w[k] /\ p[k + 1] = p[k] + w[k + 1]
    <3>1. k \in 1..n /\ k + 1 \in 1..n /\ (k + 1) - 1 = k
      OBVIOUS
    <3> QED
      BY <3>1 DEF Adds
  <2>3. /\ q[k] \in Nat /\ q[k - 1] \in Nat /\ p[k] \in Nat /\ p[k - 1] \in Nat
        /\ p[k + 1] \in Nat /\ w[k] \in Nat /\ w[k + 1] \in Nat /\ w[i] \in Nat
    <3>1. /\ k \in 0..n - 1 /\ k - 1 \in 0..n - 1 /\ k \in 0..n /\ k - 1 \in 0..n
          /\ k + 1 \in 0..n /\ k \in 1..n /\ k + 1 \in 1..n
      OBVIOUS
    <3> HIDE DEF T
    <3> QED
      BY <3>1
  <2>4. IF k - 1 < i THEN q[k - 1] = p[k - 1] ELSE q[k - 1] + w[i] = p[k]
    BY <1>2
  <2>5. Differ(k)
    <3>1. CASE k < i
      BY <2>1, <2>2, <2>3, <2>4, <3>1 DEF Skips
    <3>2. CASE k = i
      <4>1. q[k - 1] = p[k - 1] /\ q[k] = q[k - 1] + w[k + 1]
        BY <2>1, <2>4, <3>2 DEF Skips
      <4>2. (q[k - 1] + w[k + 1]) + w[k] = (q[k - 1] + w[k]) + w[k + 1]
        <5> PICK a \in Nat, b \in Nat, c \in Nat : a = q[k - 1] /\ b = w[k + 1] /\ c = w[k]
          BY <2>3
        <5> HIDE DEF T
        <5> QED
          OBVIOUS
      <4>3. q[k] + w[k] = p[k + 1]
        BY <2>2, <4>1, <4>2
      <4> QED
        BY <3>2, <4>3
    <3>3. CASE k > i
      <4>1. q[k - 1] + w[i] = p[k] /\ q[k] = q[k - 1] + w[k + 1]
        BY <2>1, <2>4, <3>3 DEF Skips
      <4>2. (q[k - 1] + w[k + 1]) + w[i] = (q[k - 1] + w[i]) + w[k + 1]
        <5> PICK a \in Nat, b \in Nat, c \in Nat : a = q[k - 1] /\ b = w[k + 1] /\ c = w[i]
          BY <2>3
        <5> HIDE DEF T
        <5> QED
          OBVIOUS
      <4>3. q[k] + w[i] = p[k + 1]
        BY <2>2, <4>1, <4>2
      <4> QED
        BY <3>3, <4>3
    <3> QED
      BY <3>1, <3>2, <3>3
  <2> QED
    BY <2>5
<1>3. n - 1 \in Nat /\ n - 1 \in 0..n - 1
  OBVIOUS
<1> HIDE DEF T
<1>4. n - 1 \in T
  BY <1>1, <1>2, <1>3, UpTo
<1>5. Differ(n - 1)
  BY <1>4 DEF T
<1>6. n \in 1..n /\ p[n] = p[n - 1] + w[n]
  BY DEF Adds
<1>7. /\ q[n - 1] \in Nat /\ p[n - 1] \in Nat /\ p[n] \in Nat /\ w[n] \in Nat
      /\ w[i] \in Nat
  OBVIOUS
<1>8. CASE i = n
  BY <1>5, <1>6, <1>7, <1>8
<1>9. CASE i < n
  BY <1>5, <1>9
<1> QED
  BY <1>8, <1>9

\* An element that is removed takes its bytes with it.
LEMMA BytesRemoveAt ==
  ASSUME NEW S, NEW s \in Seq(S), \A x \in S : x.bytes \in Nat, NEW i \in 1..Len(s)
  PROVE  Bytes(RemoveAt(s, i)) + s[i].bytes = Bytes(s)
<1> DEFINE r == RemoveAt(s, i)
           n == Len(s)
           w == [k \in 1..n |-> s[k].bytes]
<1>1. PICK p : Sums(p, s) /\ Bytes(s) = p[Len(s)]
  BY BytesAreSums
<1>2. /\ r \in Seq(S) /\ Len(r) = Len(s) - 1
      /\ \A k \in 1..Len(s) - 1 : r[k] = IF k < i THEN s[k] ELSE s[k + 1]
  BY RemovedAt
<1> HIDE DEF r
<1>3. PICK q : Sums(q, r) /\ Bytes(r) = q[Len(r)]
  BY <1>2, BytesAreSums
<1>4. /\ n \in Nat \ {0} /\ Len(r) = n - 1 /\ i \in 1..n
      /\ p \in [0..n -> Nat] /\ Bytes(s) = p[n]
      /\ q \in [0..n - 1 -> Nat] /\ Bytes(r) = q[n - 1]
  BY <1>1, <1>2, <1>3 DEF Sums
<1>5. w \in [1..n -> Nat] /\ s[i].bytes = w[i]
  OBVIOUS
<1>6. Adds(p, n, w)
  BY <1>1, <1>5 DEF Sums, Adds
<1>7. AddsOthers(q, n, w, i)
  <2>1. q[0] = 0
    BY <1>3 DEF Sums
  <2>2. ASSUME NEW k \in 1..n - 1 PROVE q[k] = q[k - 1] + Skips(w, i, k)
    <3>1. q[k] = q[k - 1] + r[k].bytes
      BY <1>2, <1>3 DEF Sums
    <3>2. r[k].bytes = Skips(w, i, k)
      BY <1>2 DEF Skips
    <3> QED
      BY <3>1, <3>2
  <2> QED
    BY <2>1, <2>2 DEF AddsOthers
<1>8. q[n - 1] + w[i] = p[n]
  <2> HIDE DEF n, w
  <2> QED
    BY <1>4, <1>5, <1>6, <1>7, OthersAdd
<1> QED
  BY <1>4, <1>5, <1>8 DEF r

\* What is left of the beginnings of a sequence ends in what is left of it.
Rests(r, s, gone) ==
  /\ r[0] = <<>>
  /\ \A k \in 1..Len(s) : r[k] = IF s[k] \in gone THEN r[k - 1] ELSE Append(r[k - 1], s[k])

\* What is left of a sequence is found element by element.
LEMMA WithoutInSteps ==
  ASSUME NEW S, NEW s \in Seq(S), NEW gone
  PROVE  \E r : Rests(r, s, gone) /\ Without(s, gone) = r[Len(s)]
<1> DEFINE n == Len(s)
<1>1. n \in Nat
  OBVIOUS
<1>0. DOMAIN s = 1..n /\ \A i \in 1..n : s[i] \in S
  OBVIOUS
<1>2. n = Len(s)
  OBVIOUS
<1> HIDE DEF n
<1> DEFINE Step(x, rest) == IF x \in gone THEN rest ELSE Append(rest, x)
           step == [i \in 1..n |-> [rest \in Seq(S) |-> Step(s[i], rest)]]
<1>3. step \in [1..n -> [Seq(S) -> Seq(S)]]
  <2>1. ASSUME NEW i \in 1..n, NEW rest \in Seq(S) PROVE Step(s[i], rest) \in Seq(S)
    BY <1>0
  <2> HIDE DEF Step
  <2> QED
    BY <2>1
<1>4. PICK f \in [SUBSET (1..n) -> Seq(S)] : Folds(f, n, <<>>, step)
  <2>1. <<>> \in Seq(S)
    OBVIOUS
  <2> HIDE DEF step
  <2> QED
    BY <1>1, <1>3, <2>1, FoldExists
<1>5. ASSUME NEW t \in SUBSET (1..n), t # {}
      PROVE  step[Max(t)][f[t \ {Max(t)}]] = Step(s[Max(t)], f[t \ {Max(t)}])
  <2>1. Max(t) \in 1..n
    BY <1>1, <1>5, LastOfPlaces
  <2>2. f[t \ {Max(t)}] \in Seq(S)
    OBVIOUS
  <2> HIDE DEF Step
  <2> QED
    BY <2>1, <2>2
<1>6. f = [t \in SUBSET DOMAIN s |->
             IF t = {} THEN <<>> ELSE LET x == Max(t) IN Step(s[x], f[t \ {x}])]
  <2> HIDE DEF step, Step
  <2> QED
    BY <1>0, <1>4, <1>5 DEF Folds
<1> HIDE DEF step
<1> DEFINE g == CHOOSE h : h = [t \in SUBSET DOMAIN s |->
                    IF t = {} THEN <<>> ELSE LET x == Max(t) IN Step(s[x], h[t \ {x}])]
<1>7. g = [t \in SUBSET DOMAIN s |->
             IF t = {} THEN <<>> ELSE LET x == Max(t) IN Step(s[x], g[t \ {x}])]
  <2> HIDE DEF Step
  <2> QED
    BY <1>6
<1>8. Without(s, gone) = g[DOMAIN s]
  BY DEF Without, FoldLeft, MapThenFoldSet
<1> HIDE DEF g
<1> DEFINE r == [k \in 0..n |-> g[1..k]]
<1>9. r[0] = <<>>
  <2>1. 1..0 = {}
    OBVIOUS
  <2>2. g[{}] = <<>>
    BY <1>7
  <2> QED
    BY <1>1, <2>1, <2>2
<1>10. ASSUME NEW k \in 1..n PROVE r[k] = Step(s[k], r[k - 1])
  <2> HIDE DEF Step
  <2>1. 1..k # {} /\ 1..k \in SUBSET DOMAIN s
    <3>1. k \in 1..k /\ 1..k \subseteq 1..n
      BY <1>1
    <3> QED
      BY <1>0, <3>1
  <2>2. g[1..k] = Step(s[Max(1..k)], g[(1..k) \ {Max(1..k)}])
    BY <1>7, <2>1
  <2>3. Max(1..k) = k /\ (1..k) \ {k} = 1..k - 1
    BY <1>1, LastPlace
  <2>4. g[1..k] = Step(s[k], g[1..k - 1])
    BY <2>2, <2>3
  <2> QED
    BY <1>1, <2>4
<1>11. Without(s, gone) = r[n]
  BY <1>0, <1>1, <1>8
<1> HIDE DEF r
<1> QED
  BY <1>2, <1>9, <1>10, <1>11 DEF Rests

\* No two elements have the same id.
Distinct(s) == \A i, j \in DOMAIN s : s[i].id = s[j].id => i = j

\* What stays are elements of the sequence, once each, and no more bytes than before.
LEMMA WithoutKeeps ==
  ASSUME NEW S, NEW s \in Seq(S), \A x \in S : x.bytes \in Nat, NEW gone
  PROVE  LET r == Without(s, gone)
         IN /\ r \in Seq(S)
            /\ \A j \in DOMAIN r : \E i \in DOMAIN s : r[j] = s[i]
            /\ Distinct(s) => Distinct(r)
            /\ Bytes(r) <= Bytes(s)
<1>1. PICK w : Rests(w, s, gone) /\ Without(s, gone) = w[Len(s)]
  BY WithoutInSteps
<1>2. PICK p : Sums(p, s) /\ Bytes(s) = p[Len(s)]
  BY BytesAreSums
<1> DEFINE n == Len(s)
           From(r, k) == \A j \in DOMAIN r : \E i \in 1..k : r[j] = s[i]
           T == {k \in 0..n : /\ w[k] \in Seq(S)
                              /\ From(w[k], k)
                              /\ Distinct(s) => Distinct(w[k])
                              /\ Bytes(w[k]) <= p[k]}
<1>3. 0 \in T
  <2>1. w[0] = <<>> /\ p[0] = 0 /\ 0 \in 0..n
    BY <1>1, <1>2 DEF Rests, Sums
  <2>2. DOMAIN w[0] = {}
    BY <2>1
  <2>3. w[0] \in Seq(S) /\ From(w[0], 0) /\ Distinct(w[0])
    BY <2>1, <2>2 DEF Distinct
  <2>4. Bytes(w[0]) = 0
    <3> DEFINE q == [k \in 0..0 |-> 0]
    <3>1. Sums(q, <<>>)
      BY DEF Sums
    <3>2. q[Len(<<>>)] = 0
      OBVIOUS
    <3> HIDE DEF q
    <3>3. <<>> \in Seq(S)
      OBVIOUS
    <3>4. Bytes(<<>>) = q[Len(<<>>)]
      BY <3>1, <3>3, BytesIs
    <3> QED
      BY <2>1, <3>2, <3>4
  <2>5. Bytes(w[0]) <= p[0]
    BY <2>1, <2>4
  <2> QED
    BY <2>1, <2>3, <2>5
<1>4. ASSUME NEW k \in 1..n, k - 1 \in T PROVE k \in T
  <2> DEFINE v == w[k - 1]
  <2>1. /\ v \in Seq(S) /\ From(v, k - 1)
        /\ Distinct(s) => Distinct(v)
        /\ Bytes(v) <= p[k - 1]
    BY <1>4
  <2>2. p[k] = p[k - 1] + s[k].bytes /\ p[k] \in Nat /\ p[k - 1] \in Nat
    <3>1. p \in [0..n -> Nat] /\ \A i \in 1..n : p[i] = p[i - 1] + s[i].bytes
      BY <1>2 DEF Sums
    <3>2. k \in 0..n /\ k - 1 \in 0..n
      OBVIOUS
    <3> QED
      BY <3>1, <3>2
  <2>3. s[k] \in S /\ s[k].bytes \in Nat /\ k \in 0..n
    OBVIOUS
  <2>4. Bytes(v) \in Nat
    BY <2>1, BytesNat
  <2>5. w[k] = IF s[k] \in gone THEN v ELSE Append(v, s[k])
    BY <1>1 DEF Rests
  <2> HIDE DEF v
  <2>6. CASE s[k] \in gone
    <3>1. w[k] = v
      BY <2>5, <2>6
    <3>2. From(v, k)
      <4>1. From(v, k - 1)
        BY <2>1
      <4> QED
        BY <4>1
    <3>3. Bytes(v) <= p[k]
      BY <2>1, <2>2, <2>3, <2>4
    <3> QED
      BY <2>1, <2>3, <3>1, <3>2, <3>3
  <2>7. CASE s[k] \notin gone
    <3> DEFINE r == Append(v, s[k])
    <3>1. w[k] = r
      BY <2>5, <2>7
    <3>2. /\ r \in Seq(S) /\ DOMAIN r = 1..Len(v) + 1
          /\ \A j \in 1..Len(v) : r[j] = v[j]
          /\ r[Len(v) + 1] = s[k]
      BY <2>1, <2>3, AppendProperties
    <3>3. Bytes(r) = Bytes(v) + s[k].bytes
      BY <2>1, <2>3, BytesAppend
    <3> HIDE DEF r
    <3>4. Bytes(r) <= p[k]
      <4>1. Bytes(v) <= p[k - 1]
        BY <2>1
      <4> QED
        BY <2>2, <2>3, <2>4, <3>3, <4>1
    <3>5. DOMAIN v = 1..Len(v) /\ Len(v) \in Nat
      BY <2>1
    <3>6. From(r, k)
      BY <2>1, <3>2, <3>5
    <3>7. ASSUME Distinct(s) PROVE Distinct(r)
      <4>1. Distinct(v)
        BY <2>1, <3>7
      <4>2. ASSUME NEW j \in 1..Len(v) PROVE r[j].id # s[k].id
        <5>0. r[j] = v[j] /\ j \in DOMAIN v
          BY <3>2, <3>5
        <5>1. PICK i \in 1..k - 1 : r[j] = s[i]
          BY <2>1, <5>0
        <5>2. i \in DOMAIN s /\ k \in DOMAIN s /\ i # k
          OBVIOUS
        <5> QED
          BY <3>7, <5>1, <5>2 DEF Distinct
      <4>3. ASSUME NEW i \in DOMAIN r, NEW j \in DOMAIN r, r[i].id = r[j].id PROVE i = j
        <5>1. CASE i \in 1..Len(v) /\ j \in 1..Len(v)
          BY <3>2, <3>5, <4>1, <4>3, <5>1 DEF Distinct
        <5>2. CASE i = Len(v) + 1 /\ j = Len(v) + 1
          BY <5>2
        <5>3. CASE i = Len(v) + 1 /\ j \in 1..Len(v)
          BY <3>2, <4>2, <4>3, <5>3
        <5>4. CASE j = Len(v) + 1 /\ i \in 1..Len(v)
          BY <3>2, <4>2, <4>3, <5>4
        <5> QED
          BY <3>2, <3>5, <5>1, <5>2, <5>3, <5>4
      <4> QED
        BY <4>3 DEF Distinct
    <3> QED
      BY <2>3, <3>1, <3>2, <3>4, <3>6, <3>7
  <2> QED
    BY <2>6, <2>7
<1>5. n \in Nat /\ n \in 0..n /\ DOMAIN s = 1..n
  OBVIOUS
<1>6. n \in T
  <2> HIDE DEF T, n
  <2> QED
    BY <1>3, <1>4, <1>5, UpTo
<1> QED
  BY <1>1, <1>2, <1>5, <1>6

(***************************************************************************)
(* The books of the memory budget                                          *)
(***************************************************************************)

\* The first place with a number, if there is one.
LEMMA PositionIsThere ==
  ASSUME NEW S, NEW s \in Seq(S), NEW id, Position(s, id) # 0
  PROVE  Position(s, id) \in 1..Len(s) /\ s[Position(s, id)].id = id
<1> DEFINE I == {i \in 1..Len(s) : s[i].id = id}
<1>1. Position(s, id) = IF I # {} THEN Min(I) ELSE 0
  BY DEF Position, SelectInSeq
<1>2. I # {} /\ I \subseteq Nat
  BY <1>1
<1>3. \E x \in I : \A y \in I : x <= y
  <2> HIDE DEF I
  <2> QED
    BY <1>2, SmallestNat
<1>4. Min(I) \in I
  <2> HIDE DEF I
  <2> QED
    BY <1>3 DEF Min
<1> QED
  BY <1>1, <1>2, <1>4

\* The first allocation of an owner, if there is one.
LEMMA FirstIsThere ==
  ASSUME NEW S, NEW s \in Seq(S), NEW owner,
         FirstOf(s, owner) # 0
  PROVE  FirstOf(s, owner) \in 1..Len(s)
<1> DEFINE I == {i \in 1..Len(s) : s[i].owner = owner}
<1>1. FirstOf(s, owner) = IF I # {} THEN Min(I) ELSE 0
  BY DEF FirstOf, SelectInSeq
<1>2. I # {} /\ I \subseteq Nat
  BY <1>1
<1>3. \E x \in I : \A y \in I : x <= y
  <2> HIDE DEF I
  <2> QED
    BY <1>2, SmallestNat
<1>4. Min(I) \in I
  <2> HIDE DEF I
  <2> QED
    BY <1>3 DEF Min
<1> QED
  BY <1>1, <1>2, <1>4

\* What is available fits beside what is used and what is promised.
LEMMA AvailableFits ==
  ASSUME NEW cap \in Nat, NEW used \in Nat, NEW promised \in Nat, NEW bytes \in Nat,
         used + promised <= cap, bytes <= Less(Less(cap, used), promised)
  PROVE  used + promised + bytes <= cap
BY DEF Less

\* The budget that callers share is a number.
LEMMA CapIsNat ==
  ASSUME MemoryBudgetAssumption
  PROVE  Less(TotalBudget, SystemBytes) \in Nat
BY DEF MemoryBudgetAssumption, Less

\* Tokens and allocations have a size.
LEMMA SizesAreBytes ==
  ASSUME MemoryBudgetAssumption
  PROVE  (\A x \in Token : x.bytes \in Nat) /\ (\A x \in Allocation : x.bytes \in Nat)
BY DEF MemoryBudgetAssumption, Token, Allocation

\* Every allocation has a number that was given out.
Numbered(s) == \A i \in DOMAIN s : s[i].id < nextAllocationSeq

\* Allocations can be named when their numbers were given out, each once.
LEMMA UniqueSplit ==
  AllocationsUnique <=> Numbered(activeAllocations) /\ Distinct(activeAllocations)
<1>1. AllocationsUnique => Numbered(activeAllocations) /\ Distinct(activeAllocations)
  BY DEF AllocationsUnique, Numbered, Distinct
<1>2. Numbered(activeAllocations) /\ Distinct(activeAllocations) => AllocationsUnique
  BY DEF AllocationsUnique, Numbered, Distinct
<1> QED
  BY <1>1, <1>2

\* An allocation that is removed leaves the others as they are.
LEMMA RemoveAtKeeps ==
  ASSUME NEW S, NEW s \in Seq(S), NEW i \in 1..Len(s)
  PROVE  LET r == RemoveAt(s, i)
         IN /\ r \in Seq(S)
            /\ \A j \in DOMAIN r : \E k \in DOMAIN s : r[j] = s[k]
            /\ Distinct(s) => Distinct(r)
<1> DEFINE r == RemoveAt(s, i)
           At(k) == IF k < i THEN k ELSE k + 1
<1>1. /\ r \in Seq(S) /\ Len(r) = Len(s) - 1
      /\ \A k \in 1..Len(s) - 1 : r[k] = IF k < i THEN s[k] ELSE s[k + 1]
  BY RemovedAt
<1> HIDE DEF r
<1>2. DOMAIN r = 1..Len(s) - 1 /\ DOMAIN s = 1..Len(s)
  BY <1>1
<1>3. ASSUME NEW k \in DOMAIN r PROVE At(k) \in DOMAIN s /\ r[k] = s[At(k)]
  BY <1>1, <1>2
<1>4. ASSUME Distinct(s) PROVE Distinct(r)
  <2>1. ASSUME NEW j \in DOMAIN r, NEW k \in DOMAIN r, r[j].id = r[k].id PROVE j = k
    <3>1. At(j) = At(k)
      <4>1. At(j) \in DOMAIN s /\ At(k) \in DOMAIN s /\ s[At(j)].id = s[At(k)].id
        BY <1>3, <2>1
      <4> HIDE DEF At
      <4> QED
        BY <1>4, <4>1 DEF Distinct
    <3> QED
      BY <1>2, <3>1
  <2> QED
    BY <2>1 DEF Distinct
<1> QED
  BY <1>1, <1>3, <1>4 DEF r

\* One more allocation, with the next number.
LEMMA AllocatedKeeps ==
  ASSUME TypeOK, MemoryBudgetAssumption, NEW s \in Seq(Allocation), NEW owner \in Owners, NEW bytes \in Sizes,
         Numbered(s), Distinct(s)
  PROVE  LET r == Allocated(s, owner, bytes)
         IN /\ r \in Seq(Allocation)
            /\ \A i \in DOMAIN r : r[i].id < nextAllocationSeq + 1
            /\ Distinct(r)
            /\ Bytes(r) = Bytes(s) + bytes
            /\ Last(r).owner = owner /\ Last(r).bytes = bytes
<1> DEFINE a == [id |-> nextAllocationSeq, owner |-> owner, bytes |-> bytes]
           r == Append(s, a)
<1>1. a \in Allocation /\ a.id = nextAllocationSeq /\ a.owner = owner /\ a.bytes = bytes
      /\ nextAllocationSeq \in Nat
  BY DEF TypeOK, Allocation, MemoryBudgetAssumption
<1>2. Allocated(s, owner, bytes) = r
  BY DEF Allocated
<1> HIDE DEF a
<1>3. /\ r \in Seq(Allocation) /\ Len(r) = Len(s) + 1 /\ DOMAIN r = 1..Len(s) + 1
      /\ \A j \in 1..Len(s) : r[j] = s[j]
      /\ r[Len(s) + 1] = a
  BY <1>1, AppendProperties
<1>4. Bytes(r) = Bytes(s) + bytes
  <2>1. Bytes(r) = Bytes(s) + a.bytes
    <3> HIDE DEF r
    <3> QED
      BY <1>1, SizesAreBytes, BytesAppend DEF r
  <2> QED
    BY <1>1, <2>1
<1> HIDE DEF r
<1>5. DOMAIN s = 1..Len(s) /\ Len(s) \in Nat /\ \A j \in 1..Len(s) : s[j].id \in Nat
  <2>1. \A x \in Allocation : x.id \in Nat
    BY DEF Allocation
  <2>2. \A j \in 1..Len(s) : s[j] \in Allocation
    OBVIOUS
  <2> QED
    BY <2>1, <2>2
<1>6. \A i \in DOMAIN r : r[i].id < nextAllocationSeq + 1
  <2> TAKE i \in DOMAIN r
  <2>1. CASE i \in 1..Len(s)
    <3>1. s[i].id < nextAllocationSeq /\ s[i].id \in Nat
      BY <1>5, <2>1 DEF Numbered
    <3> QED
      BY <1>1, <1>3, <2>1, <3>1
  <2>2. CASE i = Len(s) + 1
    BY <1>1, <1>3, <2>2
  <2> QED
    BY <1>3, <1>5, <2>1, <2>2
<1>7. Distinct(r)
  <2>1. \A i \in 1..Len(s) : s[i].id # a.id
    BY <1>1, <1>5 DEF Numbered
  <2>2. ASSUME NEW i \in DOMAIN r, NEW j \in DOMAIN r, r[i].id = r[j].id PROVE i = j
    <3>1. CASE i \in 1..Len(s) /\ j \in 1..Len(s)
      BY <1>3, <1>5, <2>2, <3>1 DEF Distinct
    <3>2. CASE i = Len(s) + 1 /\ j \in 1..Len(s)
      BY <1>3, <2>1, <2>2, <3>2
    <3>3. CASE j = Len(s) + 1 /\ i \in 1..Len(s)
      BY <1>3, <2>1, <2>2, <3>3
    <3>4. CASE i = Len(s) + 1 /\ j = Len(s) + 1
      BY <3>4
    <3> QED
      BY <1>3, <1>5, <3>1, <3>2, <3>3, <3>4
  <2> QED
    BY <2>2 DEF Distinct
<1>8. Last(r) = a
  BY <1>3 DEF Last
<1> QED
  BY <1>1, <1>2, <1>3, <1>4, <1>6, <1>7, <1>8

\* The books, and the answer a commit was given last.
BudgetInv == BudgetWellFormed /\ CommitsItsToken

\* The policy starts with empty books.
LEMMA BudgetInit == ASSUME MemoryBudgetAssumption, Init PROVE BudgetInv
<1>1. TypeOK
  BY DEF Init, TypeOK, MemoryBudgetAssumption
<1>2. AllocationsUnique
  BY DEF Init, AllocationsUnique
<1>3. WithinBudget
  <2>1. <<>> \in Seq(Token) /\ Len(<<>>) = 0
    OBVIOUS
  <2>2. Bytes(<<>>) = 0
    <3> DEFINE q == [k \in 0..0 |-> 0]
    <3>1. Sums(q, <<>>) /\ q[0] = 0
      BY DEF Sums
    <3> HIDE DEF q
    <3> QED
      BY <2>1, <3>1, SizesAreBytes, BytesIs
  <2> QED
    BY <2>2, CapIsNat DEF Init, WithinBudget
<1>4. CommitsItsToken
  BY DEF Init, CommitsItsToken
<1> QED
  BY <1>1, <1>2, <1>3, <1>4 DEF BudgetInv, BudgetWellFormed

\* A reservation fits in what is available.
LEMMA ReserveStep ==
  ASSUME MemoryBudgetAssumption, BudgetInv,
         NEW owner \in Owners, NEW bytes \in Sizes, Reserve(owner, bytes)
  PROVE  BudgetInv'
<1> USE DEF BudgetInv, BudgetWellFormed
<1>1. CommitsItsToken'
  BY DEF Reserve, CommitsItsToken
<1>2. AllocationsUnique'
  BY DEF Reserve, AllocationsUnique
<1>3. CASE bytes > Available(activeAllocations)
  BY <1>1, <1>2, <1>3 DEF Reserve, TypeOK, WithinBudget
<1>4. CASE ~(bytes > Available(activeAllocations))
  <2> DEFINE token == [id |-> Len(reservations) + 1, owner |-> owner, bytes |-> bytes,
                       requested |-> now, expires |-> now + ReservationTtl]
  <2>1. token \in Token /\ token.bytes = bytes
    BY DEF TypeOK, Token, MemoryBudgetAssumption
  <2>2. reservations' = Append(reservations, token) /\ held' = held \cup {token}
    BY <1>4 DEF Reserve
  <2> HIDE DEF token
  <2>3. reservations \in Seq(Token) /\ activeAllocations \in Seq(Allocation)
    BY DEF TypeOK
  <2>4. Bytes(reservations') = Bytes(reservations) + bytes
    BY <2>1, <2>2, <2>3, SizesAreBytes, BytesAppend
  <2>5. Bytes(activeAllocations) \in Nat /\ Bytes(reservations) \in Nat
    BY <2>3, SizesAreBytes, BytesNat
  <2>6. bytes \in Nat /\ Available(activeAllocations) \in Nat
    BY <2>5, CapIsNat DEF MemoryBudgetAssumption, Available, Less
  <2>7. bytes <= Less(Less(Less(TotalBudget, SystemBytes), Bytes(activeAllocations)),
                      Bytes(reservations))
    BY <1>4, <2>6 DEF Available
  <2>8. Bytes(activeAllocations) + Bytes(reservations) + bytes <= Less(TotalBudget, SystemBytes)
    BY <2>5, <2>6, <2>7, CapIsNat, AvailableFits DEF WithinBudget
  <2>9. activeAllocations' = activeAllocations
    BY DEF Reserve
  <2>10. WithinBudget'
    BY <2>4, <2>5, <2>6, <2>8, <2>9 DEF WithinBudget
  <2>11. TypeOK'
    <3>1. reservations' \in Seq(Token)
      BY <2>1, <2>2, <2>3
    <3>2. held' \subseteq Token
      BY <2>1, <2>2 DEF TypeOK
    <3>3. issued' \in 0..MaxTokens
      BY <1>4 DEF Reserve, TypeOK, MemoryBudgetAssumption
    <3> QED
      BY <3>1, <3>2, <3>3 DEF Reserve, TypeOK
  <2> QED
    BY <1>1, <1>2, <2>10, <2>11
<1> QED
  BY <1>3, <1>4

\* A commit moves bytes from one book to the other.
LEMMA CommitStep ==
  ASSUME MemoryBudgetAssumption, BudgetInv, NEW token \in held, Commit(token)
  PROVE  BudgetInv'
<1> USE DEF BudgetInv, BudgetWellFormed
<1> DEFINE i == Position(reservations, token.id)
           ok == i # 0 /\ IsReserved(i, token) /\ ~Expired(token)
<1>1. /\ nextAllocationSeq <= MaxAllocations
      /\ held' = held \ {token}
      /\ reply' = [op |-> "commit", ok |-> ok, token |-> token]
      /\ now' = now /\ issued' = issued
  BY DEF Commit
<1>2. /\ reservations \in Seq(Token) /\ activeAllocations \in Seq(Allocation)
      /\ held' \subseteq Token /\ now' \in 0..MaxTime /\ issued' \in 0..MaxTokens
      /\ nextAllocationSeq \in 1..MaxAllocations + 1
  BY <1>1 DEF TypeOK
<1>3. CASE ~ok
  <2>1. UNCHANGED <<activeAllocations, nextAllocationSeq, reservations>>
    BY <1>3 DEF Commit
  <2>2. CommitsItsToken'
    BY <1>1, <1>3 DEF CommitsItsToken
  <2>3. TypeOK'
    BY <1>2, <2>1 DEF TypeOK
  <2> HIDE DEF ok, i
  <2> QED
    BY <2>1, <2>2, <2>3 DEF AllocationsUnique, WithinBudget
<1>4. CASE ok
  <2> DEFINE r == reservations[i]
  <2>1. /\ activeAllocations' = Allocated(activeAllocations, r.owner, r.bytes)
        /\ nextAllocationSeq' = nextAllocationSeq + 1
        /\ reservations' = RemoveAt(reservations, i)
    BY <1>4 DEF Commit
  <2>2. i # 0 /\ r = token
    BY <1>4 DEF IsReserved
  <2> HIDE DEF ok
  <2>3. i \in 1..Len(reservations)
    BY <1>2, <2>2, PositionIsThere
  <2> HIDE DEF i
  <2>4. r \in Token /\ r.owner \in Owners /\ r.bytes \in Sizes /\ r.bytes \in Nat
    <3>1. r \in Token
      BY <1>2, <2>3
    <3> HIDE DEF r
    <3> QED
      BY <3>1 DEF Token, MemoryBudgetAssumption
  <2>5. Bytes(RemoveAt(reservations, i)) + r.bytes = Bytes(reservations)
    BY <1>2, <2>3, SizesAreBytes, BytesRemoveAt
  <2>6. reservations' \in Seq(Token)
    BY <1>2, <2>1, <2>3, RemovedAt
  <2>7. Numbered(activeAllocations) /\ Distinct(activeAllocations)
    BY UniqueSplit
  <2> HIDE DEF r
  <2>8. /\ activeAllocations' \in Seq(Allocation)
        /\ \A k \in DOMAIN activeAllocations' : activeAllocations'[k].id < nextAllocationSeq + 1
        /\ Distinct(activeAllocations')
        /\ Bytes(activeAllocations') = Bytes(activeAllocations) + r.bytes
        /\ Last(activeAllocations').owner = r.owner /\ Last(activeAllocations').bytes = r.bytes
    BY <1>2, <2>1, <2>4, <2>7, AllocatedKeeps
  <2>9. AllocationsUnique'
    BY <2>1, <2>8 DEF AllocationsUnique, Distinct
  <2>10. Bytes(activeAllocations) \in Nat /\ Bytes(reservations') \in Nat
    BY <1>2, <2>6, SizesAreBytes, BytesNat
  <2>11. WithinBudget'
    <3>1. Bytes(activeAllocations') + Bytes(reservations') = Bytes(activeAllocations) + Bytes(reservations)
      BY <2>1, <2>4, <2>5, <2>8, <2>10
    <3> QED
      BY <3>1 DEF WithinBudget
  <2>12. CommitsItsToken'
    BY <1>1, <2>2, <2>8 DEF CommitsItsToken
  <2>13. TypeOK'
    <3>1. nextAllocationSeq' \in 1..MaxAllocations + 1
      BY <1>1, <1>2, <2>1 DEF MemoryBudgetAssumption
    <3> QED
      BY <1>2, <2>6, <2>8, <3>1 DEF TypeOK
  <2> QED
    BY <2>9, <2>11, <2>12, <2>13
<1> HIDE DEF ok
<1> QED
  BY <1>3, <1>4

\* Whatever leaves the books leaves the rest in order.
LEMMA ReleaseStep ==
  ASSUME MemoryBudgetAssumption, BudgetInv, NEW token \in held, Release(token)
  PROVE  BudgetInv'
<1> USE DEF BudgetInv, BudgetWellFormed
<1> DEFINE i == Position(reservations, token.id)
<1>1. /\ reservations \in Seq(Token) /\ activeAllocations \in Seq(Allocation)
      /\ UNCHANGED <<activeAllocations, nextAllocationSeq, now, issued>>
      /\ held' = held \ {token} /\ reply' = [op |-> "release"]
  BY DEF Release, TypeOK
<1>2. reservations' \in Seq(Token) /\ Bytes(reservations') <= Bytes(reservations)
      /\ Bytes(reservations') \in Nat
  <2>1. CASE i = 0
    <3>1. reservations' = reservations
      BY <2>1 DEF Release
    <3>2. Bytes(reservations) \in Nat
      BY <1>1, SizesAreBytes, BytesNat
    <3> HIDE DEF i
    <3> QED
      BY <1>1, <3>1, <3>2
  <2>2. CASE i # 0
    <3>1. reservations' = RemoveAt(reservations, i)
      BY <2>2 DEF Release
    <3>2. i \in 1..Len(reservations)
      BY <1>1, <2>2, PositionIsThere
    <3> HIDE DEF i
    <3>3. reservations' \in Seq(Token)
      BY <1>1, <3>1, <3>2, RemovedAt
    <3>4. Bytes(RemoveAt(reservations, i)) + reservations[i].bytes = Bytes(reservations)
      BY <1>1, <3>2, SizesAreBytes, BytesRemoveAt
    <3>5. Bytes(reservations') \in Nat /\ reservations[i].bytes \in Nat
      BY <1>1, <3>2, <3>3, SizesAreBytes, BytesNat
    <3> QED
      BY <3>1, <3>3, <3>4, <3>5
  <2> HIDE DEF i
  <2> QED
    BY <2>1, <2>2
<1>3. Bytes(activeAllocations) \in Nat /\ Bytes(reservations) \in Nat
  BY <1>1, SizesAreBytes, BytesNat
<1>4. WithinBudget'
  BY <1>1, <1>2, <1>3, CapIsNat DEF WithinBudget
<1>5. TypeOK'
  BY <1>1, <1>2 DEF TypeOK
<1> QED
  BY <1>1, <1>4, <1>5 DEF AllocationsUnique, CommitsItsToken

\* A reclaimed allocation leaves the rest in order.
LEMMA ReclaimStep ==
  ASSUME MemoryBudgetAssumption, BudgetInv, NEW owner \in Owners, Reclaim(owner)
  PROVE  BudgetInv'
<1> USE DEF BudgetInv, BudgetWellFormed
<1> DEFINE i == FirstOf(activeAllocations, owner)
<1>1. /\ reservations \in Seq(Token) /\ activeAllocations \in Seq(Allocation)
      /\ UNCHANGED <<reservations, nextAllocationSeq, now, held, issued>>
      /\ reply' = [op |-> "reclaim"]
      /\ activeAllocations' = IF i # 0 THEN RemoveAt(activeAllocations, i) ELSE activeAllocations
  BY DEF Reclaim, TypeOK
<1>2. i # 0 => i \in 1..Len(activeAllocations)
  BY <1>1, FirstIsThere
<1> HIDE DEF i
<1>3. CASE i = 0
  BY <1>1, <1>3 DEF TypeOK, AllocationsUnique, WithinBudget, CommitsItsToken
<1>4. CASE i # 0
  <2>1. Numbered(activeAllocations) /\ Distinct(activeAllocations)
    BY UniqueSplit
  <2>2. /\ activeAllocations' \in Seq(Allocation)
        /\ \A j \in DOMAIN activeAllocations' : \E k \in DOMAIN activeAllocations :
             activeAllocations'[j] = activeAllocations[k]
        /\ Distinct(activeAllocations')
    BY <1>1, <1>2, <1>4, <2>1, RemoveAtKeeps
  <2>3. AllocationsUnique'
    BY <1>1, <2>1, <2>2 DEF AllocationsUnique, Numbered, Distinct
  <2>4. Bytes(RemoveAt(activeAllocations, i)) + activeAllocations[i].bytes = Bytes(activeAllocations)
    BY <1>1, <1>2, <1>4, SizesAreBytes, BytesRemoveAt
  <2>5. /\ Bytes(activeAllocations') \in Nat /\ activeAllocations[i].bytes \in Nat
        /\ Bytes(activeAllocations) \in Nat /\ Bytes(reservations) \in Nat
    BY <1>1, <1>2, <1>4, <2>2, SizesAreBytes, BytesNat
  <2>6. Bytes(activeAllocations') <= Bytes(activeAllocations)
    BY <1>1, <1>4, <2>4, <2>5
  <2>7. WithinBudget'
    BY <1>1, <2>5, <2>6, CapIsNat DEF WithinBudget
  <2>8. TypeOK'
    BY <1>1, <2>2 DEF TypeOK
  <2> QED
    BY <1>1, <2>3, <2>7, <2>8 DEF CommitsItsToken
<1> QED
  BY <1>3, <1>4

\* Reservations that expire leave the rest in order.
LEMMA ExpireStep ==
  ASSUME MemoryBudgetAssumption, BudgetInv, ExpireReservations
  PROVE  BudgetInv'
<1> USE DEF BudgetInv, BudgetWellFormed
<1> DEFINE gone == {token \in ToSet(reservations) : Expired(token)}
<1>1. /\ reservations \in Seq(Token) /\ activeAllocations \in Seq(Allocation)
      /\ UNCHANGED <<activeAllocations, nextAllocationSeq, now, held, issued>>
      /\ reply' = [op |-> "expire"]
      /\ reservations' = Without(reservations, gone)
  BY DEF ExpireReservations, TypeOK
<1> HIDE DEF gone
<1>2. reservations' \in Seq(Token) /\ Bytes(reservations') <= Bytes(reservations)
  BY <1>1, SizesAreBytes, WithoutKeeps
<1>3. /\ Bytes(activeAllocations) \in Nat /\ Bytes(reservations) \in Nat
      /\ Bytes(reservations') \in Nat
  BY <1>1, <1>2, SizesAreBytes, BytesNat
<1>4. WithinBudget'
  BY <1>1, <1>2, <1>3, CapIsNat DEF WithinBudget
<1>5. TypeOK'
  BY <1>1, <1>2 DEF TypeOK
<1> QED
  BY <1>1, <1>4, <1>5 DEF AllocationsUnique, CommitsItsToken

\* What an eviction frees is at least what it admits.
LEMMA AdmitStep ==
  ASSUME MemoryBudgetAssumption, BudgetInv, NEW owner \in Owners, NEW bytes \in Sizes,
         NEW candidates, AdmitWithEviction(owner, bytes, candidates)
  PROVE  BudgetInv'
<1> USE DEF BudgetInv, BudgetWellFormed
<1> DEFINE gone == {a \in ToSet(activeAllocations) : a.id \in candidates}
           rest == Without(activeAllocations, gone)
           known == candidates \subseteq {a.id : a \in ToSet(activeAllocations)}
<1>1. /\ reservations \in Seq(Token) /\ activeAllocations \in Seq(Allocation)
      /\ UNCHANGED <<reservations, now, held, issued>>
      /\ reply' = [op |-> "admit"] /\ nextAllocationSeq <= MaxAllocations
      /\ nextAllocationSeq \in 1..MaxAllocations + 1
  BY DEF AdmitWithEviction, TypeOK
<1>2. CASE ~(known /\ bytes <= Available(rest))
  <2>1. UNCHANGED <<activeAllocations, nextAllocationSeq>>
    BY <1>2 DEF AdmitWithEviction
  <2> HIDE DEF known, rest
  <2> QED
    BY <1>1, <2>1 DEF TypeOK, AllocationsUnique, WithinBudget, CommitsItsToken
<1>3. CASE known /\ bytes <= Available(rest)
  <2>1. /\ activeAllocations' = Allocated(rest, owner, bytes)
        /\ nextAllocationSeq' = nextAllocationSeq + 1
    BY <1>3 DEF AdmitWithEviction, AllocationIds
  <2> HIDE DEF known, gone
  <2>2. Numbered(activeAllocations) /\ Distinct(activeAllocations)
    BY UniqueSplit
  <2>3. /\ rest \in Seq(Allocation)
        /\ \A j \in DOMAIN rest : \E i \in DOMAIN activeAllocations : rest[j] = activeAllocations[i]
        /\ Distinct(rest)
        /\ Bytes(rest) <= Bytes(activeAllocations)
    BY <1>1, <2>2, SizesAreBytes, WithoutKeeps
  <2>4. bytes <= Less(Less(Less(TotalBudget, SystemBytes), Bytes(rest)), Bytes(reservations))
    BY <1>3 DEF Available
  <2> HIDE DEF rest
  <2>5. Numbered(rest)
    BY <2>2, <2>3 DEF Numbered
  <2>6. /\ activeAllocations' \in Seq(Allocation)
        /\ \A k \in DOMAIN activeAllocations' : activeAllocations'[k].id < nextAllocationSeq + 1
        /\ Distinct(activeAllocations')
        /\ Bytes(activeAllocations') = Bytes(rest) + bytes
    BY <2>1, <2>3, <2>5, AllocatedKeeps
  <2>7. AllocationsUnique'
    BY <2>1, <2>6 DEF AllocationsUnique, Distinct
  <2>8. /\ Bytes(rest) \in Nat /\ Bytes(reservations) \in Nat /\ bytes \in Nat
        /\ Bytes(activeAllocations) \in Nat
    BY <1>1, <2>3, SizesAreBytes, BytesNat DEF MemoryBudgetAssumption
  <2>9. Bytes(rest) + Bytes(reservations) <= Less(TotalBudget, SystemBytes)
    BY <2>3, <2>8, CapIsNat DEF WithinBudget
  <2>10. Bytes(rest) + Bytes(reservations) + bytes <= Less(TotalBudget, SystemBytes)
    BY <2>4, <2>8, <2>9, CapIsNat, AvailableFits
  <2>11. WithinBudget'
    BY <1>1, <2>6, <2>8, <2>10 DEF WithinBudget
  <2>12. TypeOK'
    <3>1. nextAllocationSeq' \in 1..MaxAllocations + 1
      BY <1>1, <2>1 DEF MemoryBudgetAssumption
    <3> QED
      BY <1>1, <2>6, <3>1 DEF TypeOK
  <2> QED
    BY <1>1, <2>7, <2>11, <2>12 DEF CommitsItsToken
<1> QED
  BY <1>2, <1>3

\* Time changes no book.
LEMMA TickStep ==
  ASSUME MemoryBudgetAssumption, BudgetInv, Tick
  PROVE  BudgetInv'
BY DEF MemoryBudgetAssumption, BudgetInv, BudgetWellFormed, Tick, TypeOK, AllocationsUnique,
       WithinBudget, CommitsItsToken

\* Every operation of the policy keeps its books in order.
LEMMA BudgetStep ==
  ASSUME MemoryBudgetAssumption, BudgetInv, [Next]_vars
  PROVE  BudgetInv'
<1>1. CASE UNCHANGED vars
  BY <1>1 DEF vars, BudgetInv, BudgetWellFormed, TypeOK, AllocationsUnique, WithinBudget,
              CommitsItsToken
<1>2. CASE Next
  BY <1>2, ReserveStep, CommitStep, ReleaseStep, ReclaimStep, ExpireStep, AdmitStep,
     TickStep DEF Next
<1> QED
  BY <1>1, <1>2

\* Whatever callers reserve, commit, release, reclaim, expire and evict, in any order and
\* number, the books of MemoryAdmissionPolicy stay within the budget and name every
\* allocation once.
THEOREM BooksInOrder == Spec => []BudgetWellFormed
<1>1. Init => BudgetInv
  BY MemoryBudgetAssumption, BudgetInit
<1>2. BudgetInv /\ [Next]_vars => BudgetInv'
  BY MemoryBudgetAssumption, BudgetStep
<1>3. BudgetInv => BudgetWellFormed
  BY DEF BudgetInv
<1> QED
  BY <1>1, <1>2, <1>3, PTL DEF Spec

\* A commit (commit_at) that is granted allocates what its own token had reserved, also when
\* two live tokens have one number.
THEOREM CommitsTheirToken == Spec => []CommitsItsToken
<1>1. Init => BudgetInv
  BY MemoryBudgetAssumption, BudgetInit
<1>2. BudgetInv /\ [Next]_vars => BudgetInv'
  BY MemoryBudgetAssumption, BudgetStep
<1>3. BudgetInv => CommitsItsToken
  BY DEF BudgetInv
<1> QED
  BY <1>1, <1>2, <1>3, PTL DEF Spec

(***************************************************************************)
(* The lifecycle engine                                                    *)
(***************************************************************************)

\* The engines whose queue has been logged.
Engines == [state : LifecycleState, deferred : Seq(Deferral)]

\* A command leads to a state.
LEMMA StateAfterIsState ==
  ASSUME NEW c \in LifecycleCommand, NEW s \in LifecycleState
  PROVE  StateAfter(c, s) \in LifecycleState
<1>1. Target[c] \in LifecycleState
  BY DEF LifecycleCommand, LifecycleState, Target
<1> QED
  BY <1>1 DEF StateAfter

\* A command that is driven leaves an engine whose queue has grown by it or not at all.
LEMMA RedrivenIsEngine ==
  ASSUME NEW e \in Engines, NEW d \in Deferral
  PROVE  /\ Redriven(e, d) \in Engines
         /\ \/ Redriven(e, d).deferred = e.deferred
            \/ Redriven(e, d).deferred = Append(e.deferred, d)
         /\ \/ Redriven(e, d).state = e.state
            \/ Redriven(e, d).state = StateAfter(d.command, e.state)
<1>1. /\ e.state \in LifecycleState /\ e.deferred \in Seq(Deferral)
      /\ e = [state |-> e.state, deferred |-> e.deferred]
  BY DEF Engines
<1>2. d.command \in LifecycleCommand
  BY DEF Deferral
<1>3. CASE TimedOut(d)
  BY <1>3 DEF Redriven
<1>4. CASE ~TimedOut(d) /\ Effect(d.command, e.state) = "deferred"
  <2>1. Redriven(e, d) = [state |-> e.state, deferred |-> Append(e.deferred, d)]
    BY <1>1, <1>4 DEF Redriven
  <2>2. Append(e.deferred, d) \in Seq(Deferral)
    BY <1>1
  <2> QED
    BY <1>1, <2>1, <2>2 DEF Engines
<1>5. CASE ~TimedOut(d) /\ Effect(d.command, e.state) # "deferred"
  <2>1. Redriven(e, d) = [state |-> StateAfter(d.command, e.state), deferred |-> e.deferred]
    BY <1>1, <1>5 DEF Redriven
  <2>2. StateAfter(d.command, e.state) \in LifecycleState
    BY <1>1, <1>2, StateAfterIsState
  <2> QED
    BY <1>1, <2>1, <2>2 DEF Engines
<1> QED
  BY <1>3, <1>4, <1>5

\* The engines between the commands of a queue that is driven.
Drives(r, e) ==
  /\ r[0] = [e EXCEPT !.deferred = <<>>]
  /\ \A k \in 1..Len(e.deferred) : r[k] = Redriven(r[k - 1], e.deferred[k])

\* The fold over a queue goes from engine to engine.
LEMMA DrivenInSteps ==
  ASSUME NEW e \in Engines
  PROVE  \E r : Drives(r, e) /\ Driven(e) = r[Len(e.deferred)]
<1> DEFINE s == e.deferred
           n == Len(s)
           base == [e EXCEPT !.deferred = <<>>]
<1>1. n \in Nat /\ s \in Seq(Deferral)
  BY DEF Engines
<1>0. DOMAIN s = 1..n /\ \A i \in 1..n : s[i] \in Deferral
  BY <1>1
<1>2. base \in Engines
  <2>1. <<>> \in Seq(Deferral)
    OBVIOUS
  <2> QED
    BY <2>1 DEF Engines
<1> HIDE DEF n, base
<1> DEFINE step == [i \in 1..n |-> [v \in Engines |-> Redriven(v, s[i])]]
<1>3. step \in [1..n -> [Engines -> Engines]]
  <2>1. ASSUME NEW i \in 1..n, NEW v \in Engines PROVE Redriven(v, s[i]) \in Engines
    BY <1>0, RedrivenIsEngine
  <2> QED
    BY <2>1
<1>4. PICK f \in [SUBSET (1..n) -> Engines] : Folds(f, n, base, step)
  <2> HIDE DEF step
  <2> QED
    BY <1>1, <1>2, <1>3, FoldExists
<1>5. ASSUME NEW t \in SUBSET (1..n), t # {}
      PROVE  step[Max(t)][f[t \ {Max(t)}]] = Redriven(f[t \ {Max(t)}], s[Max(t)])
  <2>1. Max(t) \in 1..n
    BY <1>1, <1>5, LastOfPlaces
  <2>2. f[t \ {Max(t)}] \in Engines
    OBVIOUS
  <2> QED
    BY <2>1, <2>2
<1>6. f = [t \in SUBSET DOMAIN s |->
             IF t = {} THEN base ELSE LET x == Max(t) IN Redriven(f[t \ {x}], s[x])]
  <2> HIDE DEF step
  <2> QED
    BY <1>0, <1>4, <1>5 DEF Folds
<1> HIDE DEF step
<1> DEFINE g == CHOOSE h : h = [t \in SUBSET DOMAIN s |->
                    IF t = {} THEN base ELSE LET x == Max(t) IN Redriven(h[t \ {x}], s[x])]
<1>7. g = [t \in SUBSET DOMAIN s |->
             IF t = {} THEN base ELSE LET x == Max(t) IN Redriven(g[t \ {x}], s[x])]
  BY <1>6
<1>8. Driven(e) = g[DOMAIN s]
  BY DEF Driven, FoldLeft, MapThenFoldSet, base
<1> HIDE DEF g
<1> DEFINE r == [k \in 0..n |-> g[1..k]]
<1>9. r[0] = base
  <2>1. 1..0 = {}
    OBVIOUS
  <2>2. g[{}] = base
    BY <1>7
  <2> QED
    BY <1>1, <2>1, <2>2
<1>10. ASSUME NEW k \in 1..n PROVE r[k] = Redriven(r[k - 1], s[k])
  <2>1. 1..k # {} /\ 1..k \in SUBSET DOMAIN s
    <3>1. k \in 1..k /\ 1..k \subseteq 1..n
      BY <1>1
    <3> QED
      BY <1>0, <3>1
  <2>2. g[1..k] = Redriven(g[(1..k) \ {Max(1..k)}], s[Max(1..k)])
    BY <1>7, <2>1
  <2>3. Max(1..k) = k /\ (1..k) \ {k} = 1..k - 1
    BY <1>1, LastPlace
  <2>4. g[1..k] = Redriven(g[1..k - 1], s[k])
    BY <2>2, <2>3
  <2> QED
    BY <1>1, <2>4
<1>11. Driven(e) = r[n]
  BY <1>0, <1>1, <1>8
<1> HIDE DEF r
<1> QED
  BY <1>9, <1>10, <1>11 DEF Drives, n, base

\* The queue that is left holds commands of the queue before, in the same order.
LEMMA DrivenQueue ==
  ASSUME NEW e \in Engines, \A d \in Deferral : d.id \in Nat
  PROVE  /\ Driven(e) \in Engines
         /\ \A j \in DOMAIN Driven(e).deferred : \E i \in DOMAIN e.deferred :
              Driven(e).deferred[j] = e.deferred[i]
         /\ InOrder(e) => InOrder(Driven(e))
<1> DEFINE s == e.deferred
           n == Len(s)
<1>1. /\ n \in Nat /\ s \in Seq(Deferral) /\ DOMAIN s = 1..n
      /\ \A i \in 1..n : s[i] \in Deferral /\ s[i].id \in Nat
  BY DEF Engines
<1>2. PICK r : Drives(r, e) /\ Driven(e) = r[n]
  BY DrivenInSteps
<1>3. r[0] = [e EXCEPT !.deferred = <<>>] /\ \A k \in 1..n : r[k] = Redriven(r[k - 1], s[k])
  BY <1>2 DEF Drives
<1> HIDE DEF n
<1> DEFINE From(v, k) == \A j \in DOMAIN v.deferred : \E i \in 1..k : v.deferred[j] = s[i]
           T == {k \in 0..n : /\ r[k] \in Engines
                              /\ From(r[k], k)
                              /\ InOrder(e) => InOrder(r[k])}
<1>4. 0 \in T
  <2>1. r[0] \in Engines /\ r[0].deferred = <<>>
    <3>1. <<>> \in Seq(Deferral)
      OBVIOUS
    <3> QED
      BY <1>3, <3>1 DEF Engines
  <2>2. DOMAIN r[0].deferred = {}
    BY <2>1
  <2>3. InOrder(r[0]) /\ From(r[0], 0)
    BY <2>2 DEF InOrder
  <2> QED
    BY <1>1, <2>1, <2>3
<1>5. ASSUME NEW k \in 1..n, k - 1 \in T PROVE k \in T
  <2> DEFINE v == r[k - 1]
             w == r[k]
  <2>1. v \in Engines /\ From(v, k - 1) /\ (InOrder(e) => InOrder(v))
    BY <1>5
  <2>2. w = Redriven(v, s[k])
    BY <1>3
  <2>3. s[k] \in Deferral /\ k \in 0..n /\ s[k].id \in Nat
    BY <1>1
  <2> HIDE DEF v, w
  <2>4. w \in Engines /\ (w.deferred = v.deferred \/ w.deferred = Append(v.deferred, s[k]))
    BY <2>1, <2>2, <2>3, RedrivenIsEngine
  <2>5. CASE w.deferred = v.deferred
    <3>1. From(w, k)
      BY <1>1, <2>1, <2>5
    <3>2. InOrder(e) => InOrder(w)
      BY <2>1, <2>5 DEF InOrder
    <3> QED
      BY <2>3, <2>4, <3>1, <3>2 DEF w
  <2>6. CASE w.deferred = Append(v.deferred, s[k])
    <3> DEFINE q == v.deferred
               m == Len(q)
    <3>1. q \in Seq(Deferral)
      BY <2>1 DEF Engines
    <3>2. /\ m \in Nat /\ DOMAIN q = 1..m /\ DOMAIN w.deferred = 1..m + 1
          /\ \A j \in 1..m : w.deferred[j] = q[j]
          /\ w.deferred[m + 1] = s[k]
      BY <2>3, <2>6, <3>1, AppendProperties
    <3>3. \A j \in 1..m : \E i \in 1..k - 1 : q[j] = s[i]
      BY <2>1, <3>2
    <3> HIDE DEF q, m
    <3>4. From(w, k)
      <4> TAKE j \in DOMAIN w.deferred
      <4>1. CASE j \in 1..m
        <5>1. PICK i \in 1..k - 1 : q[j] = s[i]
          BY <3>3, <4>1
        <5>2. i \in 1..k /\ w.deferred[j] = s[i]
          BY <1>1, <3>2, <4>1, <5>1
        <5> QED
          BY <5>2
      <4>2. CASE j = m + 1
        BY <1>1, <3>2, <4>2
      <4> QED
        BY <3>2, <4>1, <4>2
    <3>5. ASSUME InOrder(e) PROVE InOrder(w)
      <4>1. ASSUME NEW i \in DOMAIN w.deferred, NEW j \in DOMAIN w.deferred, i < j
            PROVE  w.deferred[i].id < w.deferred[j].id
        <5>1. i \in 1..m
          BY <3>2, <4>1
        <5>2. CASE j \in 1..m
          BY <2>1, <3>2, <3>5, <4>1, <5>1, <5>2 DEF InOrder, q
        <5>3. CASE j = m + 1
          <6>1. PICK x \in 1..k - 1 : w.deferred[i] = s[x]
            BY <3>2, <3>3, <5>1
          <6>2. x \in DOMAIN s /\ k \in DOMAIN s /\ x < k
            BY <1>1
          <6>3. s[x].id < s[k].id
            BY <3>5, <6>2 DEF InOrder
          <6> QED
            BY <3>2, <5>3, <6>1, <6>3
        <5> QED
          BY <3>2, <5>2, <5>3
      <4> QED
        BY <4>1 DEF InOrder
    <3> QED
      BY <2>3, <2>4, <3>4, <3>5 DEF w
  <2> QED
    BY <2>4, <2>5, <2>6
<1>6. n \in 0..n
  BY <1>1
<1>7. n \in T
  <2> HIDE DEF T
  <2> QED
    BY <1>1, <1>4, <1>5, <1>6, UpTo
<1> QED
  BY <1>1, <1>2, <1>7

\* A failed engine that is driven starts only after a Stop.
LEMMA DrivenFromFailed ==
  ASSUME NEW e \in Engines, e.state = "Failed"
  PROVE  /\ Driven(e).state # "Running"
         /\ Driven(e).state = "Starting" => \E i \in DOMAIN e.deferred : e.deferred[i].command = "Stop"
<1> DEFINE s == e.deferred
           n == Len(s)
<1>1. n \in Nat /\ DOMAIN s = 1..n /\ \A i \in 1..n : s[i] \in Deferral
  BY DEF Engines
<1>2. PICK r : Drives(r, e) /\ Driven(e) = r[n]
  BY DrivenInSteps
<1>3. r[0] = [e EXCEPT !.deferred = <<>>] /\ \A k \in 1..n : r[k] = Redriven(r[k - 1], s[k])
  BY <1>2 DEF Drives
<1> HIDE DEF n
<1> DEFINE StopIn(k) == \E i \in 1..k : s[i].command = "Stop"
           T == {k \in 0..n : /\ r[k] \in Engines
                              /\ r[k].state \in {"Failed", "Restarting", "Stopped", "Starting"}
                              /\ r[k].state \in {"Stopped", "Starting"} => StopIn(k)}
<1>4. 0 \in T
  <2>1. r[0] \in Engines /\ r[0].state = "Failed"
    <3>1. <<>> \in Seq(Deferral)
      OBVIOUS
    <3> QED
      BY <1>3, <3>1 DEF Engines
  <2> QED
    BY <1>1, <2>1
<1>5. ASSUME NEW k \in 1..n, k - 1 \in T PROVE k \in T
  <2> DEFINE v == r[k - 1]
             w == r[k]
             c == s[k].command
  <2>1. /\ v \in Engines /\ v.state \in {"Failed", "Restarting", "Stopped", "Starting"}
        /\ v.state \in {"Stopped", "Starting"} => StopIn(k - 1)
    BY <1>5
  <2>2. w = Redriven(v, s[k])
    BY <1>3
  <2>3. s[k] \in Deferral /\ k \in 0..n /\ c \in LifecycleCommand
    BY <1>1 DEF Deferral
  <2>4. StopIn(k - 1) => StopIn(k)
    BY <1>1
  <2>5. c = "Stop" => StopIn(k)
    BY <1>1
  <2> HIDE DEF v, w, StopIn
  <2>6. w \in Engines /\ (w.state = v.state \/ w.state = StateAfter(c, v.state))
    BY <2>1, <2>2, <2>3, RedrivenIsEngine
  <2> HIDE DEF c
  <2>7. CASE w.state = v.state
    BY <2>1, <2>3, <2>4, <2>6, <2>7 DEF w
  <2>8. CASE w.state = StateAfter(c, v.state)
    <3>1. CASE v.state \in {"Restarting", "Starting"}
      <4>1. w.state = v.state
        BY <2>3, <2>8, <3>1 DEF StateAfter, Effect, AcceptedIn, DeferredIn, LifecycleCommand
      <4> QED
        BY <2>1, <2>3, <2>4, <2>6, <4>1 DEF w
    <3>2. CASE v.state = "Failed"
      <4>1. w.state = "Failed" \/ w.state = "Restarting" \/ (w.state = "Stopped" /\ c = "Stop")
        BY <2>3, <2>8, <3>2 DEF StateAfter, Effect, AcceptedIn, DeferredIn, LifecycleCommand, Target
      <4> QED
        BY <2>3, <2>5, <2>6, <4>1 DEF w
    <3>3. CASE v.state = "Stopped"
      <4>1. w.state \in {"Stopped", "Restarting", "Starting"}
        BY <2>3, <2>8, <3>3 DEF StateAfter, Effect, AcceptedIn, DeferredIn, LifecycleCommand, Target
      <4> QED
        BY <2>1, <2>3, <2>4, <2>6, <3>3, <4>1 DEF w
    <3> QED
      BY <2>1, <3>1, <3>2, <3>3
  <2> QED
    BY <2>6, <2>7, <2>8
<1>6. n \in 0..n
  BY <1>1
<1>7. n \in T
  <2> HIDE DEF T
  <2> QED
    BY <1>1, <1>4, <1>5, <1>6, UpTo
<1> QED
  BY <1>1, <1>2, <1>7

\* What a log holds.
EntriesUntil(times) == [since : times, answer : {"memory", "saved", "refused"},
                        end : {"none", "evaluated", "expired", "late"}]
Entries == EntriesUntil(0..clock)

\* What waits in a queue was not refused, and has the time at which it was first deferred.
Stamped(e, l) ==
  \A i \in DOMAIN e.deferred :
    /\ e.deferred[i].id \in DOMAIN l
    /\ e.deferred[i].at = l[e.deferred[i].id].since
    /\ l[e.deferred[i].id].answer # "refused"

\* What was promised and is not over is in the checkpoint, and in the engine that runs.
Kept ==
  \A i \in DOMAIN log :
    log[i].answer = "saved" /\ log[i].end = "none"
      => i \in Ids(file) /\ (engine # NoEngine => i \in Ids(engine))

\* What makes the answers of the engine inductive.
EngineInv ==
  /\ EngineTyped /\ FirstInFirstOut
  /\ Stamped(engine, log) /\ Stamped(file, log)
  /\ Kept /\ NotEvaluatedLate

\* No engine is not an engine.
LEMMA NoEngineIsNone == ~ EngineOK(NoEngine)
<1>1. NoEngine.state \notin LifecycleState
  BY DEF NoEngine, LifecycleState
<1> QED
  BY <1>1 DEF EngineOK

\* An empty queue is in order and owes nothing.
LEMMA EmptyQueue ==
  ASSUME NEW e, e.deferred = <<>>
  PROVE  DOMAIN e.deferred = {} /\ Ids(e) = {} /\ InOrder(e) /\ \A l : Stamped(e, l)
BY DEF Ids, InOrder, Stamped

\* A log is typed when its entries are.
LEMMA LogOK ==
  ASSUME EngineTyped
  PROVE  /\ log \in Seq(Entries) /\ DOMAIN log = 1..Len(log) /\ Len(log) \in Nat
         /\ \A i \in DOMAIN log : log[i] \in Entries
         /\ \A d \in Deferral : d.id \in Nat /\ d.id \in DOMAIN log
<1>1. log \in Seq(Entries)
  BY DEF EngineTyped, Entries, EntriesUntil
<1>2. DOMAIN log = 1..Len(log) /\ Len(log) \in Nat /\ \A i \in DOMAIN log : log[i] \in Entries
  BY <1>1
<1>3. \A d \in Deferral : d.id \in DOMAIN log
  BY DEF Deferral
<1> QED
  BY <1>1, <1>2, <1>3

\* A new engine has promised nothing.
LEMMA EngineStarts == ASSUME LifecycleAssumption, EngineInit PROVE EngineInv
<1>1. engine.deferred = <<>> /\ file.deferred = <<>> /\ log = <<>>
  BY DEF EngineInit, NoCheckpoint, NoEngine
<1>2. InOrder(engine) /\ InOrder(file) /\ Stamped(engine, log) /\ Stamped(file, log)
  BY <1>1, EmptyQueue
<1>3. DOMAIN log = {}
  BY <1>1
<1>4. EngineTyped
  <2>1. EngineOK(engine)
    <3>1. <<>> \in Seq(Deferral)
      OBVIOUS
    <3>2. "Uninitialized" \in LifecycleState
      BY DEF LifecycleState
    <3> QED
      BY <3>1, <3>2 DEF EngineInit, EngineOK
  <2> QED
    BY <1>1, <2>1 DEF EngineInit, EngineTyped, LifecycleAssumption
<1> QED
  BY <1>2, <1>3, <1>4 DEF EngineInv, FirstInFirstOut, Kept, NotEvaluatedLate

(***************************************************************************)
(* A step keeps what is logged of earlier commands                         *)
(***************************************************************************)

\* Nothing is forgotten of a command but that its fate may be decided, or its queue saved.
Extends(l, m) ==
  /\ DOMAIN l \subseteq DOMAIN m
  /\ \A i \in DOMAIN l : /\ m[i].since = l[i].since
                         /\ m[i].answer \in {l[i].answer, "saved"}

\* What is stamped stays so while the log only goes on.
LEMMA StampedStays ==
  ASSUME NEW e, NEW l, NEW m, Stamped(e, l), Extends(l, m)
  PROVE  Stamped(e, m)
BY DEF Stamped, Extends

\* An engine stays one while the clock and the log go on.
LEMMA EnginesGrow ==
  ASSUME EngineTyped, DOMAIN log \subseteq DOMAIN log', clock' \in Nat, clock <= clock'
  PROVE  Deferral \subseteq Deferral' /\ Engines \subseteq Engines' /\ Entries \subseteq Entries'
<1>1. clock \in Nat
  BY DEF EngineTyped
<1>2. 0..clock \subseteq 0..clock'
  BY <1>1
<1>3. Deferral \subseteq Deferral'
  BY <1>2 DEF Deferral
<1>4. Entries \subseteq Entries'
  BY <1>2 DEF Entries, EntriesUntil
<1>5. Seq(Deferral) \subseteq Seq(Deferral')
  BY <1>3
<1> QED
  BY <1>3, <1>4, <1>5 DEF Engines

\* What is in a queue has a number.
LEMMA QueuesAreTyped ==
  ASSUME EngineTyped, NEW e \in Engines
  PROVE  /\ e.state \in LifecycleState /\ e.deferred \in Seq(Deferral)
         /\ DOMAIN e.deferred = 1..Len(e.deferred)
         /\ \A i \in DOMAIN e.deferred : e.deferred[i].id \in DOMAIN log
         /\ Ids(e) \subseteq DOMAIN log
<1>1. e.state \in LifecycleState /\ e.deferred \in Seq(Deferral)
  BY DEF Engines
<1>2. DOMAIN e.deferred = 1..Len(e.deferred) /\ \A i \in DOMAIN e.deferred : e.deferred[i] \in Deferral
  BY <1>1
<1>3. \A i \in DOMAIN e.deferred : e.deferred[i].id \in DOMAIN log
  BY <1>2, LogOK
<1> QED
  BY <1>1, <1>2, <1>3 DEF Ids

\* The invariant in terms of Engines.
LEMMA TypedAsEngines ==
  ASSUME EngineTyped
  PROVE  /\ engine = NoEngine \/ engine \in Engines
         /\ file = NoCheckpoint \/ file \in Engines
         /\ NoEngine \notin Engines
<1>1. NoEngine \notin Engines
  BY NoEngineIsNone DEF Engines, EngineOK
<1> QED
  BY <1>1 DEF EngineTyped, EngineOK, Engines

(***************************************************************************)
(* A command                                                               *)
(***************************************************************************)

\* The entry of a deferred command goes to the end of the log.
LEMMA LoggedExtends ==
  ASSUME EngineTyped, NEW c \in LifecycleCommand, NEW answer \in {"memory", "refused"}
  PROVE  LET l == Logged(engine, c, answer)
         IN /\ l \in Seq(Entries)
            /\ DOMAIN l = IF Effect(c, engine.state) = "deferred" THEN 1..Len(log) + 1 ELSE 1..Len(log)
            /\ \A i \in 1..Len(log) : l[i] = log[i]
            /\ Effect(c, engine.state) = "deferred"
                 => l[NextId] = [since |-> clock, answer |-> answer, end |-> "none"]
            /\ Extends(log, l)
<1> DEFINE x == [since |-> clock, answer |-> answer, end |-> "none"]
           l == Logged(engine, c, answer)
<1>1. log \in Seq(Entries) /\ DOMAIN log = 1..Len(log) /\ Len(log) \in Nat
  BY LogOK
<1>2. x \in Entries
  BY DEF Entries, EntriesUntil, EngineTyped
<1>3. CASE Effect(c, engine.state) = "deferred"
  <2>1. l = Append(log, x)
    BY <1>3 DEF Logged
  <2> HIDE DEF l, x
  <2>2. /\ l \in Seq(Entries) /\ Len(l) = Len(log) + 1
        /\ \A i \in 1..Len(log) : l[i] = log[i]
        /\ l[Len(log) + 1] = x
    BY <1>1, <1>2, <2>1, AppendProperties
  <2>3. DOMAIN l = 1..Len(log) + 1
    BY <2>2
  <2>4. Extends(log, l)
    BY <1>1, <2>2, <2>3 DEF Extends
  <2> QED
    BY <1>3, <2>2, <2>3, <2>4 DEF NextId, l, x
<1>4. CASE Effect(c, engine.state) # "deferred"
  <2>1. l = log
    BY <1>4 DEF Logged
  <2> HIDE DEF l
  <2>2. Extends(log, l)
    BY <2>1 DEF Extends
  <2> QED
    BY <1>1, <1>4, <2>1, <2>2 DEF l
<1> QED
  BY <1>3, <1>4

\* An engine that takes a command, with a log that has room for it.
LEMMA HandledIsEngine ==
  ASSUME EngineInv, engine \in Engines, NEW c \in LifecycleCommand,
         Extends(log, log'), clock' = clock,
         Effect(c, engine.state) = "deferred"
           => /\ NextId \in DOMAIN log' /\ log'[NextId].since = clock
              /\ log'[NextId].answer # "refused"
  PROVE  LET h == Handled(engine, c)
         IN /\ h \in Engines' /\ InOrder(h) /\ Stamped(h, log')
            /\ Ids(h) = IF Effect(c, engine.state) = "deferred"
                        THEN Ids(engine) \cup {NextId} ELSE Ids(engine)
<1> DEFINE q == engine.deferred
           m == Len(q)
           h == Handled(engine, c)
           d == [command |-> c, at |-> clock, id |-> NextId]
<1>1. clock \in Nat /\ clock <= clock' /\ clock' \in Nat
  BY DEF EngineInv, EngineTyped
<1>2. Deferral \subseteq Deferral' /\ Engines \subseteq Engines' /\ DOMAIN log \subseteq DOMAIN log'
  BY <1>1, EnginesGrow DEF EngineInv, Extends
<1>3. /\ engine.state \in LifecycleState /\ q \in Seq(Deferral) /\ DOMAIN q = 1..m
      /\ \A i \in DOMAIN q : q[i].id \in DOMAIN log
      /\ m \in Nat
  BY QueuesAreTyped DEF EngineInv
<1>4. h.state = StateAfter(c, engine.state) /\ h.state \in LifecycleState
  BY <1>3, StateAfterIsState DEF Handled
<1>5. InOrder(engine) /\ Stamped(engine, log')
  BY StampedStays DEF EngineInv, FirstInFirstOut
<1>6. CASE Effect(c, engine.state) # "deferred"
  <2>1. h = [state |-> h.state, deferred |-> q]
    BY <1>6 DEF Handled
  <2> HIDE DEF h
  <2>2. h.deferred = q
    BY <2>1
  <2>3. h \in Engines
    BY <1>3, <1>4, <2>1 DEF Engines
  <2> QED
    BY <1>2, <1>5, <1>6, <2>2, <2>3 DEF InOrder, Stamped, Ids, h
<1>7. CASE Effect(c, engine.state) = "deferred"
  <2>1. h = [state |-> h.state, deferred |-> Append(q, d)]
    BY <1>7 DEF Handled
  <2>2. d \in Deferral' /\ d.id = NextId /\ d.at = clock
    BY <1>1, <1>7 DEF Deferral
  <2>3. q \in Seq(Deferral')
    BY <1>2, <1>3
  <2> HIDE DEF h, d
  <2>4. h.deferred = Append(q, d)
    BY <2>1
  <2>5. /\ h.deferred \in Seq(Deferral') /\ DOMAIN h.deferred = 1..m + 1
        /\ \A i \in 1..m : h.deferred[i] = q[i]
        /\ h.deferred[m + 1] = d
    BY <2>2, <2>3, <2>4, AppendProperties
  <2> HIDE DEF q, m
  <2>6. h \in Engines'
    BY <1>4, <2>1, <2>4, <2>5 DEF Engines
  <2>7. Ids(h) = Ids(engine) \cup {NextId}
    BY <1>3, <2>2, <2>5 DEF Ids, q
  <2>8. Stamped(h, log')
    <3> SUFFICES ASSUME NEW i \in DOMAIN h.deferred
                 PROVE  /\ h.deferred[i].id \in DOMAIN log'
                        /\ h.deferred[i].at = log'[h.deferred[i].id].since
                        /\ log'[h.deferred[i].id].answer # "refused"
      BY DEF Stamped
    <3>1. CASE i \in 1..m
      BY <1>3, <1>5, <2>5, <3>1 DEF Stamped, q
    <3>2. CASE i = m + 1
      BY <1>7, <2>2, <2>5, <3>2
    <3> QED
      BY <1>3, <2>5, <3>1, <3>2
  <2>9. InOrder(h)
    <3>1. \A i \in 1..m : q[i].id \in Nat /\ q[i].id < NextId
      <4>1. DOMAIN log = 1..Len(log) /\ Len(log) \in Nat
        BY LogOK DEF EngineInv
      <4> QED
        BY <1>3, <4>1 DEF NextId
    <3>2. ASSUME NEW i \in DOMAIN h.deferred, NEW j \in DOMAIN h.deferred, i < j
          PROVE  h.deferred[i].id < h.deferred[j].id
      <4>1. i \in 1..m
        BY <1>3, <2>5, <3>2
      <4>2. CASE j \in 1..m
        BY <1>3, <1>5, <2>5, <3>2, <4>1, <4>2 DEF InOrder, q
      <4>3. CASE j = m + 1
        BY <2>2, <2>5, <3>1, <4>1, <4>3
      <4> QED
        BY <1>3, <2>5, <4>2, <4>3
    <3> QED
      BY <3>2 DEF InOrder
  <2> QED
    BY <1>7, <2>6, <2>7, <2>8, <2>9 DEF h
<1> QED
  BY <1>6, <1>7

\* A command that is handled in memory is promised nothing.
LEMMA HandleStep ==
  ASSUME LifecycleAssumption, EngineInv, NEW c \in LifecycleCommand, HandleCommand(c)
  PROVE  EngineInv'
<1> DEFINE h == Handled(engine, c)
           l == Logged(engine, c, "memory")
<1>1. /\ engine # NoEngine /\ engine' = h /\ log' = l
      /\ file' = file /\ clock' = clock /\ crashes' = crashes
  BY DEF HandleCommand, CanTake
<1>2. EngineTyped /\ FirstInFirstOut /\ Stamped(file, log) /\ Kept /\ NotEvaluatedLate
  BY DEF EngineInv
<1>3. /\ engine \in Engines /\ (file = NoCheckpoint \/ file \in Engines)
      /\ NoEngine \notin Engines
  BY <1>1, <1>2, TypedAsEngines
<1>4. /\ l \in Seq(Entries)
      /\ DOMAIN l = IF Effect(c, engine.state) = "deferred" THEN 1..Len(log) + 1 ELSE 1..Len(log)
      /\ \A i \in 1..Len(log) : l[i] = log[i]
      /\ Effect(c, engine.state) = "deferred"
           => l[NextId] = [since |-> clock, answer |-> "memory", end |-> "none"]
      /\ Extends(log, l)
  BY <1>2, LoggedExtends
<1> HIDE DEF h, l
<1>5. DOMAIN log = 1..Len(log) /\ Len(log) \in Nat
  BY <1>2, LogOK
<1>6. /\ h \in Engines' /\ InOrder(h) /\ Stamped(h, log')
      /\ Ids(h) = IF Effect(c, engine.state) = "deferred"
                  THEN Ids(engine) \cup {NextId} ELSE Ids(engine)
  <2>1. Effect(c, engine.state) = "deferred"
          => /\ NextId \in DOMAIN log' /\ log'[NextId].since = clock
             /\ log'[NextId].answer # "refused"
    BY <1>1, <1>4, <1>5 DEF NextId
  <2>2. Extends(log, log') /\ clock' = clock
    BY <1>1, <1>4
  <2> QED
    BY <1>3, <2>1, <2>2, HandledIsEngine DEF h
<1>7. Engines \subseteq Engines' /\ Entries' = Entries
  <2>1. DOMAIN log \subseteq DOMAIN log' /\ clock' \in Nat /\ clock <= clock'
    BY <1>1, <1>2, <1>4 DEF Extends, EngineTyped
  <2> QED
    BY <1>1, <1>2, <2>1, EnginesGrow DEF Entries
<1>8. EngineTyped'
  <2>1. EngineOK(engine)' /\ (file' = NoCheckpoint \/ EngineOK(file)')
    BY <1>1, <1>3, <1>6, <1>7 DEF EngineOK, Engines, NoCheckpoint, NoEngine
  <2>2. log' \in Seq(Entries')
    BY <1>1, <1>4, <1>7
  <2> QED
    BY <1>1, <1>2, <2>1, <2>2 DEF EngineTyped, Entries, EntriesUntil, NoCheckpoint, NoEngine
<1>9. FirstInFirstOut'
  BY <1>1, <1>2, <1>6 DEF FirstInFirstOut
<1>10. Stamped(engine, log)' /\ Stamped(file, log)'
  BY <1>1, <1>2, <1>4, <1>6, StampedStays
<1>11. ASSUME NEW i \in DOMAIN log', log'[i].answer = "saved", log'[i].end = "none"
       PROVE  i \in Ids(file) /\ i \in Ids(h)
  <2>1. i \in DOMAIN log /\ log'[i] = log[i]
    BY <1>1, <1>4, <1>5, <1>11 DEF NextId
  <2> QED
    BY <1>1, <1>2, <1>6, <1>11, <2>1 DEF Kept
<1>12. Kept'
  BY <1>1, <1>11 DEF Kept
<1>13. NotEvaluatedLate'
  BY <1>1, <1>2, <1>4, <1>5 DEF NotEvaluatedLate, NextId
<1> QED
  BY <1>8, <1>9, <1>10, <1>12, <1>13 DEF EngineInv

\* A checkpoint promises what is in its queue.
LEMMA PromisedExtends ==
  ASSUME NEW t, NEW l \in Seq(EntriesUntil(t)), NEW e
  PROVE  LET m == Promised(l, e)
         IN /\ m \in Seq(EntriesUntil(t))
            /\ DOMAIN m = DOMAIN l
            /\ Extends(l, m)
            /\ \A i \in DOMAIN l :
                 /\ m[i].end = l[i].end
                 /\ i \notin Ids(e) => m[i] = l[i]
<1> DEFINE R == EntriesUntil(t)
           m == Promised(l, e)
<1>1. m = [i \in DOMAIN l |-> IF i \in Ids(e) THEN [l[i] EXCEPT !.answer = "saved"] ELSE l[i]]
  BY DEF Promised
<1>2. DOMAIN l = 1..Len(l) /\ Len(l) \in Nat /\ \A i \in DOMAIN l : l[i] \in R
  OBVIOUS
<1>3. ASSUME NEW i \in DOMAIN l
      PROVE  /\ m[i] \in R /\ m[i].end = l[i].end /\ m[i].since = l[i].since
             /\ m[i].answer \in {l[i].answer, "saved"}
             /\ i \notin Ids(e) => m[i] = l[i]
  <2>1. CASE i \in Ids(e)
    <3>1. m[i] = [l[i] EXCEPT !.answer = "saved"]
      BY <1>1, <2>1
    <3>2. l[i] \in R
      BY <1>2
    <3> HIDE DEF m
    <3> QED
      BY <2>1, <3>1, <3>2 DEF EntriesUntil
  <2>2. CASE i \notin Ids(e)
    <3>1. m[i] = l[i]
      BY <1>1, <2>2
    <3>2. l[i] \in R
      BY <1>2
    <3> HIDE DEF m
    <3> QED
      BY <3>1, <3>2
  <2> QED
    BY <2>1, <2>2
<1>4. DOMAIN m = DOMAIN l
  BY <1>1
<1>5. m = [i \in 1..Len(l) |-> m[i]]
  BY <1>1, <1>2
<1> HIDE DEF m
<1>6. m \in Seq(R)
  BY <1>2, <1>3, <1>5
<1>7. Extends(l, m)
  BY <1>3, <1>4 DEF Extends
<1> QED
  BY <1>3, <1>4, <1>6, <1>7 DEF m

\* A log that goes on twice has gone on.
LEMMA ExtendsTwice ==
  ASSUME NEW l, NEW m, NEW k, Extends(l, m), Extends(m, k)
  PROVE  Extends(l, k)
BY DEF Extends

\* A command that is handled and saved: queue, file and promise agree.
LEMMA PersistedStep ==
  ASSUME LifecycleAssumption, EngineInv, NEW c \in LifecycleCommand, HandleCommandPersisted(c)
  PROVE  EngineInv'
<1> DEFINE h == Handled(engine, c)
           l == Logged(engine, c, "memory")
           m == Promised(l, h)
<1>1. /\ engine # NoEngine /\ engine' = h /\ file' = h /\ log' = m
      /\ clock' = clock /\ crashes' = crashes
  BY DEF HandleCommandPersisted, CanTake
<1>2. EngineTyped /\ FirstInFirstOut /\ Kept /\ NotEvaluatedLate
  BY DEF EngineInv
<1>3. engine \in Engines /\ NoEngine \notin Engines
  BY <1>1, <1>2, TypedAsEngines
<1>4. /\ l \in Seq(Entries)
      /\ DOMAIN l = IF Effect(c, engine.state) = "deferred" THEN 1..Len(log) + 1 ELSE 1..Len(log)
      /\ \A i \in 1..Len(log) : l[i] = log[i]
      /\ Effect(c, engine.state) = "deferred"
           => l[NextId] = [since |-> clock, answer |-> "memory", end |-> "none"]
      /\ Extends(log, l)
  BY <1>2, LoggedExtends
<1> HIDE DEF h, l
<1>5. /\ m \in Seq(Entries) /\ DOMAIN m = DOMAIN l /\ Extends(l, m)
      /\ \A i \in DOMAIN l : m[i].end = l[i].end /\ (i \notin Ids(h) => m[i] = l[i])
  BY <1>4, PromisedExtends DEF Entries
<1> HIDE DEF m
<1>6. DOMAIN log = 1..Len(log) /\ Len(log) \in Nat
  BY <1>2, LogOK
<1>7. Extends(log, log')
  BY <1>1, <1>4, <1>5, ExtendsTwice
<1>8. /\ h \in Engines' /\ InOrder(h) /\ Stamped(h, log')
      /\ Ids(h) = IF Effect(c, engine.state) = "deferred"
                  THEN Ids(engine) \cup {NextId} ELSE Ids(engine)
  <2>1. ASSUME Effect(c, engine.state) = "deferred"
        PROVE  /\ NextId \in DOMAIN log' /\ log'[NextId].since = clock
               /\ log'[NextId].answer # "refused"
    <3>1. NextId \in DOMAIN l /\ l[NextId].since = clock /\ l[NextId].answer = "memory"
      BY <1>4, <1>6, <2>1 DEF NextId
    <3> QED
      BY <1>1, <1>5, <3>1 DEF Extends
  <2> QED
    BY <1>1, <1>3, <1>7, <2>1, HandledIsEngine DEF h
<1>9. Entries' = Entries
  BY <1>1 DEF Entries
<1>10. EngineTyped'
  <2>1. EngineOK(engine)' /\ EngineOK(file)'
    BY <1>1, <1>8 DEF EngineOK, Engines
  <2>2. log' \in Seq(Entries')
    BY <1>1, <1>5, <1>9
  <2> QED
    BY <1>1, <1>2, <2>1, <2>2 DEF EngineTyped, Entries, EntriesUntil
<1>11. FirstInFirstOut' /\ Stamped(engine, log)' /\ Stamped(file, log)'
  BY <1>1, <1>8 DEF FirstInFirstOut
<1>12. ASSUME NEW i \in DOMAIN log', log'[i].answer = "saved", log'[i].end = "none"
       PROVE  i \in Ids(h)
  <2> SUFFICES ASSUME i \notin Ids(h) PROVE FALSE
    OBVIOUS
  <2>1. i \in DOMAIN l /\ l[i].answer = "saved" /\ l[i].end = "none"
    BY <1>1, <1>5, <1>12
  <2>2. i \in DOMAIN log /\ log[i] = l[i]
    BY <1>4, <1>6, <2>1 DEF NextId
  <2> QED
    BY <1>1, <1>2, <1>8, <2>1, <2>2 DEF Kept
<1>13. Kept'
  BY <1>1, <1>12 DEF Kept
<1>14. NotEvaluatedLate'
  <2> SUFFICES ASSUME NEW i \in DOMAIN log' PROVE log'[i].end # "late"
    BY DEF NotEvaluatedLate
  <2>1. i \in DOMAIN l /\ log'[i].end = l[i].end
    BY <1>1, <1>5
  <2>2. l[i].end # "late"
    BY <1>2, <1>4, <1>6, <2>1 DEF NotEvaluatedLate, NextId
  <2> QED
    BY <2>1, <2>2
<1> QED
  BY <1>10, <1>11, <1>13, <1>14 DEF EngineInv

\* A command whose save failed is logged as refused, and in no queue.
LEMMA UnsavedStep ==
  ASSUME LifecycleAssumption, EngineInv, NEW c \in LifecycleCommand, HandleCommandUnsaved(c)
  PROVE  EngineInv'
<1> DEFINE l == Logged(engine, c, "refused")
<1>1. /\ engine' = engine /\ log' = l
      /\ file' = file /\ clock' = clock /\ crashes' = crashes
  BY DEF HandleCommandUnsaved, RolledBack
<1>2. EngineTyped /\ FirstInFirstOut /\ Stamped(engine, log) /\ Stamped(file, log) /\ Kept
      /\ NotEvaluatedLate
  BY DEF EngineInv
<1>3. /\ l \in Seq(Entries)
      /\ DOMAIN l = IF Effect(c, engine.state) = "deferred" THEN 1..Len(log) + 1 ELSE 1..Len(log)
      /\ \A i \in 1..Len(log) : l[i] = log[i]
      /\ Effect(c, engine.state) = "deferred"
           => l[NextId] = [since |-> clock, answer |-> "refused", end |-> "none"]
      /\ Extends(log, l)
  BY <1>2, LoggedExtends
<1> HIDE DEF l
<1>4. DOMAIN log = 1..Len(log) /\ Len(log) \in Nat
  BY <1>2, LogOK
<1>5. Engines \subseteq Engines' /\ Entries' = Entries
  <2>1. DOMAIN log \subseteq DOMAIN log' /\ clock' \in Nat /\ clock <= clock'
    BY <1>1, <1>2, <1>3 DEF Extends, EngineTyped
  <2> QED
    BY <1>1, <1>2, <2>1, EnginesGrow DEF Entries
<1>6. EngineTyped'
  <2>1. /\ engine' = NoEngine \/ EngineOK(engine)'
        /\ file' = NoCheckpoint \/ EngineOK(file)'
    BY <1>1, <1>2, <1>5, TypedAsEngines DEF EngineOK, Engines, NoCheckpoint, NoEngine
  <2>2. log' \in Seq(Entries')
    BY <1>1, <1>3, <1>5
  <2> QED
    BY <1>1, <1>2, <2>1, <2>2 DEF EngineTyped, Entries, EntriesUntil, NoCheckpoint, NoEngine
<1>7. FirstInFirstOut' /\ Stamped(engine, log)' /\ Stamped(file, log)'
  BY <1>1, <1>2, <1>3, StampedStays DEF FirstInFirstOut
<1>8. ASSUME NEW i \in DOMAIN log', log'[i].answer = "saved"
      PROVE  i \in DOMAIN log /\ log'[i] = log[i]
  BY <1>1, <1>3, <1>4, <1>8 DEF NextId
<1>9. Kept'
  BY <1>1, <1>2, <1>8 DEF Kept
<1>10. NotEvaluatedLate'
  BY <1>1, <1>2, <1>3, <1>4 DEF NotEvaluatedLate, NextId
<1> QED
  BY <1>6, <1>7, <1>9, <1>10 DEF EngineInv

(***************************************************************************)
(* The queue, the checkpoint and the owner                                 *)
(***************************************************************************)

\* A queue is driven: what leaves it was over in time, or is evaluated in time.
LEMMA DriveStep ==
  ASSUME LifecycleAssumption, EngineInv, DriveDeferred
  PROVE  EngineInv'
<1> DEFINE h == Driven(engine)
<1>1. /\ engine # NoEngine /\ engine' = h
      /\ file' = file /\ clock' = clock /\ crashes' = crashes
  BY DEF DriveDeferred
<1>2. EngineTyped /\ FirstInFirstOut /\ Stamped(engine, log) /\ Stamped(file, log) /\ Kept
      /\ NotEvaluatedLate
  BY DEF EngineInv
<1>3. /\ engine \in Engines /\ (file = NoCheckpoint \/ file \in Engines)
      /\ NoEngine \notin Engines
  BY <1>1, <1>2, TypedAsEngines
<1>4. /\ log \in Seq(Entries) /\ DOMAIN log = 1..Len(log) /\ Len(log) \in Nat
      /\ \A i \in DOMAIN log : log[i] \in Entries
      /\ \A d \in Deferral : d.id \in Nat
  BY <1>2, LogOK
<1>5. /\ h \in Engines
      /\ \A j \in DOMAIN h.deferred : \E i \in DOMAIN engine.deferred :
           h.deferred[j] = engine.deferred[i]
      /\ InOrder(engine) => InOrder(h)
  BY <1>3, <1>4, DrivenQueue
<1> DEFINE fate(i) == IF \E d \in ToSet(engine.deferred) : d.id = i /\ TimedOut(d) THEN "expired"
                      ELSE IF clock < log[i].since + DeferLimit THEN "evaluated" ELSE "late"
           gone == Ids(engine) \ Ids(h)
<1>6. log' = [i \in DOMAIN log |-> IF i \in gone THEN [log[i] EXCEPT !.end = fate(i)] ELSE log[i]]
  BY <1>1 DEF DriveDeferred
<1>7. ASSUME NEW i \in gone PROVE fate(i) \in {"expired", "evaluated"}
  <2>1. PICK k \in DOMAIN engine.deferred : engine.deferred[k].id = i
    BY DEF Ids
  <2>2. i \in DOMAIN log /\ engine.deferred[k].at = log[i].since
    BY <1>2, <2>1 DEF Stamped
  <2>3. engine.deferred[k] \in ToSet(engine.deferred)
    BY <2>1 DEF ToSet
  <2>4. log[i].since \in Nat /\ clock \in Nat /\ DeferLimit \in Nat
    <3>1. log[i] \in Entries
      BY <1>4, <2>2
    <3> QED
      BY <1>2, <3>1 DEF Entries, EntriesUntil, EngineTyped, LifecycleAssumption
  <2>5. CASE TimedOut(engine.deferred[k])
    BY <2>1, <2>3, <2>5
  <2>6. CASE ~TimedOut(engine.deferred[k])
    <3>1. clock < log[i].since + DeferLimit
      BY <2>2, <2>4, <2>6 DEF TimedOut
    <3> QED
      BY <3>1
  <2> QED
    BY <2>5, <2>6
<1> HIDE DEF fate, gone
<1>8. ASSUME NEW i \in DOMAIN log
      PROVE  /\ log'[i] \in Entries /\ log'[i].since = log[i].since
             /\ log'[i].answer = log[i].answer
             /\ i \in gone => log'[i].end \in {"expired", "evaluated"}
             /\ i \notin gone => log'[i] = log[i]
  <2>1. log[i] \in Entries
    BY <1>4
  <2>2. CASE i \in gone
    <3>1. log'[i] = [log[i] EXCEPT !.end = fate(i)]
      BY <1>6, <2>2
    <3> QED
      BY <1>7, <2>1, <2>2, <3>1 DEF Entries, EntriesUntil
  <2>3. CASE i \notin gone
    BY <1>6, <2>1, <2>3
  <2> QED
    BY <2>2, <2>3
<1>9. DOMAIN log' = DOMAIN log /\ log' = [i \in 1..Len(log) |-> log'[i]]
  BY <1>4, <1>6
<1>10. Extends(log, log')
  BY <1>8, <1>9 DEF Extends
<1>11. Entries' = Entries /\ Deferral' = Deferral /\ Engines' = Engines
  BY <1>1, <1>9 DEF Entries, Deferral, Engines
<1>12. log' \in Seq(Entries')
  BY <1>4, <1>8, <1>9, <1>11
<1> HIDE DEF h
<1>13. EngineTyped'
  <2>1. EngineOK(engine)' /\ (file' = NoCheckpoint \/ EngineOK(file)')
    BY <1>1, <1>3, <1>5, <1>11 DEF EngineOK, Engines, NoCheckpoint, NoEngine
  <2> QED
    BY <1>1, <1>2, <1>12, <2>1 DEF EngineTyped, Entries, EntriesUntil, NoCheckpoint, NoEngine
<1>14. FirstInFirstOut'
  BY <1>1, <1>2, <1>5 DEF FirstInFirstOut
<1>15. Stamped(engine, log') /\ Stamped(file, log')
  BY <1>2, <1>10, StampedStays
<1>16. Stamped(h, log')
  BY <1>5, <1>15 DEF Stamped
<1>17. ASSUME NEW i \in DOMAIN log', log'[i].answer = "saved", log'[i].end = "none"
       PROVE  i \in Ids(file) /\ i \in Ids(h)
  <2>1. i \in DOMAIN log /\ i \notin gone /\ log'[i] = log[i]
    BY <1>8, <1>9, <1>17
  <2>2. i \in Ids(file) /\ i \in Ids(engine)
    BY <1>1, <1>2, <1>17, <2>1 DEF Kept
  <2> QED
    BY <2>1, <2>2 DEF gone
<1>18. Kept'
  BY <1>1, <1>17 DEF Kept
<1>19. NotEvaluatedLate'
  <2> SUFFICES ASSUME NEW i \in DOMAIN log' PROVE log'[i].end # "late"
    BY DEF NotEvaluatedLate
  <2> QED
    BY <1>2, <1>8, <1>9 DEF NotEvaluatedLate
<1> QED
  BY <1>1, <1>13, <1>14, <1>15, <1>16, <1>18, <1>19 DEF EngineInv

\* A checkpoint that is saved holds what the engine holds.
LEMMA SaveStep ==
  ASSUME LifecycleAssumption, EngineInv, SaveCheckpoint
  PROVE  EngineInv'
<1> DEFINE m == Promised(log, engine)
<1>1. /\ engine # NoEngine /\ engine' = engine /\ file' = engine /\ log' = m
      /\ clock' = clock /\ crashes' = crashes
  BY DEF SaveCheckpoint
<1>2. EngineTyped /\ FirstInFirstOut /\ Stamped(engine, log) /\ Kept /\ NotEvaluatedLate
  BY DEF EngineInv
<1>3. engine \in Engines /\ log \in Seq(Entries)
  BY <1>1, <1>2, TypedAsEngines, LogOK
<1>4. /\ m \in Seq(Entries) /\ DOMAIN m = DOMAIN log /\ Extends(log, m)
      /\ \A i \in DOMAIN log : m[i].end = log[i].end /\ (i \notin Ids(engine) => m[i] = log[i])
  BY <1>3, PromisedExtends DEF Entries
<1> HIDE DEF m
<1>5. Entries' = Entries /\ Deferral' = Deferral /\ Engines' = Engines
  BY <1>1, <1>4 DEF Entries, Deferral, Engines
<1>6. EngineTyped'
  <2>1. EngineOK(engine)' /\ EngineOK(file)'
    BY <1>1, <1>3, <1>5 DEF EngineOK, Engines
  <2>2. log' \in Seq(Entries')
    BY <1>1, <1>4, <1>5
  <2> QED
    BY <1>1, <1>2, <2>1, <2>2 DEF EngineTyped, Entries, EntriesUntil
<1>7. FirstInFirstOut' /\ Stamped(engine, log)' /\ Stamped(file, log)'
  BY <1>1, <1>2, <1>4, StampedStays DEF FirstInFirstOut
<1>8. ASSUME NEW i \in DOMAIN log', log'[i].answer = "saved", log'[i].end = "none"
      PROVE  i \in Ids(engine)
  <2> SUFFICES ASSUME i \notin Ids(engine) PROVE FALSE
    OBVIOUS
  <2>1. i \in DOMAIN log /\ log[i].answer = "saved" /\ log[i].end = "none"
    BY <1>1, <1>4, <1>8
  <2> QED
    BY <1>1, <1>2, <2>1 DEF Kept
<1>9. Kept'
  BY <1>1, <1>8 DEF Kept
<1>10. NotEvaluatedLate'
  BY <1>1, <1>2, <1>4 DEF NotEvaluatedLate
<1> QED
  BY <1>6, <1>7, <1>9, <1>10 DEF EngineInv

\* A crash takes the engine; what was promised is in the file.
LEMMA CrashStep ==
  ASSUME LifecycleAssumption, EngineInv, Crash
  PROVE  EngineInv'
<1>1. /\ engine # NoEngine /\ engine' = NoEngine /\ file' = file /\ clock' = clock /\ log' = log
      /\ crashes < MaxCrashes /\ crashes' = crashes + 1
  BY DEF Crash
<1>2. NoEngine.deferred = <<>>
  BY DEF NoEngine
<1>3. InOrder(NoEngine) /\ \A l : Stamped(NoEngine, l)
  BY <1>2, EmptyQueue
<1>4. EngineTyped'
  <2>1. file' = NoCheckpoint \/ EngineOK(file)'
    BY <1>1 DEF EngineInv, EngineTyped, EngineOK, Deferral, NoCheckpoint, NoEngine
  <2>2. crashes' \in 0..MaxCrashes
    BY <1>1 DEF EngineInv, EngineTyped, LifecycleAssumption
  <2> QED
    BY <1>1, <2>1, <2>2 DEF EngineInv, EngineTyped, NoCheckpoint, NoEngine
<1> QED
  BY <1>1, <1>3, <1>4 DEF EngineInv, FirstInFirstOut, Kept, NotEvaluatedLate

\* A reopened engine has the queue of the file.
LEMMA ReopenStep ==
  ASSUME LifecycleAssumption, EngineInv, Reopen
  PROVE  EngineInv'
<1>1. /\ engine = NoEngine /\ file' = file /\ clock' = clock /\ log' = log /\ crashes' = crashes
      /\ engine' = IF file = NoCheckpoint
                   THEN [state |-> "Uninitialized", deferred |-> <<>>] ELSE file
  BY DEF Reopen, Restored
<1>2. Deferral' = Deferral
  BY <1>1 DEF Deferral
<1>3. CASE file = NoCheckpoint
  <2>1. engine'.deferred = <<>> /\ engine'.state = "Uninitialized"
    BY <1>1, <1>3
  <2>2. InOrder(engine') /\ Stamped(engine', log')
    BY <2>1, EmptyQueue
  <2>3. EngineOK(engine)'
    <3>1. <<>> \in Seq(Deferral') /\ "Uninitialized" \in LifecycleState
      BY DEF LifecycleState
    <3> QED
      BY <1>1, <1>3, <3>1 DEF EngineOK
  <2>4. Ids(file) = {}
    <3>1. file.deferred = <<>>
      BY <1>3 DEF NoCheckpoint, NoEngine
    <3> QED
      BY <3>1, EmptyQueue
  <2>5. EngineTyped'
    BY <1>1, <1>2, <1>3, <2>3 DEF EngineInv, EngineTyped, NoCheckpoint, NoEngine
  <2> QED
    BY <1>1, <2>2, <2>4, <2>5 DEF EngineInv, FirstInFirstOut, Kept, NotEvaluatedLate
<1>4. CASE file # NoCheckpoint
  <2>1. engine' = file
    BY <1>1, <1>4
  <2>2. EngineTyped'
    BY <1>1, <1>2, <1>4, <2>1 DEF EngineInv, EngineTyped, EngineOK, NoCheckpoint, NoEngine
  <2> QED
    BY <1>1, <2>1, <2>2 DEF EngineInv, FirstInFirstOut, Kept, NotEvaluatedLate
<1> QED
  BY <1>3, <1>4

\* The owner changes the state and no queue.
LEMMA OwnerStep ==
  ASSUME LifecycleAssumption, EngineInv, OwnerSetsState
  PROVE  EngineInv'
<1>1. /\ engine # NoEngine /\ file' = file /\ clock' = clock /\ log' = log /\ crashes' = crashes
  BY DEF OwnerSetsState
<1>2. PICK s \in FinishesIn[engine.state] : engine' = [engine EXCEPT !.state = s]
  BY DEF OwnerSetsState
<1>3. EngineTyped /\ engine \in Engines
  BY <1>1, TypedAsEngines DEF EngineInv
<1>4. s \in LifecycleState
  <2>1. engine.state \in LifecycleState
    BY <1>3 DEF Engines
  <2> QED
    BY <1>2, <2>1 DEF FinishesIn, LifecycleState
<1>5. engine' \in Engines /\ engine'.deferred = engine.deferred
  BY <1>2, <1>3, <1>4 DEF Engines
<1>6. Deferral' = Deferral /\ Engines' = Engines /\ Ids(engine') = Ids(engine)
  BY <1>1, <1>5 DEF Deferral, Engines, Ids
<1>7. EngineTyped'
  <2>1. EngineOK(engine)'
    BY <1>5, <1>6 DEF EngineOK, Engines
  <2> QED
    BY <1>1, <1>3, <1>6, <2>1 DEF EngineTyped, EngineOK, NoCheckpoint, NoEngine
<1>8. InOrder(engine') /\ Stamped(engine', log')
  BY <1>1, <1>5 DEF EngineInv, FirstInFirstOut, InOrder, Stamped
<1> QED
  BY <1>1, <1>6, <1>7, <1>8 DEF EngineInv, FirstInFirstOut, Kept, NotEvaluatedLate

\* Time changes no queue and no fate.
LEMMA ClockStep ==
  ASSUME LifecycleAssumption, EngineInv, ClockTicks
  PROVE  EngineInv'
<1>1. /\ engine' = engine /\ file' = file /\ log' = log /\ crashes' = crashes
      /\ clock < MaxClock /\ clock' = clock + 1
  BY DEF ClockTicks
<1>2. EngineTyped /\ clock \in Nat /\ clock' \in 0..MaxClock /\ clock' \in Nat /\ clock <= clock'
  BY <1>1 DEF EngineInv, EngineTyped, LifecycleAssumption
<1>3. Engines \subseteq Engines' /\ Entries \subseteq Entries'
  BY <1>1, <1>2, EnginesGrow
<1>4. log' \in Seq(Entries')
  <2>1. log \in Seq(Entries)
    BY <1>2, LogOK
  <2> QED
    BY <1>1, <1>3, <2>1
<1>5. EngineTyped'
  <2>1. /\ engine' = NoEngine \/ EngineOK(engine)'
        /\ file' = NoCheckpoint \/ EngineOK(file)'
    BY <1>1, <1>2, <1>3, TypedAsEngines DEF EngineOK, Engines, NoCheckpoint, NoEngine
  <2> QED
    BY <1>1, <1>2, <1>4, <2>1 DEF EngineTyped, Entries, EntriesUntil, NoCheckpoint, NoEngine
<1> QED
  BY <1>1, <1>5 DEF EngineInv, FirstInFirstOut, Kept, NotEvaluatedLate

\* Every operation of the engine, of its owner and of time keeps the invariant.
LEMMA EngineStep ==
  ASSUME LifecycleAssumption, EngineInv, [EngineNext]_engineVars
  PROVE  EngineInv'
<1>1. CASE UNCHANGED engineVars
  BY <1>1 DEF engineVars, EngineInv, EngineTyped, EngineOK, Deferral, FirstInFirstOut,
              InOrder, Stamped, Kept, Ids, NotEvaluatedLate, NoCheckpoint, NoEngine
<1>2. CASE EngineNext
  BY <1>2, HandleStep, PersistedStep, UnsavedStep, DriveStep, SaveStep, CrashStep,
     ReopenStep, OwnerStep, ClockStep DEF EngineNext
<1> QED
  BY <1>1, <1>2

\* What is kept is in the engine that runs, or in the file.
LEMMA AnswersFollow == EngineInv => AnswersHold
<1> SUFFICES ASSUME EngineInv PROVE AnswersHold
  OBVIOUS
<1>1. PromisesKept
  BY DEF EngineInv, Kept, PromisesKept
<1>2. RefusedForgotten
  BY DEF EngineInv, Stamped, RefusedForgotten, Ids
<1> QED
  BY <1>1, <1>2 DEF EngineInv, AnswersHold

\* The checkpoints and queues of the engine (HandleCommand to Reopen) stay well formed.
THEOREM QueuesInOrder == EngineSpec => []EngineWellFormed
<1>1. EngineInit => EngineInv
  BY LifecycleAssumption, EngineStarts
<1>2. EngineInv /\ [EngineNext]_engineVars => EngineInv'
  BY LifecycleAssumption, EngineStep
<1>3. EngineInv => EngineWellFormed
  BY DEF EngineInv, EngineWellFormed
<1> QED
  BY <1>1, <1>2, <1>3, PTL DEF EngineSpec

\* The answer a command was given holds, through crashes and reopening: what was saved is
\* neither lost nor evaluated late, what was refused is in no queue.
THEOREM AnswersAreHeld == EngineSpec => []AnswersHold
<1>1. EngineInit => EngineInv
  BY LifecycleAssumption, EngineStarts
<1>2. EngineInv /\ [EngineNext]_engineVars => EngineInv'
  BY LifecycleAssumption, EngineStep
<1> QED
  BY <1>1, <1>2, AnswersFollow, PTL DEF EngineSpec

\* A failed engine, one step.
LEMMA FailedStep ==
  ASSUME LifecycleAssumption, EngineInv, EngineNext,
         engine # NoEngine, engine' # NoEngine, engine.state = "Failed"
  PROVE  /\ engine'.state # "Running"
         /\ engine'.state = "Starting"
              => \E d \in ToSet(engine.deferred) : d.command = "Stop"
<1>1. engine \in Engines
  BY TypedAsEngines DEF EngineInv
<1>2. ASSUME NEW c \in LifecycleCommand PROVE StateAfter(c, "Failed") \in {"Failed", "Stopped", "Restarting"}
  BY DEF StateAfter, Effect, AcceptedIn, DeferredIn, LifecycleCommand, Target
<1>3. ASSUME NEW c \in LifecycleCommand, HandleCommand(c) \/ HandleCommandPersisted(c)
      PROVE  engine'.state \in {"Failed", "Stopped", "Restarting"}
  BY <1>2, <1>3 DEF HandleCommand, HandleCommandPersisted, Handled
<1>4. ASSUME NEW c \in LifecycleCommand, HandleCommandUnsaved(c)
      PROVE  engine'.state = "Failed"
  BY <1>4 DEF HandleCommandUnsaved, RolledBack
<1>5. CASE DriveDeferred
  <2>1. engine' = Driven(engine)
    BY <1>5 DEF DriveDeferred
  <2>2. /\ engine'.state # "Running"
        /\ engine'.state = "Starting"
             => \E i \in DOMAIN engine.deferred : engine.deferred[i].command = "Stop"
    BY <1>1, <2>1, DrivenFromFailed
  <2> QED
    BY <2>2 DEF ToSet
<1>6. CASE SaveCheckpoint \/ ClockTicks
  BY <1>6 DEF SaveCheckpoint, ClockTicks
<1>7. CASE Crash \/ Reopen
  BY <1>7 DEF Crash, Reopen
<1>8. CASE OwnerSetsState
  <2>1. FinishesIn[engine.state] = {}
    BY DEF FinishesIn
  <2> QED
    BY <1>8, <2>1 DEF OwnerSetsState
<1> QED
  BY <1>3, <1>4, <1>5, <1>6, <1>7, <1>8 DEF EngineNext

\* No command, and no queue of commands that is driven, takes a failed engine to Running, or
\* to Starting without a Stop that waited.
THEOREM FailedEnginesRecover == EngineSpec => FailedRecovers
<1>1. EngineInit => EngineInv
  BY LifecycleAssumption, EngineStarts
<1>2. EngineInv /\ [EngineNext]_engineVars => EngineInv'
  BY LifecycleAssumption, EngineStep
<1>3. EngineInv /\ [EngineNext]_engineVars
        => [engine # NoEngine /\ engine' # NoEngine /\ engine.state = "Failed" =>
              /\ engine'.state # "Running"
              /\ engine'.state = "Starting"
                   => \E d \in ToSet(engine.deferred) : d.command = "Stop"]_engineVars
  BY LifecycleAssumption, FailedStep
<1> QED
  BY <1>1, <1>2, <1>3, PTL DEF EngineSpec, FailedRecovers
================================================================================
