----------------------------- MODULE Iteration -----------------------------
(***************************************************************************)
(* Facts about loops.  A loop over 1 .. n with an accumulator is written   *)
(* as a recursive function of its index; that such a function exists, and  *)
(* that what each turn preserves holds at the end, is proved here once.    *)
(* What a turn does is given as a function, so that nothing is quantified  *)
(* over operators.                                                         *)
(***************************************************************************)
EXTENDS Sums, TLAPS, WellFoundedInduction

\* A nonempty set of natural numbers has a least one.
THEOREM LeastElement ==
  ASSUME NEW T \in SUBSET Nat, T # {}
  PROVE  \E x \in T : \A y \in T : x <= y
<1>1. PICK x \in T : \A y \in T : ~(<<y, x>> \in OpToRel(<, Nat))
  BY NatLessThanWellFounded, WFMin
<1>2. ASSUME NEW y \in T, y < x
      PROVE  <<y, x>> \in OpToRel(<, Nat)
  <2>1. x \in Nat /\ y \in Nat
    OBVIOUS
  <2> QED
    BY <1>2, <2>1 DEF OpToRel
<1>3. \A y \in T : ~(y < x)
  BY <1>1, <1>2
<1> QED
  BY <1>3

\* A nonempty set of numbers up to n has a greatest one.
THEOREM GreatestElement ==
  ASSUME NEW n \in Nat, NEW T \in SUBSET (0 .. n), T # {}
  PROVE  \E x \in T : \A y \in T : x >= y
<1> DEFINE bounds == {k \in 0 .. n : \A y \in T : y <= k}
<1>1. n \in bounds /\ bounds \in SUBSET Nat
  OBVIOUS
<1>2. PICK x \in bounds : \A k \in bounds : x <= k
  <2> HIDE DEF bounds
  <2> QED
    BY <1>1, LeastElement
<1>3. x \in T
  <2> SUFFICES ASSUME x \notin T PROVE FALSE
    OBVIOUS
  <2>1. x \in Nat /\ \A y \in T : y \in Nat /\ y <= x
    BY <1>2
  <2>2. \A y \in T : y <= x - 1
    BY <2>1
  <2>3. PICK z \in T : TRUE
    OBVIOUS
  <2>4. x - 1 \in 0 .. n
    BY <1>2, <2>1, <2>2, <2>3
  <2>5. x - 1 \in bounds
    BY <2>2, <2>4
  <2> QED
    BY <1>2, <2>1, <2>5
<1> QED
  BY <1>2, <1>3

\* A set that has 0, and the successor of each of its elements below n, has all
\* numbers up to n.
THEOREM IndexInduction ==
  ASSUME NEW n \in Nat, NEW P, 0 \in P,
         \A i \in 0 .. n : i # 0 /\ i - 1 \in P => i \in P
  PROVE  0 .. n \subseteq P
<1> DEFINE T == (0 .. n) \ P
<1> SUFFICES ASSUME T # {} PROVE FALSE
  OBVIOUS
<1>1. T \in SUBSET Nat
  OBVIOUS
<1>2. PICK x \in T : \A y \in T : x <= y
  BY <1>1, LeastElement
<1>3. x \in Nat /\ x # 0 /\ x \notin P /\ x \in 0 .. n
  OBVIOUS
<1>4. x - 1 \in T
  BY <1>3
<1> QED
  BY <1>2, <1>3, <1>4

\* The turns of a loop over 1 .. n whose accumulator is in S.
Turns(n, S) == [1 .. n -> [S -> S]]

\* Its accumulator, by index, if it begins with base.
Accumulators(n, S, base, turn) ==
    {f \in [0 .. n -> S] : f[0] = base /\ \A i \in 1 .. n : f[i] = turn[i][f[i - 1]]}

\* A loop whose turns keep its accumulator in a set has one.
THEOREM LoopExists ==
  ASSUME NEW n \in Nat, NEW S, NEW base \in S, NEW turn \in Turns(n, S)
  PROVE  Accumulators(n, S, base, turn) # {}
<1> USE DEF Turns
<1> DEFINE Good(k, f) == f[0] = base /\ \A i \in 1 .. k : f[i] = turn[i][f[i - 1]]
           P == {k \in 0 .. n : \E f \in [0 .. k -> S] : Good(k, f)}
<1>1. 0 \in P
  <2> DEFINE g == [i \in 0 .. 0 |-> base]
  <2>1. g \in [0 .. 0 -> S] /\ g[0] = base
    OBVIOUS
  <2>2. 1 .. 0 = {}
    OBVIOUS
  <2> HIDE DEF g
  <2> QED
    BY <2>1, <2>2
<1>2. ASSUME NEW k \in 0 .. n, k # 0, k - 1 \in P
      PROVE  k \in P
  <2>1. PICK f \in [0 .. k - 1 -> S] : Good(k - 1, f)
    BY <1>2
  <2> DEFINE g == [i \in 0 .. k |-> IF i = k THEN turn[k][f[k - 1]] ELSE f[i]]
  <2>2. f[k - 1] \in S /\ turn[k] \in [S -> S]
    BY <1>2
  <2>3. g \in [0 .. k -> S]
    BY <1>2, <2>2
  <2>4. ASSUME NEW i \in 1 .. k
        PROVE  g[i] = turn[i][g[i - 1]]
    <3>1. i - 1 \in 0 .. k - 1 /\ g[i - 1] = f[i - 1]
      BY <1>2
    <3>2. CASE i = k
      BY <3>1, <3>2
    <3>3. CASE i # k
      BY <2>1, <3>1, <3>3
    <3> QED
      BY <3>2, <3>3
  <2>5. g[0] = base
    BY <1>2, <2>1
  <2> QED
    BY <2>3, <2>4, <2>5
<1>3. 0 .. n \subseteq P
  <2> HIDE DEF P
  <2> QED
    BY <1>1, <1>2, IndexInduction
<1>4. n \in P
  BY <1>3
<1> QED
  BY <1>4 DEF Accumulators

\* What the first value has, and each turn preserves, the last value has.
THEOREM LoopInvariant ==
  ASSUME NEW n \in Nat, NEW f, NEW S, f[0] \in S,
         \A i \in 1 .. n : f[i - 1] \in S => f[i] \in S
  PROVE  \A i \in 0 .. n : f[i] \in S
<1> DEFINE P == {i \in 0 .. n : f[i] \in S}
<1>1. 0 \in P
  OBVIOUS
<1>2. \A i \in 0 .. n : i # 0 /\ i - 1 \in P => i \in P
  OBVIOUS
<1>3. 0 .. n \subseteq P
  <2> HIDE DEF P
  <2> QED
    BY <1>1, <1>2, IndexInduction
<1> QED
  BY <1>3

-----------------------------------------------------------------------------
(***************************************************************************)
(* Sums of sizes.                                                          *)
(***************************************************************************)
\* f has the sums of the first elements of q.
PartialSums(q, f) ==
    /\ f \in [0 .. Len(q) -> Nat]
    /\ f[0] = 0
    /\ \A i \in 1 .. Len(q) : f[i] = f[i - 1] + q[i]

\* The sums exist, and SumOf is the last one.
LEMMA SumExists ==
  ASSUME NEW q \in Seq(Nat)
  PROVE  \E f : PartialSums(q, f) /\ SumOf(q) = f[Len(q)]
<1> DEFINE n == Len(q)
           turn == [i \in 1 .. n |-> [x \in Nat |-> x + q[i]]]
           sum[i \in 0 .. n] == IF i = 0 THEN 0 ELSE sum[i - 1] + q[i]
<1>1. n \in Nat /\ \A i \in 1 .. n : q[i] \in Nat
  OBVIOUS
<1>2. SumOf(q) = sum[n]
  BY DEF SumOf
<1>3. turn \in Turns(n, Nat)
  BY <1>1 DEF Turns
<1> HIDE DEF n
<1>4. PICK f \in [0 .. n -> Nat] : f[0] = 0 /\ \A i \in 1 .. n : f[i] = turn[i][f[i - 1]]
  <2> HIDE DEF turn
  <2>1. Accumulators(n, Nat, 0, turn) # {}
    BY <1>1, <1>3, LoopExists
  <2> QED
    BY <2>1 DEF Accumulators
<1>5. ASSUME NEW i \in 0 .. n, i # 0
      PROVE  f[i] = f[i - 1] + q[i]
  <2>1. i \in 1 .. n /\ i - 1 \in 0 .. n /\ f[i - 1] \in Nat
    BY <1>1, <1>5
  <2> QED
    BY <1>4, <2>1
<1>6. f = [i \in 0 .. n |-> IF i = 0 THEN 0 ELSE f[i - 1] + q[i]]
  BY <1>4, <1>5, Zenon
<1>7. sum = [i \in 0 .. n |-> IF i = 0 THEN 0 ELSE sum[i - 1] + q[i]]
  BY <1>6
<1> HIDE DEF sum
<1> DEFINE P == {i \in 0 .. n : sum[i] \in Nat}
<1>8. 0 \in P
  BY <1>1, <1>7
<1>9. ASSUME NEW i \in 0 .. n, i # 0, i - 1 \in P
      PROVE  i \in P
  <2>1. sum[i] = sum[i - 1] + q[i]
    BY <1>7, <1>9
  <2>2. q[i] \in Nat
    BY <1>1, <1>9
  <2> QED
    BY <1>9, <2>1, <2>2
<1>10. 0 .. n \subseteq P
  <2> HIDE DEF P
  <2> QED
    BY <1>1, <1>8, <1>9, IndexInduction
<1>11. sum \in [0 .. n -> Nat]
  <2>1. \A i \in 0 .. n : sum[i] \in Nat
    BY <1>10
  <2>2. DOMAIN sum = 0 .. n /\ sum = [i \in 0 .. n |-> sum[i]]
    <3> DEFINE e(i) == IF i = 0 THEN 0 ELSE sum[i - 1] + q[i]
    <3>1. sum = [i \in 0 .. n |-> e(i)]
      BY <1>7
    <3> HIDE DEF e
    <3> QED
      BY <3>1
  <2> QED
    BY <2>1, <2>2
<1>12. \A i \in 1 .. n : sum[i] = sum[i - 1] + q[i]
  <2> SUFFICES ASSUME NEW i \in 1 .. n PROVE sum[i] = sum[i - 1] + q[i]
    OBVIOUS
  <2>1. i \in 0 .. n /\ i # 0
    BY <1>1
  <2> QED
    BY <1>7, <2>1, Zenon
<1>13. PartialSums(q, sum)
  <2>1. sum[0] = 0
    BY <1>1, <1>7
  <2> QED
    BY <1>11, <1>12, <2>1 DEF PartialSums, n
<1> QED
  BY <1>2, <1>13 DEF n

\* Any such function gives the sum.
LEMMA SumIs ==
  ASSUME NEW q \in Seq(Nat), NEW f, PartialSums(q, f)
  PROVE  SumOf(q) = f[Len(q)] /\ SumOf(q) \in Nat
<1>1. PICK g : PartialSums(q, g) /\ SumOf(q) = g[Len(q)]
  BY SumExists
<1>2. Len(q) \in Nat
  OBVIOUS
<1> DEFINE P == {i \in 0 .. Len(q) : f[i] = g[i]}
<1>3. 0 \in P
  BY <1>1, <1>2 DEF PartialSums
<1>4. ASSUME NEW i \in 0 .. Len(q), i # 0, i - 1 \in P
      PROVE  i \in P
  <2>1. i \in 1 .. Len(q)
    BY <1>2, <1>4
  <2>2. f[i] = f[i - 1] + q[i] /\ g[i] = g[i - 1] + q[i]
    BY <1>1, <2>1 DEF PartialSums
  <2> QED
    BY <1>4, <2>2
<1>5. 0 .. Len(q) \subseteq P
  <2> HIDE DEF P
  <2> QED
    BY <1>2, <1>3, <1>4, IndexInduction
<1>6. Len(q) \in 0 .. Len(q)
  BY <1>2
<1>7. f[Len(q)] = g[Len(q)] /\ g[Len(q)] \in Nat
  BY <1>1, <1>5, <1>6 DEF PartialSums
<1> QED
  BY <1>1, <1>7

\* The sum of nothing is 0.
LEMMA SumEmpty == SumOf(<<>>) = 0
<1> DEFINE f == [i \in 0 .. 0 |-> 0]
<1>1. <<>> \in Seq(Nat) /\ Len(<<>>) = 0
  OBVIOUS
<1>2. PartialSums(<<>>, f)
  BY <1>1 DEF PartialSums
<1>3. f[0] = 0
  OBVIOUS
<1> HIDE DEF f
<1> QED
  BY <1>1, <1>2, <1>3, SumIs

\* The sum of two sequences together.
LEMMA SumJoined ==
  ASSUME NEW p \in Seq(Nat), NEW q \in Seq(Nat)
  PROVE  SumOf(p \o q) = SumOf(p) + SumOf(q) /\ SumOf(p) \in Nat /\ SumOf(q) \in Nat
<1> DEFINE m == Len(p)
           n == Len(q)
<1>1. PICK f : PartialSums(p, f) /\ SumOf(p) = f[m]
  BY SumExists
<1>2. PICK g : PartialSums(q, g) /\ SumOf(q) = g[n]
  BY SumExists
<1> DEFINE h == [i \in 0 .. (m + n) |-> IF i <= m THEN f[i] ELSE f[m] + g[i - m]]
<1>3. /\ m \in Nat /\ n \in Nat /\ p \o q \in Seq(Nat) /\ Len(p \o q) = m + n
      /\ \A i \in 1 .. (m + n) : (p \o q)[i] = IF i <= m THEN p[i] ELSE q[i - m]
  OBVIOUS
<1>4. /\ f \in [0 .. m -> Nat] /\ f[0] = 0 /\ \A i \in 1 .. m : f[i] = f[i - 1] + p[i]
      /\ g \in [0 .. n -> Nat] /\ g[0] = 0 /\ \A i \in 1 .. n : g[i] = g[i - 1] + q[i]
      /\ f[m] \in Nat /\ g[n] \in Nat
      /\ \A i \in 1 .. n : q[i] \in Nat
  <2>1. f \in [0 .. m -> Nat] /\ f[0] = 0 /\ \A i \in 1 .. m : f[i] = f[i - 1] + p[i]
    BY <1>1 DEF PartialSums
  <2>2. g \in [0 .. n -> Nat] /\ g[0] = 0 /\ \A i \in 1 .. n : g[i] = g[i - 1] + q[i]
    BY <1>2 DEF PartialSums
  <2>3. \A i \in 1 .. n : q[i] \in Nat
    OBVIOUS
  <2>4. m \in 0 .. m /\ n \in 0 .. n
    BY <1>3
  <2> HIDE DEF m, n
  <2> QED
    BY <2>1, <2>2, <2>3, <2>4
<1> DEFINE r == p \o q
<1> HIDE DEF m, n, r
<1>5. h \in [0 .. (m + n) -> Nat]
  <2>1. ASSUME NEW i \in 0 .. (m + n)
        PROVE  (IF i <= m THEN f[i] ELSE f[m] + g[i - m]) \in Nat
    <3>1. CASE i <= m
      <4>1. i \in 0 .. m
        BY <1>3, <3>1
      <4> QED
        BY <1>4, <3>1, <4>1
    <3>2. CASE ~(i <= m)
      <4>1. i - m \in 0 .. n
        BY <1>3, <3>2
      <4>2. g[i - m] \in Nat
        BY <1>4, <4>1
      <4> QED
        BY <1>4, <3>2, <4>2
    <3> QED
      BY <3>1, <3>2
  <2> QED
    BY <2>1, Zenon
<1>6. ASSUME NEW i \in 1 .. (m + n)
      PROVE  h[i] = h[i - 1] + r[i]
  <2>1. i \in 0 .. (m + n) /\ i - 1 \in 0 .. (m + n)
    BY <1>3
  <2>2. /\ h[i] = IF i <= m THEN f[i] ELSE f[m] + g[i - m]
        /\ h[i - 1] = IF i - 1 <= m THEN f[i - 1] ELSE f[m] + g[(i - 1) - m]
    BY <2>1
  <2> HIDE DEF h
  <2>3. r[i] = IF i <= m THEN p[i] ELSE q[i - m]
    BY <1>3 DEF r
  <2>4. CASE i <= m
    <3>1. i \in 1 .. m /\ i - 1 <= m
      BY <1>3, <2>4
    <3> QED
      BY <1>4, <2>2, <2>3, <2>4, <3>1
  <2>5. CASE i > m
    <3>1. i - m \in 1 .. n /\ ~(i <= m)
      BY <1>3, <2>5
    <3>2. g[i - m] = g[(i - m) - 1] + q[i - m] /\ q[i - m] \in Nat
      BY <1>4, <3>1
    <3>3. (i - m) - 1 = (i - 1) - m /\ (i - m) - 1 \in 0 .. n
      BY <1>3, <3>1
    <3>4. g[(i - 1) - m] \in Nat
      BY <1>4, <3>3
    <3>7. h[i] = f[m] + g[i - m] /\ r[i] = q[i - m]
      BY <2>2, <2>3, <3>1
    <3>8. h[i - 1] = f[m] + g[(i - 1) - m]
      <4>1. CASE i - 1 <= m
        <5>1. i - 1 = m /\ (i - 1) - m = 0
          BY <1>3, <2>5, <4>1
        <5>2. h[i - 1] = f[i - 1]
          BY <2>2, <4>1
        <5> QED
          BY <1>4, <5>1, <5>2
      <4>2. CASE ~(i - 1 <= m)
        BY <2>2, <4>2
      <4> QED
        BY <4>1, <4>2
    <3>9. f[m] \in Nat /\ g[i - m] = g[(i - 1) - m] + q[i - m]
      BY <1>4, <3>2, <3>3
    <3> QED
      BY <3>2, <3>4, <3>7, <3>8, <3>9
  <2> QED
    BY <1>3, <2>4, <2>5
<1>7. h[0] = 0
  BY <1>3, <1>4
<1>8. h[m + n] = f[m] + g[n]
  <2>1. m + n \in 0 .. (m + n)
    BY <1>3
  <2>2. h[m + n] = IF m + n <= m THEN f[m + n] ELSE f[m] + g[(m + n) - m]
    BY <2>1
  <2>3. CASE n = 0
    BY <1>3, <1>4, <2>2, <2>3
  <2>4. CASE n # 0
    <3>1. ~(m + n <= m) /\ (m + n) - m = n
      BY <1>3, <2>4
    <3> QED
      BY <2>2, <3>1
  <2> QED
    BY <2>3, <2>4
<1> HIDE DEF h
<1>9. r \in Seq(Nat) /\ Len(r) = m + n
  BY <1>3 DEF r
<1>10. PartialSums(r, h)
  BY <1>5, <1>6, <1>7, <1>9 DEF PartialSums
<1>11. SumOf(r) = h[m + n]
  BY <1>9, <1>10, SumIs
<1> QED
  BY <1>1, <1>2, <1>4, <1>8, <1>11 DEF r

\* The sum of one number.
LEMMA SumOne ==
  ASSUME NEW x \in Nat
  PROVE  SumOf(<<x>>) = x
<1> DEFINE f == [i \in 0 .. 1 |-> IF i = 0 THEN 0 ELSE x]
<1>1. <<x>> \in Seq(Nat) /\ Len(<<x>>) = 1 /\ <<x>>[1] = x
  OBVIOUS
<1>2. f \in [0 .. 1 -> Nat] /\ f[0] = 0 /\ f[1] = x
  OBVIOUS
<1> HIDE DEF f
<1>3. PartialSums(<<x>>, f)
  <2>1. \A i \in 1 .. 1 : f[i] = f[i - 1] + <<x>>[i]
    <3> SUFFICES f[1] = f[0] + <<x>>[1]
      OBVIOUS
    <3> QED
      BY <1>1, <1>2
  <2> QED
    BY <1>1, <1>2, <2>1 DEF PartialSums
<1> QED
  BY <1>1, <1>2, <1>3, SumIs
=============================================================================
