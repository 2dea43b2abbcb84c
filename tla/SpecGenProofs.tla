--------------------------- MODULE SpecGenProofs ---------------------------
(***************************************************************************)
(* Proofs about SpecGen, for every specification, however many fields,     *)
(* messages, components and groups it has and whatever their names.        *)
(***************************************************************************)
EXTENDS SpecGen, FiniteSetTheorems, TLAPS

(* Counting and iterating *)

\* Every non-empty set of numbers has a least one.
LEMMA LeastNumber ==
  ASSUME NEW T, T \subseteq Nat, T # {}
  PROVE  \E x \in T : \A y \in T : x <= y
<1>1. PICK x \in T : \A y \in T : ~ (<<y, x>> \in OpToRel(<, Nat))
  <2>1. IsWellFoundedOn(OpToRel(<, Nat), Nat)
    BY NatLessThanWellFounded, Zenon
  <2> QED
    BY <2>1, WFMin, Zenon
<1>2. \A y \in T : ~ (y < x)
  BY <1>1, Zenon DEF OpToRel
<1>3. \A y \in T : x <= y
  BY <1>2
<1> QED
  BY <1>3

\* What holds of zero, and of every number whose predecessor it holds of, holds
\* of all.
LEMMA Counting ==
  ASSUME NEW S, 0 \in S, \A n \in Nat \ {0} : n - 1 \in S => n \in S
  PROVE  Nat \subseteq S
<1> DEFINE T == Nat \ S
<1> SUFFICES ASSUME T # {} PROVE FALSE
  OBVIOUS
<1>1. T \subseteq Nat
  OBVIOUS
<1>2. PICK x \in T : \A y \in T : x <= y
  <2> HIDE DEF T
  <2> QED
    BY <1>1, LeastNumber
<1>3. x \in Nat \ {0} /\ x - 1 \in Nat
  OBVIOUS
<1>4. x - 1 \notin T
  BY <1>2, <1>3
<1> QED
  BY <1>3, <1>4

\* The values a loop goes through: first, then what each step makes of the last.
Iterates(f, first, step) ==
  f = [n \in Nat |-> IF n = 0 THEN first ELSE step[n][f[n - 1]]]
IteratesTo(f, first, step, m) ==
  f = [n \in 0 .. m |-> IF n = 0 THEN first ELSE step[n][f[n - 1]]]

LEMMA IteratesToExists ==
  ASSUME NEW first, NEW step
  PROVE  \A m \in Nat : \E f : IteratesTo(f, first, step, m)
<1> DEFINE S == {m \in Nat : \E f : IteratesTo(f, first, step, m)}
<1>1. 0 \in S
  <2>1. IteratesTo([n \in 0 .. 0 |-> first], first, step, 0)
    BY DEF IteratesTo
  <2> QED
    BY <2>1
<1>2. ASSUME NEW m \in Nat \ {0}, m - 1 \in S
      PROVE  m \in S
  <2>1. PICK g : IteratesTo(g, first, step, m - 1)
    BY <1>2
  <2> DEFINE h == [n \in 0 .. m |-> IF n = m THEN step[m][g[m - 1]] ELSE g[n]]
  <2>2. ASSUME NEW n \in 0 .. m
        PROVE  h[n] = IF n = 0 THEN first ELSE step[n][h[n - 1]]
    <3>1. CASE n = m
      <4>1. h[n - 1] = g[m - 1]
        BY <3>1
      <4> QED
        BY <3>1, <4>1
    <3>2. CASE n # m
      <4>1. n \in 0 .. m - 1 /\ h[n] = g[n]
        BY <3>2
      <4>2. n # 0 => h[n - 1] = g[n - 1]
        BY <4>1
      <4>3. g[n] = IF n = 0 THEN first ELSE step[n][g[n - 1]]
        BY <2>1, <4>1 DEF IteratesTo
      <4> HIDE DEF h
      <4> QED
        BY <4>1, <4>2, <4>3
    <3> QED
      BY <3>1, <3>2
  <2>3. h = [n \in 0 .. m |-> h[n]]
    OBVIOUS
  <2>4. IteratesTo(h, first, step, m)
    <3> HIDE DEF h
    <3> QED
      BY <2>2, <2>3 DEF IteratesTo
  <2> QED
    BY <2>4
<1>3. Nat \subseteq S
  <2> HIDE DEF S
  <2> QED
    BY <1>1, <1>2, Counting
<1> QED
  BY <1>3

LEMMA IteratesToAgree ==
  ASSUME NEW first, NEW step, NEW f, NEW g, NEW j \in Nat, NEW k \in Nat, j <= k,
         IteratesTo(f, first, step, j), IteratesTo(g, first, step, k)
  PROVE  \A n \in 0 .. j : f[n] = g[n]
<1> DEFINE S == {n \in Nat : n <= j => f[n] = g[n]}
<1>1. ASSUME NEW n \in 0 .. j
      PROVE  /\ f[n] = IF n = 0 THEN first ELSE step[n][f[n - 1]]
             /\ g[n] = IF n = 0 THEN first ELSE step[n][g[n - 1]]
  BY DEF IteratesTo
<1>2. 0 \in S
  BY <1>1
<1>3. ASSUME NEW n \in Nat \ {0}, n - 1 \in S
      PROVE  n \in S
  BY <1>1, <1>3
<1>4. Nat \subseteq S
  <2> HIDE DEF S
  <2> QED
    BY <1>2, <1>3, Counting
<1> QED
  BY <1>4

\* Every loop is a function of the number of steps.
LEMMA IteratesExists ==
  ASSUME NEW first, NEW step
  PROVE  \E f : Iterates(f, first, step)
<1> DEFINE Part(m) == CHOOSE f : IteratesTo(f, first, step, m)
           f == [n \in Nat |-> Part(n)[n]]
<1>1. \A m \in Nat : IteratesTo(Part(m), first, step, m)
  BY IteratesToExists
<1>2. ASSUME NEW n \in Nat
      PROVE  f[n] = IF n = 0 THEN first ELSE step[n][f[n - 1]]
  <2>1. IteratesTo(Part(n), first, step, n)
    BY <1>1
  <2>2. Part(n)[n] = IF n = 0 THEN first ELSE step[n][Part(n)[n - 1]]
    <3> HIDE DEF Part
    <3> QED
      BY <2>1 DEF IteratesTo
  <2>3. n # 0 => Part(n)[n - 1] = Part(n - 1)[n - 1]
    <3> SUFFICES ASSUME n # 0 PROVE Part(n)[n - 1] = Part(n - 1)[n - 1]
      OBVIOUS
    <3>1. n - 1 \in Nat /\ n - 1 <= n /\ n - 1 \in 0 .. n - 1
      OBVIOUS
    <3>2. IteratesTo(Part(n - 1), first, step, n - 1)
      BY <1>1, <3>1
    <3> HIDE DEF Part
    <3> QED
      BY <2>1, <3>1, <3>2, IteratesToAgree
  <2>4. n # 0 => n - 1 \in Nat
    OBVIOUS
  <2> HIDE DEF Part
  <2> QED
    BY <2>2, <2>3, <2>4
<1>3. f = [n \in Nat |-> f[n]]
  OBVIOUS
<1>4. Iterates(f, first, step)
  <2> HIDE DEF f
  <2> QED
    BY <1>2, <1>3 DEF Iterates
<1> QED
  BY <1>4

\* A loop that stays in a set.
LEMMA IteratesIn ==
  ASSUME NEW X, NEW first \in X, NEW step \in [Nat -> [X -> X]]
  PROVE  \E f \in [Nat -> X] :
           /\ f[0] = first
           /\ \A n \in Nat : n # 0 => f[n] = step[n][f[n - 1]]
           /\ Iterates(f, first, step)
<1>1. PICK f : Iterates(f, first, step)
  BY IteratesExists
<1> DEFINE S == {n \in Nat : f[n] \in X}
<1>2. f[0] = first /\ \A n \in Nat : n # 0 => f[n] = step[n][f[n - 1]]
  BY <1>1 DEF Iterates
<1>3. 0 \in S
  BY <1>2
<1>4. ASSUME NEW n \in Nat \ {0}, n - 1 \in S
      PROVE  n \in S
  BY <1>2, <1>4
<1>5. Nat \subseteq S
  <2> HIDE DEF S
  <2> QED
    BY <1>3, <1>4, Counting
<1>6. f \in [Nat -> X]
  BY <1>1, <1>5 DEF Iterates
<1> QED
  BY <1>1, <1>2, <1>6

----------------------------------------------------------------------------
(* The table of length fields *)

\* A finite set of numbers can be put in order.
LEMMA AscendingExists ==
  ASSUME NEW S, S \subseteq Nat, IsFiniteSet(S)
  PROVE  \E s \in [1 .. Cardinality(S) -> S] : Ascends(s, S)
<1> DEFINE Ordered(T) == \E s \in [1 .. Cardinality(T) -> T] : Ascends(s, T)
           N == {n \in Nat : \A T \in SUBSET Nat : IsFiniteSet(T) /\ Cardinality(T) = n => Ordered(T)}
<1>1. 0 \in N
  <2> SUFFICES ASSUME NEW T \in SUBSET Nat, IsFiniteSet(T), Cardinality(T) = 0
               PROVE  Ordered(T)
    OBVIOUS
  <2>1. T = {}
    BY FS_EmptySet
  <2> DEFINE s == [i \in 1 .. 0 |-> 0]
  <2>2. s \in [1 .. Cardinality(T) -> T] /\ Ascends(s, T)
    BY <2>1 DEF Ascends, Range
  <2> QED
    BY <2>2
<1>2. ASSUME NEW n \in Nat \ {0}, n - 1 \in N
      PROVE  n \in N
  <2> SUFFICES ASSUME NEW T \in SUBSET Nat, IsFiniteSet(T), Cardinality(T) = n
               PROVE  Ordered(T)
    OBVIOUS
  <2>1. T # {}
    BY FS_EmptySet
  <2>2. PICK least \in T : \A y \in T : least <= y
    BY <2>1, LeastNumber
  <2> DEFINE U == T \ {least}
  <2>3. IsFiniteSet(U) /\ Cardinality(U) = n - 1 /\ U \in SUBSET Nat
    BY FS_RemoveElement
  <2>4. PICK u \in [1 .. n - 1 -> U] : Ascends(u, U)
    <3> HIDE DEF U
    <3> QED
      BY <1>2, <2>3
  <2> DEFINE s == [i \in 1 .. n |-> IF i = 1 THEN least ELSE u[i - 1]]
  <2>5. \A i \in 1 .. n : i # 1 => i - 1 \in 1 .. n - 1 /\ s[i] = u[i - 1] /\ s[i] \in U
    OBVIOUS
  <2>6. s[1] = least /\ s \in [1 .. n -> T] /\ DOMAIN s = 1 .. n
    BY <2>5
  <2>7. \A y \in U : least < y
    BY <2>2
  <2>8. ASSUME NEW i \in 1 .. n, NEW j \in 1 .. n, i < j
        PROVE  s[i] < s[j]
    <3>1. j # 1
      BY <2>8
    <3>2. CASE i = 1
      BY <2>5, <2>6, <2>7, <3>1, <3>2
    <3>3. CASE i # 1
      <4>1. i - 1 \in 1 .. n - 1 /\ j - 1 \in 1 .. n - 1 /\ i - 1 < j - 1
        BY <2>8, <3>1, <3>3
      <4>2. u[i - 1] < u[j - 1]
        BY <2>4, <4>1 DEF Ascends
      <4> QED
        BY <3>1, <3>3, <4>2
    <3> QED
      BY <3>2, <3>3
  <2>9. Range(s) = T
    <3>1. Range(s) \subseteq T
      BY <2>6 DEF Range
    <3>2. ASSUME NEW y \in T
          PROVE  y \in Range(s)
      <4>1. CASE y = least
        BY <2>6, <4>1 DEF Range
      <4>2. CASE y # least
        <5>1. PICK i \in 1 .. n - 1 : u[i] = y
          BY <2>4, <4>2 DEF Ascends, Range
        <5>2. i + 1 \in 1 .. n /\ s[i + 1] = y
          BY <5>1
        <5> HIDE DEF s
        <5> QED
          BY <2>6, <5>2 DEF Range
      <4> QED
        BY <4>1, <4>2
    <3> HIDE DEF s
    <3> QED
      BY <3>1, <3>2
  <2>10. Ascends(s, T)
    <3> HIDE DEF s
    <3> QED
      BY <2>6, <2>8, <2>9 DEF Ascends
  <2> HIDE DEF s
  <2> QED
    BY <2>6, <2>10
<1>3. Nat \subseteq N
  <2> HIDE DEF N
  <2> QED
    BY <1>1, <1>2, Counting
<1>4. Cardinality(S) \in Nat
  BY FS_CardinalityType
<1> QED
  BY <1>3, <1>4

\* What a search in order says of every place: below it is less, from it on not.
Bounds(at, first, last, tag) ==
  /\ at \in first .. last
  /\ \A i \in first .. at - 1 : lengths[i] < tag
  /\ \A i \in at .. last - 1 : tag <= lengths[i]

LEMMA LowerBoundResult ==
  ASSUME NEW first \in Nat, NEW last \in Nat, first <= last, NEW tag \in Int,
         \A i \in first .. last - 1 : lengths[i] \in Int,
         \A i, j \in first .. last - 1 : i < j => lengths[i] < lengths[j]
  PROVE  Bounds(LowerBound(first, last, tag), first, last, tag)
<1> DEFINE X == [lo : Nat, hi : Nat]
           mid(r) == (r.lo + r.hi) \div 2
           next(r) == IF r.lo >= r.hi THEN r
                      ELSE IF lengths[mid(r)] < tag THEN [r EXCEPT !.lo = mid(r) + 1]
                      ELSE [r EXCEPT !.hi = mid(r)]
           start == [lo |-> first, hi |-> last]
           step == [n \in Nat |-> [r \in X |-> next(r)]]
<1>1. \A r \in X : mid(r) \in Nat /\ (r.lo < r.hi => r.lo <= mid(r) /\ mid(r) < r.hi)
  OBVIOUS
<1>2. ASSUME NEW r \in X
      PROVE  next(r) \in X
  <2>1. mid(r) \in Nat
    BY <1>1
  <2> HIDE DEF mid
  <2> QED
    BY <2>1
<1>3. start \in X /\ step \in [Nat -> [X -> X]]
  <2> HIDE DEF next, X
  <2>1. step \in [Nat -> [X -> X]]
    BY <1>2
  <2> QED
    BY <2>1 DEF X
<1>4. PICK f \in [Nat -> X] :
        /\ f[0] = start
        /\ \A n \in Nat : n # 0 => f[n] = step[n][f[n - 1]]
        /\ Iterates(f, start, step)
  <2> HIDE DEF X, start, step
  <2> QED
    BY <1>3, IteratesIn
<1> DEFINE IsRange(g) == g = [n \in Nat |-> IF n = 0 THEN start ELSE next(g[n - 1])]
           range == CHOOSE g : IsRange(g)
<1>5. IsRange(f)
  <2>1. \A n \in Nat : n # 0 => f[n] = next(f[n - 1])
    <3> HIDE DEF next, start, X
    <3> QED
      BY <1>4
  <2>2. f = [n \in Nat |-> f[n]]
    <3> HIDE DEF X, next, start, step
    <3> QED
      BY <1>4
  <2> HIDE DEF next, start, X
  <2> QED
    BY <1>4, <2>1, <2>2
<1>6. IsRange(range)
  <2> HIDE DEF IsRange
  <2> QED
    BY <1>5
<1>7. LowerBound(first, last, tag) = range[last - first].lo
  BY DEF LowerBound
<1> DEFINE Left(r) ==
             /\ r \in X /\ first <= r.lo /\ r.lo <= r.hi /\ r.hi <= last
             /\ \A i \in first .. r.lo - 1 : lengths[i] < tag
             /\ \A i \in r.hi .. last - 1 : tag <= lengths[i]
           S == {n \in Nat : Left(range[n]) /\ (range[n].hi - range[n].lo <= last - first - n
                                                  \/ range[n].lo = range[n].hi)}
<1>8. range[0] = start /\ \A n \in Nat : n # 0 => range[n] = next(range[n - 1])
  <2> HIDE DEF next, start, range
  <2> QED
    BY <1>6
<1> HIDE DEF range
<1>9. 0 \in S
  <2>1. range[0].lo = first /\ range[0].hi = last /\ range[0] \in X
    BY <1>8
  <2> HIDE DEF X
  <2> QED
    BY <2>1
<1>13. ASSUME NEW r, Left(r)
      PROVE  r.lo \in Nat /\ r.hi \in Nat /\ r.lo <= r.hi /\ r.lo \in first .. last /\ r.hi \in first .. last
  BY <1>13
<1>10. ASSUME NEW r, Left(r), r.lo < r.hi
       PROVE  Left(next(r)) /\ next(r).hi - next(r).lo < r.hi - r.lo
  <2> DEFINE m == mid(r)
  <2>1. m \in first .. last - 1 /\ r.lo <= m /\ m < r.hi /\ m \in Nat
    <3>1. m \in Nat /\ r.lo <= m /\ m < r.hi
      BY <1>1, <1>10
    <3> HIDE DEF m
    <3> QED
      BY <1>10, <3>1
  <2> HIDE DEF m, mid
  <2>2. lengths[m] \in Int
    BY <2>1
  <2>3. CASE lengths[m] < tag
    <3>1. next(r) = [r EXCEPT !.lo = m + 1]
      BY <1>10, <2>3 DEF m
    <3> HIDE DEF next
    <3>2. next(r) \in X /\ next(r).lo = m + 1 /\ next(r).hi = r.hi
      <4>1. r \in X /\ m + 1 \in Nat
        BY <1>10, <2>1
      <4> QED
        BY <3>1, <4>1
    <3>3. \A i \in first .. (m + 1) - 1 : lengths[i] < tag
      <4> SUFFICES ASSUME NEW i \in first .. (m + 1) - 1 PROVE lengths[i] < tag
        OBVIOUS
      <4>3. i \in first .. m
        BY <2>1
      <4>1. i \in first .. last - 1 /\ lengths[i] \in Int
        BY <2>1, <4>3
      <4>2. i = m \/ lengths[i] < lengths[m]
        BY <2>1, <4>1, <4>3
      <4> QED
        BY <2>2, <2>3, <4>1, <4>2
    <3>4. Left(next(r))
      <4> HIDE DEF X
      <4>1. first <= next(r).lo /\ next(r).lo <= next(r).hi /\ next(r).hi <= last
        BY <1>10, <1>13, <2>1, <3>2
      <4>2. \A i \in first .. next(r).lo - 1 : lengths[i] < tag
        BY <1>10, <3>2, <3>3
      <4>3. \A i \in next(r).hi .. last - 1 : tag <= lengths[i]
        BY <1>10, <3>2, <3>3
      <4> QED
        BY <3>2, <4>1, <4>2, <4>3
    <3>5. next(r).hi - next(r).lo < r.hi - r.lo
      <4> HIDE DEF Left
      <4> QED
        BY <1>10, <1>13, <2>1, <3>2
    <3> QED
      BY <3>4, <3>5
  <2>4. CASE ~(lengths[m] < tag)
    <3>1. next(r) = [r EXCEPT !.hi = m]
      BY <1>10, <2>4 DEF m
    <3> HIDE DEF next
    <3>2. next(r) \in X /\ next(r).lo = r.lo /\ next(r).hi = m
      BY <1>10, <2>1, <3>1
    <3>3. \A i \in m .. last - 1 : tag <= lengths[i]
      <4> SUFFICES ASSUME NEW i \in m .. last - 1 PROVE tag <= lengths[i]
        OBVIOUS
      <4>1. i \in first .. last - 1 /\ lengths[i] \in Int
        BY <2>1
      <4>2. i = m \/ lengths[m] < lengths[i]
        BY <2>1, <4>1
      <4> QED
        BY <2>2, <2>4, <4>1, <4>2
    <3>4. Left(next(r))
      <4> HIDE DEF X
      <4>1. first <= next(r).lo /\ next(r).lo <= next(r).hi /\ next(r).hi <= last
        BY <1>10, <1>13, <2>1, <3>2
      <4>2. \A i \in first .. next(r).lo - 1 : lengths[i] < tag
        BY <1>10, <3>2, <3>3
      <4>3. \A i \in next(r).hi .. last - 1 : tag <= lengths[i]
        BY <1>10, <3>2, <3>3
      <4> QED
        BY <3>2, <4>1, <4>2, <4>3
    <3>5. next(r).hi - next(r).lo < r.hi - r.lo
      <4> HIDE DEF Left
      <4> QED
        BY <1>10, <1>13, <2>1, <3>2
    <3> QED
      BY <3>4, <3>5
  <2> QED
    BY <2>3, <2>4
<1>11. ASSUME NEW n \in Nat \ {0}, n - 1 \in S
       PROVE  n \in S
  <2>1. PICK r : /\ range[n] = next(r) /\ Left(r)
                 /\ r.hi - r.lo <= last - first - (n - 1) \/ r.lo = r.hi
    <3> HIDE DEF Left, next
    <3> QED
      BY <1>8, <1>11
  <2>2. CASE r.lo < r.hi
    <3>1. Left(next(r)) /\ next(r).hi - next(r).lo < r.hi - r.lo
      <4> HIDE DEF next, Left
      <4> QED
        BY <1>10, <2>1, <2>2
    <3>2. next(r).hi - next(r).lo <= last - first - n \/ next(r).lo = next(r).hi
      <4>1. /\ next(r).lo \in Nat /\ next(r).hi \in Nat /\ next(r).lo <= next(r).hi
            /\ r.lo \in Nat /\ r.hi \in Nat
        <5> HIDE DEF next, Left
        <5> QED
          BY <1>13, <2>1, <3>1
      <4> HIDE DEF next, Left
      <4>2. PICK u \in Int, v \in Int : u = next(r).hi - next(r).lo /\ v = r.hi - r.lo
        BY <4>1
      <4>3. u < v /\ v <= last - first - (n - 1)
        BY <2>1, <2>2, <3>1, <4>1, <4>2
      <4>4. u <= last - first - n
        BY <4>2, <4>3
      <4> QED
        BY <4>2, <4>4
    <3> HIDE DEF next, Left
    <3> QED
      BY <2>1, <3>1, <3>2
  <2>3. CASE ~(r.lo < r.hi)
    <3>1. r.lo = r.hi
      <4>1. r.lo \in Nat /\ r.hi \in Nat /\ r.lo <= r.hi
        <5> HIDE DEF Left
        <5> QED
          BY <1>13, <2>1
      <4> HIDE DEF Left, X, next, S
      <4> QED
        BY <2>3, <4>1
    <3>2. next(r) = r
      <4>1. r.lo >= r.hi
        BY <1>13, <2>1, <3>1
      <4> QED
        BY <4>1
    <3> HIDE DEF next, Left
    <3> QED
      BY <2>1, <3>1, <3>2
  <2> QED
    BY <2>2, <2>3
<1>12. Nat \subseteq S
  <2> HIDE DEF S
  <2> QED
    BY <1>9, <1>11, Counting
<1>14. PICK r : /\ r = range[last - first] /\ Left(r)
                /\ r.hi - r.lo <= last - first - (last - first) \/ r.lo = r.hi
  <2>1. last - first \in Nat
    OBVIOUS
  <2> HIDE DEF Left
  <2> QED
    BY <1>12, <2>1
<1>15. r.lo = r.hi
  <2> HIDE DEF Left, X, next, S
  <2>1. r.lo \in Nat /\ r.hi \in Nat /\ r.lo <= r.hi
    BY <1>13, <1>14
  <2> QED
    BY <1>14, <2>1
<1>16. Bounds(r.lo, first, last, tag)
  BY <1>14, <1>15 DEF Bounds
<1> QED
  BY <1>7, <1>14, <1>16

LEMMA SplitResult ==
  ASSUME lengths \in Seq(Nat),
         NEW split, split = CHOOSE n \in 1 .. Len(lengths) + 1 : IsSplit(n)
  PROVE  split \in 1 .. Len(lengths) + 1 /\ IsSplit(split)
<1> DEFINE size == Len(lengths)
           T == {n \in 1 .. size + 1 : n <= size => lengths[n] >= BitmapSize}
<1>1. size \in Nat /\ size + 1 \in T
  OBVIOUS
<1>2. T \subseteq Nat
  OBVIOUS
<1>3. PICK n \in T : \A m \in T : n <= m
  <2> HIDE DEF T
  <2> QED
    BY <1>1, <1>2, LeastNumber
<1>4. ASSUME NEW i \in 1 .. n - 1
      PROVE  lengths[i] < BitmapSize
  <2>1. i \in 1 .. size /\ i \notin T
    BY <1>1, <1>3
  <2>2. lengths[i] \in Nat
    BY <2>1
  <2> QED
    BY <2>1, <2>2, BitmapAssumption
<1>5. IsSplit(n) /\ n \in 1 .. size + 1
  BY <1>3, <1>4 DEF IsSplit
<1> HIDE DEF T
<1> QED
  BY <1>5

\* The reader finds in the table just what is in it.
LEMMA LookupResult ==
  ASSUME lengths \in Seq(Nat), \A i, j \in DOMAIN lengths : i < j => lengths[i] < lengths[j],
         NEW tag \in Int
  PROVE  InLengthTable(tag) <=> tag \in Range(lengths)
<1> DEFINE size == Len(lengths)
           split == CHOOSE n \in 1 .. size + 1 : IsSplit(n)
           lower == LowerBound(split, size + 1, tag)
<1>1. InLengthTable(tag) <=> IF tag < BitmapSize THEN \E i \in 1 .. split - 1 : lengths[i] = tag
                              ELSE lower <= size /\ lengths[lower] = tag
  BY DEF InLengthTable
<1>2. split \in 1 .. size + 1 /\ IsSplit(split)
  BY SplitResult
<1> HIDE DEF split
<1>3. size \in Nat /\ DOMAIN lengths = 1 .. size /\ \A i \in 1 .. size : lengths[i] \in Nat
  OBVIOUS
<1>4. \A i \in split .. size : lengths[i] >= BitmapSize
  <2> SUFFICES ASSUME NEW i \in split .. size PROVE lengths[i] >= BitmapSize
    OBVIOUS
  <2>1. split \in 1 .. size /\ i \in 1 .. size
    BY <1>2, <1>3
  <2>2. lengths[split] >= BitmapSize
    BY <1>2, <2>1 DEF IsSplit
  <2>3. i = split \/ lengths[split] < lengths[i]
    BY <1>3, <2>1
  <2>4. lengths[i] \in Nat /\ lengths[split] \in Nat
    BY <1>3, <2>1
  <2> QED
    BY <2>2, <2>3, <2>4, BitmapAssumption
<1>5. \A i \in 1 .. split - 1 : lengths[i] < BitmapSize
  BY <1>2 DEF IsSplit
<1>6. tag \in Range(lengths) <=> \E i \in 1 .. size : lengths[i] = tag
  BY <1>3 DEF Range
<1>7. CASE tag < BitmapSize
  <2>1. \A i \in 1 .. size : lengths[i] = tag => i \in 1 .. split - 1
    BY <1>2, <1>3, <1>4, <1>7, BitmapAssumption
  <2>2. \A i \in 1 .. split - 1 : i \in 1 .. size
    BY <1>2, <1>3
  <2> HIDE DEF size, lower
  <2> QED
    BY <1>1, <1>6, <1>7, <2>1, <2>2
<1>8. CASE ~(tag < BitmapSize)
  <2>1. Bounds(lower, split, size + 1, tag)
    <3>1. split \in Nat /\ size + 1 \in Nat /\ split <= size + 1
      BY <1>2, <1>3
    <3>2. (size + 1) - 1 = size
      BY <1>3
    <3>3. \A i \in split .. size : i \in 1 .. size
      BY <1>2, <1>3
    <3>4. \A i \in split .. size : lengths[i] \in Int
      BY <1>3, <3>3
    <3>5. \A i, j \in split .. size : i < j => lengths[i] < lengths[j]
      BY <1>3, <3>3
    <3> HIDE DEF size
    <3> QED
      BY <3>1, <3>2, <3>4, <3>5, LowerBoundResult
  <2> HIDE DEF lower
  <2>2. lower \in split .. size + 1
    BY <2>1 DEF Bounds
  <2>3. \A i \in split .. lower - 1 : lengths[i] < tag
    BY <2>1 DEF Bounds
  <2>4. \A i \in lower .. size : tag <= lengths[i]
    BY <1>3, <2>1 DEF Bounds
  <2>5. lower <= size => lower \in 1 .. size
    BY <1>2, <1>3, <2>2
  <2>6. ASSUME NEW i \in 1 .. size, lengths[i] = tag
        PROVE  lower <= size /\ lengths[lower] = tag
    <3>1. split <= i
      BY <1>2, <1>3, <1>5, <1>8, <2>6, BitmapAssumption
    <3>2. ~(i < lower)
      BY <1>2, <1>3, <2>2, <2>3, <2>6, <3>1
    <3>3. lower <= i /\ lower <= size /\ lower \in 1 .. size
      BY <1>2, <1>3, <2>2, <2>5, <3>2
    <3>4. lower = i \/ lengths[lower] < tag
      <4>1. \A j, k \in 1 .. size : j < k => lengths[j] < lengths[k]
        BY <1>3
      <4>2. lower = i \/ lower < i
        BY <1>3, <3>3
      <4> HIDE DEF size
      <4> QED
        BY <2>6, <3>3, <4>1, <4>2
    <3>5. tag <= lengths[lower] /\ lengths[lower] \in Nat
      BY <1>3, <2>4, <3>3
    <3> QED
      BY <2>6, <3>3, <3>4, <3>5
  <2> HIDE DEF size
  <2> QED
    BY <1>1, <1>6, <1>8, <2>5, <2>6
<1> QED
  BY <1>7, <1>8

DataLengths == {t \in DOMAIN fields : IsDataLength(t)}

LEMMA LengthsAscend ==
  ASSUME IsFiniteSet(DOMAIN fields), DOMAIN fields \subseteq Nat
  PROVE  Lengths \in Seq(DataLengths) /\ Ascends(Lengths, DataLengths)
<1> DEFINE S == DataLengths
<1>1. S \subseteq DOMAIN fields /\ S \subseteq Nat
  BY DEF DataLengths
<1>2. IsFiniteSet(S)
  BY <1>1, FS_Subset
<1>3. Cardinality(S) \in Nat
  BY <1>2, FS_CardinalityType
<1>4. \E s \in [1 .. Cardinality(S) -> S] : Ascends(s, S)
  <2> HIDE DEF S
  <2> QED
    BY <1>1, <1>2, AscendingExists
<1>5. Lengths = CHOOSE s \in [1 .. Cardinality(S) -> S] : Ascends(s, S)
  BY DEF Lengths, DataLengths
<1>6. Lengths \in [1 .. Cardinality(S) -> S] /\ Ascends(Lengths, S)
  <2> HIDE DEF S
  <2> QED
    BY <1>4, <1>5
<1> HIDE DEF S
<1>7. Lengths \in Seq(S)
  BY <1>3, <1>6
<1> QED
  BY <1>6, <1>7 DEF S

----------------------------------------------------------------------------
(* Names *)

\* The name, then the aliases.
LEMMA NamesResult ==
  ASSUME NEW x, NEW S, x.name \in S, x.aliases \in Seq(S)
  PROVE  /\ Names(x) \in Seq(S)
         /\ DOMAIN Names(x) = 1 .. Len(x.aliases) + 1
         /\ Names(x)[1] = x.name
         /\ \A i \in 1 .. Len(x.aliases) : Names(x)[i + 1] = x.aliases[i]
         /\ Range(Names(x)) = {x.name} \cup Range(x.aliases)
<1> DEFINE n == Len(x.aliases)
<1>1. n \in Nat /\ DOMAIN x.aliases = 1 .. n
  OBVIOUS
<1>2. Names(x) \in Seq(S) /\ Len(Names(x)) = n + 1 /\ DOMAIN Names(x) = 1 .. n + 1
  BY DEF Names
<1>3. Names(x)[1] = x.name
  BY DEF Names
<1>4. \A i \in 1 .. n : Names(x)[i + 1] = x.aliases[i]
  BY DEF Names
<1> HIDE DEF n
<1>5. Range(Names(x)) \subseteq {x.name} \cup Range(x.aliases)
  <2> SUFFICES ASSUME NEW i \in 1 .. n + 1, i # 1 PROVE Names(x)[i] \in Range(x.aliases)
    BY <1>2, <1>3 DEF Range
  <2>1. i - 1 \in 1 .. n /\ (i - 1) + 1 = i
    BY <1>1
  <2> QED
    BY <1>1, <1>4, <2>1 DEF Range
<1>6. {x.name} \cup Range(x.aliases) \subseteq Range(Names(x))
  <2>1. \A i \in 1 .. n : i + 1 \in 1 .. n + 1
    BY <1>1
  <2>2. 1 \in 1 .. n + 1
    BY <1>1
  <2>3. x.name \in Range(Names(x))
    BY <1>2, <1>3, <2>2 DEF Range
  <2>4. ASSUME NEW i \in 1 .. n
        PROVE  x.aliases[i] \in Range(Names(x))
    BY <1>2, <1>4, <2>1 DEF Range
  <2> QED
    BY <1>1, <2>3, <2>4 DEF Range
<1> QED
  BY <1>2, <1>3, <1>4, <1>5, <1>6 DEF n

\* What is declared once has one name.
LEMMA NamesBegin ==
  ASSUME NEW x, NEW entries, NEW p, x.name = entries[p].name, x.aliases = <<>>
  PROVE  NamesOf(x, entries, {p})
<1> DEFINE S == {x.name}
<1>1. x.name \in S /\ x.aliases \in Seq(S) /\ Len(x.aliases) = 0
  OBVIOUS
<1> HIDE DEF S
<1>2. DOMAIN Names(x) = 1 .. 0 + 1 /\ Range(Names(x)) = {x.name} \cup Range(x.aliases)
  BY <1>1, NamesResult
<1>3. Range(x.aliases) = {}
  BY DEF Range
<1>4. \A i, j \in DOMAIN Names(x) : ~(i < j)
  BY <1>2
<1> QED
  BY <1>2, <1>3, <1>4 DEF NamesOf

\* A name that is known changes nothing.
LEMMA NamesStay ==
  ASSUME NEW x, NEW entries, NEW places \in SUBSET Nat, NEW p \in Nat, NamesOf(x, entries, places),
         \A q \in places : q < p, entries[p].name \in Range(Names(x))
  PROVE  NamesOf(x, entries, places \cup {p})
<1> DEFINE names == Names(x)
           all == places \cup {p}
<1>1. /\ Range(names) = {entries[q].name : q \in places}
      /\ \A i, j \in DOMAIN names : i < j =>
           \E q \in places :
             entries[q].name = names[i] /\ \A r \in places : entries[r].name = names[j] => q < r
  BY DEF NamesOf
<1> HIDE DEF names
<1>2. Range(names) = {entries[q].name : q \in all}
  BY <1>1 DEF names
<1>3. ASSUME NEW i \in DOMAIN names, NEW j \in DOMAIN names, i < j
      PROVE  \E q \in all :
               entries[q].name = names[i] /\ \A r \in all : entries[r].name = names[j] => q < r
  <2>1. PICK q \in places :
          entries[q].name = names[i] /\ \A r \in places : entries[r].name = names[j] => q < r
    BY <1>1, <1>3
  <2> QED
    BY <2>1
<1> QED
  BY <1>2, <1>3 DEF NamesOf, names

\* A new one becomes the last.
LEMMA NamesAdd ==
  ASSUME NEW x, NEW S, x.name \in S, x.aliases \in Seq(S),
         NEW entries, NEW places \in SUBSET Nat, NEW p \in Nat, NamesOf(x, entries, places),
         \A q \in places : q < p, entries[p].name \notin Range(Names(x)), entries[p].name \in S,
         NEW y, y.name = x.name, y.aliases = Append(x.aliases, entries[p].name)
  PROVE  NamesOf(y, entries, places \cup {p})
<1> DEFINE names == Names(x)
           more == Names(y)
           new == entries[p].name
           n == Len(x.aliases)
           all == places \cup {p}
<1>1. /\ Range(names) = {entries[q].name : q \in places}
      /\ \A i, j \in DOMAIN names : i < j =>
           \E q \in places :
             entries[q].name = names[i] /\ \A r \in places : entries[r].name = names[j] => q < r
  BY DEF NamesOf
<1>2. /\ n \in Nat /\ DOMAIN names = 1 .. n + 1 /\ names[1] = x.name
      /\ \A i \in 1 .. n : names[i + 1] = x.aliases[i]
      /\ Range(names) = {x.name} \cup Range(x.aliases)
  BY NamesResult
<1>3. /\ y.aliases \in Seq(S) /\ Len(y.aliases) = n + 1 /\ y.aliases[n + 1] = new
      /\ \A i \in 1 .. n : y.aliases[i] = x.aliases[i]
  OBVIOUS
<1>4. /\ DOMAIN more = 1 .. (n + 1) + 1 /\ more[1] = y.name
      /\ \A i \in 1 .. n + 1 : more[i + 1] = y.aliases[i]
      /\ Range(more) = {y.name} \cup Range(y.aliases)
  BY <1>3, NamesResult
<1>5. Range(y.aliases) = Range(x.aliases) \cup {new}
  <2>1. DOMAIN y.aliases = 1 .. n + 1 /\ DOMAIN x.aliases = 1 .. n
    BY <1>3
  <2>2. 1 .. n + 1 = (1 .. n) \cup {n + 1}
    BY <1>2
  <2> HIDE DEF n, new
  <2>3. Range(y.aliases) = {y.aliases[i] : i \in 1 .. n} \cup {y.aliases[n + 1]}
    BY <2>1, <2>2 DEF Range
  <2>4. Range(x.aliases) = {x.aliases[i] : i \in 1 .. n}
    BY <2>1 DEF Range
  <2>5. {y.aliases[i] : i \in 1 .. n} = {x.aliases[i] : i \in 1 .. n}
    BY <1>3
  <2> QED
    BY <1>3, <2>3, <2>4, <2>5
<1> HIDE DEF names, more, new, n
<1>6. Range(more) = {entries[q].name : q \in all}
  <2>1. {entries[q].name : q \in all} = {entries[q].name : q \in places} \cup {new}
    BY DEF new
  <2> HIDE DEF all
  <2> QED
    BY <1>1, <1>2, <1>4, <1>5, <2>1
<1>7. \A i \in 1 .. n + 1 : more[i] = names[i]
  <2> SUFFICES ASSUME NEW i \in 1 .. n + 1, i # 1 PROVE more[i] = names[i]
    BY <1>2, <1>4
  <2>1. PICK k \in 1 .. n : i = k + 1
    <3>1. i - 1 \in 1 .. n /\ i = (i - 1) + 1
      BY <1>2
    <3> QED
      BY <3>1
  <2>2. k \in 1 .. n + 1
    BY <1>2
  <2>3. more[k + 1] = y.aliases[k]
    BY <1>4, <2>2
  <2>4. names[k + 1] = x.aliases[k] /\ y.aliases[k] = x.aliases[k]
    BY <1>2, <1>3
  <2> QED
    BY <2>1, <2>3, <2>4
<1>8. more[n + 2] = new
  BY <1>2, <1>3, <1>4
<1>9. ASSUME NEW i \in DOMAIN more, NEW j \in DOMAIN more, i < j
      PROVE  \E q \in all :
               entries[q].name = more[i] /\ \A r \in all : entries[r].name = more[j] => q < r
  <2>1. i \in 1 .. n + 1 /\ more[i] = names[i]
    BY <1>2, <1>4, <1>7, <1>9
  <2>2. CASE j \in 1 .. n + 1
    <3>1. PICK q \in places :
            entries[q].name = names[i] /\ \A r \in places : entries[r].name = names[j] => q < r
      BY <1>1, <1>2, <1>9, <2>1, <2>2
    <3>2. more[j] = names[j]
      BY <1>7, <2>2
    <3>3. \A r \in all : entries[r].name = names[j] => q < r
      BY <3>1
    <3> QED
      BY <2>1, <3>1, <3>2, <3>3
  <2>3. CASE j = n + 2
    <3>1. more[i] \in Range(names)
      BY <1>2, <2>1 DEF Range
    <3>2. PICK q \in places : entries[q].name = more[i]
      BY <1>1, <3>1
    <3>3. \A r \in places : entries[r].name # new
      BY <1>1 DEF new, names
    <3> QED
      BY <1>8, <2>3, <3>2, <3>3
  <2> QED
    BY <1>2, <1>4, <2>2, <2>3
<1> QED
  BY <1>6, <1>9 DEF NamesOf, more

----------------------------------------------------------------------------
(* Alternates *)

Contexts == Said("groups", "context")

\* The alternates have each of the first names added once, with the contexts
\* added under it.
Exactly(alternates, added) ==
  /\ \A i, j \in DOMAIN alternates : alternates[i].first = alternates[j].first => i = j
  /\ \A i \in DOMAIN alternates :
       alternates[i].contexts =
         {x \in Contexts : \E a \in added : a.first = alternates[i].first /\ x \in a.contexts}
  /\ {alternates[i].first : i \in DOMAIN alternates} = {a.first : a \in added}

LEMMA NothingAdded == Exactly(<<>>, {})
  BY DEF Exactly

LEMMA ContextsAdded ==
  ASSUME NEW alternates \in Seq(Alternates), NEW added, added \subseteq Alternates,
         Exactly(alternates, added), NEW new \in Alternates,
         NEW result, result = WithContexts(alternates, new.first, new.contexts)
  PROVE  /\ result \in Seq(Alternates)
         /\ Exactly(result, added \cup {new})
         /\ Len(result) >= 1 /\ Len(result) >= Len(alternates)
         /\ result[1].first = IF Len(alternates) = 0 THEN new.first ELSE alternates[1].first
<1> DEFINE first == new.first
           contexts == new.contexts
           n == Len(alternates)
           all == added \cup {new}
           Merged1(i) == IF alternates[i].first = first
                         THEN [alternates[i] EXCEPT !.contexts = @ \cup contexts] ELSE alternates[i]
           Of(name) == {x \in Contexts : \E a \in all : a.first = name /\ x \in a.contexts}
           OfAdded(name) == {x \in Contexts : \E a \in added : a.first = name /\ x \in a.contexts}
<1>1. /\ n \in Nat /\ DOMAIN alternates = 1 .. n
      /\ \A i \in 1 .. n : alternates[i] \in Alternates
  OBVIOUS
<1>2. contexts \in SUBSET Contexts /\ \A a \in Alternates : a.contexts \in SUBSET Contexts
  BY DEF Alternates, Contexts
<1>3. /\ \A i, j \in 1 .. n : alternates[i].first = alternates[j].first => i = j
      /\ \A i \in 1 .. n : alternates[i].contexts = OfAdded(alternates[i].first)
      /\ {alternates[i].first : i \in 1 .. n} = {a.first : a \in added}
  BY <1>1 DEF Exactly
<1>4. \A name : Of(name) = IF name = first THEN OfAdded(name) \cup contexts ELSE OfAdded(name)
  BY <1>2
<1>5. {a.first : a \in all} = {a.first : a \in added} \cup {first}
  OBVIOUS
<1> HIDE DEF n, contexts, first, Of, OfAdded
<1>6. CASE \E i \in DOMAIN alternates : alternates[i].first = first
  <2>1. result = [i \in 1 .. n |-> Merged1(i)]
    BY <1>1, <1>6 DEF WithContexts, first, contexts
  <2>2. ASSUME NEW i \in 1 .. n
        PROVE  /\ result[i] \in Alternates /\ result[i].first = alternates[i].first
               /\ result[i].contexts = Of(alternates[i].first)
    <3>1. result[i] = Merged1(i) /\ alternates[i] \in Alternates
      BY <1>1, <2>1
    <3>2. alternates[i].contexts = OfAdded(alternates[i].first)
      BY <1>3
    <3>3. CASE alternates[i].first = first
      <4>1. result[i] = [alternates[i] EXCEPT !.contexts = @ \cup contexts]
        BY <3>1, <3>3
      <4>2. result[i] \in Alternates /\ result[i].first = alternates[i].first
        BY <1>2, <3>1, <4>1 DEF Alternates, Contexts
      <4>3. result[i].contexts = alternates[i].contexts \cup contexts
        BY <3>1, <4>1 DEF Alternates
      <4> QED
        BY <1>4, <3>2, <3>3, <4>2, <4>3
    <3>4. CASE alternates[i].first # first
      <4>1. result[i] = alternates[i]
        BY <3>1, <3>4
      <4> QED
        BY <1>4, <3>1, <3>2, <3>4, <4>1
    <3> QED
      BY <3>3, <3>4
  <2>3. result \in Seq(Alternates) /\ Len(result) = n /\ DOMAIN result = 1 .. n
    <3>1. result \in [1 .. n -> Alternates]
      BY <2>1, <2>2
    <3> QED
      BY <1>1, <3>1
  <2>4. {result[i].first : i \in 1 .. n} = {a.first : a \in all}
    <3>1. {result[i].first : i \in 1 .. n} = {alternates[i].first : i \in 1 .. n}
      BY <2>2
    <3>2. first \in {alternates[i].first : i \in 1 .. n}
      BY <1>1, <1>6
    <3> QED
      BY <1>3, <1>5, <3>1, <3>2
  <2>5. Exactly(result, all)
    <3>1. \A i, j \in 1 .. n : result[i].first = result[j].first => i = j
      BY <1>3, <2>2
    <3>2. \A i \in 1 .. n : result[i].contexts = Of(result[i].first)
      BY <2>2
    <3> QED
      BY <2>3, <2>4, <3>1, <3>2 DEF Exactly, Of
  <2>6. n >= 1
    BY <1>1, <1>6
  <2>7. result[1].first = alternates[1].first
    BY <1>1, <2>2, <2>6
  <2> QED
    BY <1>1, <2>3, <2>5, <2>6, <2>7 DEF n
<1>7. CASE ~ \E i \in DOMAIN alternates : alternates[i].first = first
  <2>1. result = Append(alternates, new)
    <3>1. new = [first |-> first, contexts |-> contexts]
      BY DEF first, contexts, Alternates
    <3> QED
      BY <1>7, <3>1 DEF WithContexts, first, contexts
  <2>2. /\ result \in Seq(Alternates) /\ Len(result) = n + 1 /\ DOMAIN result = 1 .. n + 1
        /\ result[n + 1] = new /\ \A i \in 1 .. n : result[i] = alternates[i]
    BY <1>1, <2>1 DEF n
  <2>3. \A i \in 1 .. n : result[i].first # first
    BY <1>1, <1>7, <2>2
  <2>4. OfAdded(first) = {}
    <3>1. ASSUME NEW a \in added
          PROVE  a.first # first
      <4>1. a.first \in {alternates[i].first : i \in 1 .. n}
        BY <1>3
      <4>2. PICK i \in 1 .. n : a.first = alternates[i].first
        BY <4>1
      <4> QED
        BY <1>1, <1>7, <4>2
    <3> QED
      BY <3>1 DEF OfAdded
  <2>5. 1 .. n + 1 = (1 .. n) \cup {n + 1}
    BY <1>1
  <2>6. {result[i].first : i \in 1 .. n + 1} = {a.first : a \in all}
    <3>1. {result[i].first : i \in 1 .. n} = {alternates[i].first : i \in 1 .. n}
      BY <2>2
    <3>2. {result[i].first : i \in 1 .. n + 1} = {result[i].first : i \in 1 .. n} \cup {first}
      BY <2>2, <2>5 DEF first
    <3> QED
      BY <1>3, <1>5, <3>1, <3>2
  <2>7. Exactly(result, all)
    <3>1. \A i, j \in 1 .. n : result[i].first = result[j].first => i = j
      BY <1>3, <2>2
    <3>2. \A i, j \in 1 .. n + 1 : result[i].first = result[j].first => i = j
      BY <2>2, <2>3, <2>5, <3>1 DEF first
    <3>3. \A i \in 1 .. n : result[i].contexts = Of(result[i].first)
      BY <1>3, <1>4, <2>2, <2>3
    <3>4. result[n + 1].contexts = Of(result[n + 1].first)
      BY <1>4, <2>2, <2>4 DEF first, contexts
    <3>5. \A i \in 1 .. n + 1 : result[i].contexts = Of(result[i].first)
      BY <2>5, <3>3, <3>4
    <3> QED
      BY <2>2, <2>6, <3>2, <3>5 DEF Exactly, Of
  <2>8. result[1].first = IF n = 0 THEN first ELSE alternates[1].first
    <3>1. CASE n = 0
      BY <2>2, <3>1 DEF first
    <3>2. CASE n # 0
      BY <1>1, <2>2, <3>2
    <3> QED
      BY <3>1, <3>2
  <2> QED
    BY <1>1, <2>2, <2>7, <2>8 DEF n, first
<1> QED
  BY <1>6, <1>7

----------------------------------------------------------------------------
(* The search for the field behind a name *)

Hop(name) == IF IsComponent(name) THEN componentFirst[name] ELSE name

LEMMA ChaseSteps ==
  ASSUME NEW name
  PROVE  /\ Chase(name)[0] = name
         /\ \A n \in Nat : n # 0 => Chase(name)[n] = Hop(Chase(name)[n - 1])
<1> DEFINE X == {name} \cup DOMAIN componentFirst
                \cup {componentFirst[c] : c \in DOMAIN componentFirst}
           step == [n \in Nat |-> [x \in X |-> Hop(x)]]
           IsHop(f) == f = [n \in Nat |->
                             IF n = 0 THEN name
                             ELSE IF IsComponent(f[n - 1]) THEN componentFirst[f[n - 1]] ELSE f[n - 1]]
           hop == CHOOSE f : IsHop(f)
<1>1. name \in X /\ \A x \in X : Hop(x) \in X
  BY DEF Hop, IsComponent
<1>2. step \in [Nat -> [X -> X]]
  <2> HIDE DEF X
  <2> QED
    BY <1>1
<1>3. PICK f \in [Nat -> X] :
        /\ f[0] = name
        /\ \A n \in Nat : n # 0 => f[n] = step[n][f[n - 1]]
        /\ Iterates(f, name, step)
  <2> HIDE DEF X, step
  <2> QED
    BY <1>1, <1>2, IteratesIn
<1>4. \A n \in Nat : n # 0 => f[n] = Hop(f[n - 1])
  <2> HIDE DEF X
  <2> QED
    BY <1>3
<1>5. IsHop(f)
  <2>1. f = [n \in Nat |-> f[n]]
    <3> HIDE DEF X, step
    <3> QED
      BY <1>3
  <2> HIDE DEF X, step
  <2> QED
    BY <1>3, <1>4, <2>1 DEF Hop
<1>6. IsHop(hop)
  <2> HIDE DEF IsHop
  <2> QED
    BY <1>5
<1>7. Chase(name) = hop
  BY DEF Chase
<1> HIDE DEF hop, X, step
<1>8. hop[0] = name /\ \A n \in Nat : n # 0 => hop[n] = Hop(hop[n - 1])
  BY <1>6 DEF Hop
<1> QED
  BY <1>7, <1>8

\* The search comes by such names only, and ends at none or at one.
LEMMA LeafType ==
  ASSUME componentFirst \in [DOMAIN componentFirst -> Said("components", "first")],
         NEW name \in Firsts
  PROVE  /\ \A n \in Nat : Chase(name)[n] \in Firsts
         /\ Leaf(name) \in Firsts \cup {None}
         /\ AlternateLeaf(name) \in Firsts
<1> DEFINE hop == Chase(name)
           S == {n \in Nat : hop[n] \in Firsts}
<1>1. hop[0] = name /\ \A n \in Nat : n # 0 => hop[n] = Hop(hop[n - 1])
  BY ChaseSteps
<1>2. \A x \in Firsts : Hop(x) \in Firsts
  BY DEF Hop, IsComponent, Firsts
<1> HIDE DEF hop
<1>3. 0 \in S
  BY <1>1
<1>4. ASSUME NEW n \in Nat \ {0}, n - 1 \in S
      PROVE  n \in S
  BY <1>1, <1>2, <1>4
<1>5. Nat \subseteq S
  <2> HIDE DEF S
  <2> QED
    BY <1>3, <1>4, Counting
<1>6. MaxComponentDepth - 1 \in Nat
  BY DepthAssumption
<1>7. Leaf(name) = hop[MaxComponentDepth - 1] \/ Leaf(name) = None
  BY DEF Leaf, hop
<1>8. Leaf(name) \in Firsts \cup {None}
  BY <1>5, <1>6, <1>7
<1>9. AlternateLeaf(name) \in Firsts
  BY <1>8 DEF AlternateLeaf
<1> QED
  BY <1>5, <1>8, <1>9 DEF hop

\* Searches depend on the components only.
LEMMA LeafStays ==
  ASSUME UNCHANGED componentFirst
  PROVE  \A name : Leaf(name)' = Leaf(name) /\ AlternateLeaf(name)' = AlternateLeaf(name)
<1>1. \A name : Leaf(name)' = Leaf(name)
  BY DEF Leaf, Chase, IsComponent
<1> QED
  BY <1>1 DEF AlternateLeaf

----------------------------------------------------------------------------
(* Alternates with their fields found *)

LeafOf(a) == [first |-> AlternateLeaf(a.first), contexts |-> a.contexts]

LEMMA MergedResult ==
  ASSUME componentFirst \in [DOMAIN componentFirst -> Said("components", "first")],
         NEW alternates \in Seq(Alternates)
  PROVE  /\ Merged(alternates) \in Seq(Alternates)
         /\ Exactly(Merged(alternates), {LeafOf(alternates[i]) : i \in 1 .. Len(alternates)})
         /\ Len(alternates) >= 1 =>
              /\ Len(Merged(alternates)) >= 1
              /\ Merged(alternates)[1].first = AlternateLeaf(alternates[1].first)
<1> DEFINE size == Len(alternates)
           next(merged, n) == WithContexts(merged, LeafOf(alternates[n]).first, LeafOf(alternates[n]).contexts)
           step == [n \in Nat |->
                     [merged \in Seq(Alternates) |-> IF n \in 1 .. size THEN next(merged, n) ELSE merged]]
           IsMerging(f) == f = [n \in 0 .. size |-> IF n = 0 THEN <<>> ELSE next(f[n - 1], n)]
           leaves(n) == {LeafOf(alternates[i]) : i \in 1 .. n}
           merging == CHOOSE f : IsMerging(f)
<1>1. size \in Nat /\ \A n \in 1 .. size : alternates[n] \in Alternates
  OBVIOUS
<1>2. \A n \in 1 .. size : LeafOf(alternates[n]) \in Alternates
  <2> SUFFICES ASSUME NEW n \in 1 .. size PROVE LeafOf(alternates[n]) \in Alternates
    OBVIOUS
  <2>1. alternates[n].first \in Firsts /\ alternates[n].contexts \in SUBSET Said("groups", "context")
    BY <1>1 DEF Alternates, Firsts
  <2>2. AlternateLeaf(alternates[n].first) \in Firsts
    BY <2>1, LeafType
  <2> QED
    BY <2>1, <2>2 DEF LeafOf, Alternates, Firsts
<1>3. ASSUME NEW merged \in Seq(Alternates), NEW n \in 1 .. size, Exactly(merged, leaves(n - 1))
      PROVE  /\ next(merged, n) \in Seq(Alternates)
             /\ Exactly(next(merged, n), leaves(n))
             /\ Len(next(merged, n)) >= 1
             /\ next(merged, n)[1].first =
                  IF Len(merged) = 0 THEN LeafOf(alternates[n]).first ELSE merged[1].first
  <2>1. leaves(n - 1) \subseteq Alternates /\ leaves(n) = leaves(n - 1) \cup {LeafOf(alternates[n])}
    <3>1. 1 .. n = (1 .. n - 1) \cup {n}
      BY <1>1
    <3>2. \A i \in 1 .. n - 1 : i \in 1 .. size
      BY <1>1
    <3> QED
      BY <1>2, <3>1, <3>2
  <2>2. LeafOf(alternates[n]) \in Alternates
    BY <1>2
  <2> DEFINE result == next(merged, n)
  <2>3. /\ result \in Seq(Alternates)
        /\ Exactly(result, leaves(n - 1) \cup {LeafOf(alternates[n])})
        /\ Len(result) >= 1 /\ Len(result) >= Len(merged)
        /\ result[1].first = IF Len(merged) = 0 THEN LeafOf(alternates[n]).first ELSE merged[1].first
    <3> HIDE DEF leaves
    <3> QED
      BY <1>3, <2>1, <2>2, ContextsAdded
  <2> HIDE DEF leaves
  <2> QED
    BY <2>1, <2>3
<1>4. \E f : IsMerging(f)
  <2>0. \A n \in 0 .. size : n # 0 => n \in 1 .. size /\ n - 1 \in 0 .. size /\ n \in Nat /\ n - 1 \in Nat
    <3> HIDE DEF size
    <3> QED
      BY <1>1
  <2>1. ASSUME NEW merged \in Seq(Alternates), NEW n \in 1 .. size
        PROVE  next(merged, n) \in Seq(Alternates)
    <3> DEFINE first == LeafOf(alternates[n]).first
               contexts == LeafOf(alternates[n]).contexts
    <3>1. first \in Firsts /\ contexts \in SUBSET Contexts
      BY <1>2, <2>1 DEF Alternates, Firsts, Contexts
    <3> HIDE DEF first, contexts
    <3>2. \A i \in DOMAIN merged : merged[i] \in Alternates
      BY <2>1
    <3>3. \A i \in DOMAIN merged :
            [merged[i] EXCEPT !.contexts = @ \cup contexts] \in Alternates
      BY <3>1, <3>2 DEF Alternates, Contexts
    <3>4. [first |-> first, contexts |-> contexts] \in Alternates
      BY <3>1 DEF Alternates, Contexts, Firsts
    <3>5. WithContexts(merged, first, contexts) \in Seq(Alternates)
      <4>1. CASE \E i \in DOMAIN merged : merged[i].first = first
        <5> DEFINE m == [i \in 1 .. Len(merged) |->
                          IF merged[i].first = first
                          THEN [merged[i] EXCEPT !.contexts = @ \cup contexts] ELSE merged[i]]
        <5>1. m \in [1 .. Len(merged) -> Alternates]
          BY <2>1, <3>2, <3>3
        <5>2. m \in Seq(Alternates)
          <6> HIDE DEF m
          <6> QED
            BY <2>1, <5>1
        <5>3. DOMAIN merged = 1 .. Len(merged)
          BY <2>1
        <5>4. WithContexts(merged, first, contexts) = m
          BY <4>1, <5>3 DEF WithContexts
        <5> HIDE DEF m
        <5> QED
          BY <5>2, <5>4
      <4>2. CASE ~ \E i \in DOMAIN merged : merged[i].first = first
        <5>1. WithContexts(merged, first, contexts)
                = Append(merged, [first |-> first, contexts |-> contexts])
          BY <4>2 DEF WithContexts
        <5> QED
          BY <2>1, <3>4, <5>1
      <4> QED
        BY <4>1, <4>2
    <3> QED
      BY <3>5 DEF first, contexts
  <2>2. step \in [Nat -> [Seq(Alternates) -> Seq(Alternates)]] /\ <<>> \in Seq(Alternates)
    <3> HIDE DEF next
    <3> QED
      BY <2>1
  <2>3. PICK f \in [Nat -> Seq(Alternates)] :
          /\ f[0] = <<>>
          /\ \A n \in Nat : n # 0 => f[n] = step[n][f[n - 1]]
          /\ Iterates(f, <<>>, step)
    <3> HIDE DEF step
    <3> QED
      BY <2>2, IteratesIn
  <2> DEFINE g == [n \in 0 .. size |-> f[n]]
  <2>4. ASSUME NEW n \in 0 .. size
        PROVE  g[n] = IF n = 0 THEN <<>> ELSE next(g[n - 1], n)
    <3>1. CASE n = 0
      BY <1>1, <2>3, <3>1
    <3>2. CASE n # 0
      <4>1. n \in 1 .. size /\ n - 1 \in 0 .. size /\ n \in Nat /\ n - 1 \in Nat
        BY <2>0, <3>2
      <4>2. f[n] = next(f[n - 1], n)
        <5> HIDE DEF next, size
        <5> QED
          BY <2>3, <3>2, <4>1
      <4> HIDE DEF next, size
      <4> QED
        BY <3>2, <4>1, <4>2
    <3> QED
      BY <3>1, <3>2
  <2>5. g = [n \in 0 .. size |-> g[n]]
    OBVIOUS
  <2>6. IsMerging(g)
    <3> HIDE DEF g, next, size
    <3> QED
      BY <2>4, <2>5
  <2> QED
    BY <2>6
<1>5. IsMerging(merging)
  <2> HIDE DEF IsMerging
  <2> QED
    BY <1>4
<1>6. Merged(alternates) = merging[size]
  BY DEF Merged, LeafOf
<1> HIDE DEF merging
<1> DEFINE Good(n) == /\ merging[n] \in Seq(Alternates)
                      /\ Exactly(merging[n], leaves(n))
                      /\ n >= 1 => /\ Len(merging[n]) >= 1
                                   /\ merging[n][1].first = LeafOf(alternates[1]).first
           S == {n \in Nat : n <= size => Good(n)}
<1>7. merging[0] = <<>> /\ \A n \in 1 .. size : merging[n] = next(merging[n - 1], n)
  <2> HIDE DEF next
  <2>1. \A n \in 1 .. size : n \in 0 .. size /\ n # 0
    BY <1>1
  <2>2. 0 \in 0 .. size
    BY <1>1
  <2> HIDE DEF size
  <2> QED
    BY <1>5, <2>1, <2>2
<1>8. 0 \in S
  <2>1. leaves(0) = {}
    OBVIOUS
  <2>2. merging[0] \in Seq(Alternates) /\ Exactly(merging[0], {})
    <3> HIDE DEF next
    <3> QED
      BY <1>7, NothingAdded
  <2>3. Good(0)
    <3>1. Exactly(merging[0], leaves(0))
      BY <2>1, <2>2
    <3> HIDE DEF leaves
    <3> QED
      BY <2>2, <3>1
  <2> HIDE DEF Good
  <2> QED
    BY <2>3
<1>9. ASSUME NEW n \in Nat \ {0}, n - 1 \in S
      PROVE  n \in S
  <2> SUFFICES ASSUME n <= size PROVE Good(n)
    OBVIOUS
  <2>1. n \in 1 .. size /\ n - 1 \in Nat /\ n - 1 <= size
    BY <1>1
  <2>2. Good(n - 1)
    <3> HIDE DEF Good
    <3> QED
      BY <1>9, <2>1
  <2> DEFINE before == merging[n - 1]
  <2>3. merging[n] = next(before, n)
    <3> HIDE DEF next
    <3> QED
      BY <1>7, <2>1
  <2>4. before \in Seq(Alternates) /\ Exactly(before, leaves(n - 1))
    <3> HIDE DEF leaves
    <3> QED
      BY <2>2
  <2> HIDE DEF before
  <2>5. /\ merging[n] \in Seq(Alternates)
        /\ Exactly(merging[n], leaves(n))
        /\ Len(merging[n]) >= 1
        /\ merging[n][1].first =
             IF Len(before) = 0 THEN LeafOf(alternates[n]).first ELSE before[1].first
    <3> HIDE DEF next, leaves
    <3> QED
      BY <1>3, <2>1, <2>3, <2>4
  <2>6. merging[n][1].first = LeafOf(alternates[1]).first
    <3>1. CASE n = 1
      <4>1. before = <<>>
        BY <1>7, <3>1 DEF before
      <4> HIDE DEF leaves
      <4> QED
        BY <2>5, <3>1, <4>1
    <3>2. CASE n # 1
      <4>1. n - 1 >= 1 /\ Len(before) >= 1 /\ before[1].first = LeafOf(alternates[1]).first
        <5> HIDE DEF leaves
        <5> QED
          BY <2>1, <2>2, <3>2 DEF before
      <4> HIDE DEF leaves
      <4> QED
        BY <2>5, <4>1
    <3> QED
      BY <3>1, <3>2
  <2> HIDE DEF leaves
  <2> QED
    BY <2>5, <2>6
<1>10. Nat \subseteq S
  <2> HIDE DEF S
  <2> QED
    BY <1>8, <1>9, Counting
<1>11. Good(size)
  <2> HIDE DEF Good
  <2> QED
    BY <1>1, <1>10
<1>12. size >= 1 => LeafOf(alternates[1]).first = AlternateLeaf(alternates[1].first)
  BY DEF LeafOf
<1> QED
  BY <1>6, <1>11, <1>12

\* Merging the alternates for what was added gives those for its leaves.
LEMMA MergedExactly ==
  ASSUME componentFirst \in [DOMAIN componentFirst -> Said("components", "first")],
         NEW alternates \in Seq(Alternates), NEW added, Exactly(alternates, added)
  PROVE  Exactly(Merged(alternates), {LeafOf(a) : a \in added})
<1> DEFINE merged == Merged(alternates)
           size == Len(alternates)
           here == {LeafOf(alternates[i]) : i \in 1 .. size}
           leaves == {LeafOf(a) : a \in added}
<1>1. DOMAIN alternates = 1 .. size
  OBVIOUS
<1>2. Exactly(merged, here)
  BY MergedResult
<1>3. /\ \A i \in 1 .. size :
            alternates[i].contexts =
              {x \in Contexts : \E a \in added : a.first = alternates[i].first /\ x \in a.contexts}
      /\ {alternates[i].first : i \in 1 .. size} = {a.first : a \in added}
  BY <1>1 DEF Exactly
<1> HIDE DEF merged, size
<1>4. {a.first : a \in here} = {a.first : a \in leaves}
  <2>1. ASSUME NEW a \in here
        PROVE  \E b \in leaves : a.first = b.first
    <3>1. PICK i \in 1 .. size : a = LeafOf(alternates[i])
      OBVIOUS
    <3>2. alternates[i].first \in {b.first : b \in added}
      BY <1>3
    <3>3. PICK b \in added : alternates[i].first = b.first
      BY <3>2
    <3>4. LeafOf(alternates[i]).first = LeafOf(b).first
      BY <3>3 DEF LeafOf
    <3> QED
      BY <3>1, <3>4
  <2>2. ASSUME NEW b \in leaves
        PROVE  \E a \in here : a.first = b.first
    <3>1. PICK c \in added : b = LeafOf(c)
      OBVIOUS
    <3>2. c.first \in {alternates[i].first : i \in 1 .. size}
      BY <1>3
    <3>3. PICK i \in 1 .. size : alternates[i].first = c.first
      BY <3>2
    <3>4. LeafOf(alternates[i]).first = LeafOf(c).first
      BY <3>3 DEF LeafOf
    <3> QED
      BY <3>1, <3>4
  <2> HIDE DEF here, leaves
  <2> QED
    BY <2>1, <2>2
<1>5. ASSUME NEW name, NEW x \in Contexts
      PROVE  (\E a \in here : a.first = name /\ x \in a.contexts)
               <=> (\E a \in leaves : a.first = name /\ x \in a.contexts)
  <2>1. ASSUME NEW a \in here, a.first = name, x \in a.contexts
        PROVE  \E b \in leaves : b.first = name /\ x \in b.contexts
    <3>1. PICK i \in 1 .. size : a = LeafOf(alternates[i])
      BY <2>1
    <3>2. AlternateLeaf(alternates[i].first) = name /\ x \in alternates[i].contexts
      BY <2>1, <3>1 DEF LeafOf
    <3>3. PICK b \in added : b.first = alternates[i].first /\ x \in b.contexts
      BY <1>3, <3>2
    <3>4. LeafOf(b).first = name /\ x \in LeafOf(b).contexts
      BY <3>2, <3>3 DEF LeafOf
    <3> QED
      BY <3>4
  <2>2. ASSUME NEW b \in leaves, b.first = name, x \in b.contexts
        PROVE  \E a \in here : a.first = name /\ x \in a.contexts
    <3>1. PICK c \in added : b = LeafOf(c)
      BY <2>2
    <3>2. AlternateLeaf(c.first) = name /\ x \in c.contexts
      BY <2>2, <3>1 DEF LeafOf
    <3>3. c.first \in {alternates[i].first : i \in 1 .. size}
      BY <1>3
    <3>4. PICK i \in 1 .. size : c.first = alternates[i].first
      BY <3>3
    <3>5. x \in alternates[i].contexts
      BY <1>3, <3>2, <3>4
    <3>6. LeafOf(alternates[i]).first = name /\ x \in LeafOf(alternates[i]).contexts
      BY <3>2, <3>4, <3>5 DEF LeafOf
    <3> QED
      BY <3>6
  <2> QED
    BY <2>1, <2>2
<1> HIDE DEF here, leaves
<1>6. \A name : {x \in Contexts : \E a \in here : a.first = name /\ x \in a.contexts}
                 = {x \in Contexts : \E a \in leaves : a.first = name /\ x \in a.contexts}
  BY <1>5
<1>7. \A i \in DOMAIN merged :
        merged[i].contexts =
          {x \in Contexts : \E a \in leaves : a.first = merged[i].first /\ x \in a.contexts}
  BY <1>2, <1>6 DEF Exactly
<1>8. /\ \A i, j \in DOMAIN merged : merged[i].first = merged[j].first => i = j
      /\ {merged[i].first : i \in DOMAIN merged} = {a.first : a \in leaves}
  BY <1>2, <1>4 DEF Exactly
<1>9. Exactly(merged, leaves)
  BY <1>7, <1>8 DEF Exactly
<1> QED
  BY <1>9 DEF merged, leaves

----------------------------------------------------------------------------
(* The invariant *)

\* The type of a field is that of its first declaration.
FieldsRead ==
  /\ IsFiniteSet(DOMAIN fields)
  /\ \A tag \in DOMAIN fields : \E p \in FieldPlaces(tag) :
       /\ \A q \in FieldPlaces(tag) : p <= q
       /\ fields[tag].type = NormalizeType(spec["fields"][p].type)

\* What has been written, and what was read before.
PhasesKept ==
  /\ phase = "load" => lengths = <<>>
  /\ phase = "groups" => "-go" \in spec.args
  /\ phase \in {"groups", "done"} =>
       /\ ~Pending("fields") /\ ~Pending("messages")
       /\ spec.args # {"-go"} => lengths = Lengths

\* A component begins as its first declaration says.
ComponentsRead ==
  /\ \A name \in Said("components", "name") :
       (\E p \in 1 .. read["components"] : Declares(p, name)) => name \in DOMAIN componentFirst
  /\ \A name \in DOMAIN componentFirst : \E p \in 1 .. read["components"] :
       FirstDeclares(p, name) /\ componentFirst[name] = spec["components"][p].first

\* So does a group.
ReadPlaces(c) == {p \in Occurrences(c) : p <= read["groups"]}
GroupsRead ==
  /\ \A c \in Said("groups", "count") : ReadPlaces(c) # {} => c \in DOMAIN dedup
  /\ \A c \in DOMAIN dedup : \E p \in ReadPlaces(c) :
       /\ \A q \in ReadPlaces(c) : p <= q
       /\ dedup[c] = spec["groups"][p].first

\* Its alternates are what its occurrences name first, and in the end the fields
\* behind that.
AddedAt(p) ==
  [first |-> spec["groups"][p].first, contexts |-> {spec["groups"][p].context} \ {None}]
Added(c) == {AddedAt(p) : p \in ReadPlaces(c)}
Collected ==
  /\ DOMAIN conflicts = DOMAIN dedup
  /\ \A c \in DOMAIN dedup :
       /\ Exactly(conflicts[c], Added(c))
       /\ Len(conflicts[c]) >= 1 /\ conflicts[c][1].first = dedup[c]
Decided ==
  /\ ~Pending("components") /\ ~Pending("groups")
  /\ groups = [c \in Registered |-> Leaf(dedup[c])]
  /\ DOMAIN conflicts =
       {c \in Registered : \E a, b \in Added(c) : AlternateLeaf(a.first) # AlternateLeaf(b.first)}
  /\ \A c \in DOMAIN conflicts :
       /\ Exactly(conflicts[c], {LeafOf(a) : a \in Added(c)})
       /\ Len(conflicts[c]) >= 1 /\ conflicts[c][1].first = AlternateLeaf(dedup[c])
AlternatesRead == IF Finished THEN Decided ELSE Collected

IInv ==
  /\ spec \in Specs /\ TypeOK
  /\ FieldsRead /\ FieldNamesKept
  /\ MessageNamesKept
  /\ PhasesKept
  /\ ComponentsRead
  /\ GroupsRead /\ AlternatesRead

----------------------------------------------------------------------------
(* Reading *)

\* The documents have lengths, and fields have tags.
LEMMA SpecShape ==
  ASSUME spec \in Specs
  PROVE  /\ spec.args \subseteq {"-o", "-go"}
         /\ \A k \in Kinds : Len(spec[k]) \in Nat
         /\ \A i \in 1 .. Len(spec["fields"]) : spec["fields"][i].tag \in Int \ {None}
  BY SpecsAssumption

\* One entry is read, of one kind.
LEMMA VisitResult ==
  ASSUME spec \in Specs, ReadTypes, NEW kind \in Kinds, Visit(kind), UNCHANGED spec
  PROVE  /\ DOMAIN read' = Kinds
         /\ \A k \in Kinds : k # kind => read'[k] = read[k]
         /\ read'[kind] = read[kind] + 1
         /\ \A k \in Kinds : read[k] \in Nat /\ read'[k] \in 0 .. Len(spec[k])
         /\ read[kind] + 1 \in 1 .. Len(spec[kind])
<1>1. /\ read[kind] < Len(spec[kind])
      /\ read' = [read EXCEPT ![kind] = read[kind] + 1]
  BY DEF Visit, Pending
<1>2. \A k \in Kinds : Len(spec[k]) \in Nat
  BY SpecShape
<1>3. DOMAIN read = Kinds /\ \A k \in Kinds : read[k] \in 0 .. Len(spec[k])
  BY DEF ReadTypes
<1>4. DOMAIN read' = Kinds
  BY <1>1, <1>3
<1>5. \A k \in Kinds : read'[k] = IF k = kind THEN read[kind] + 1 ELSE read[k]
  BY <1>1, <1>3
<1>6. \A k \in Kinds : read[k] \in Nat
  BY <1>2, <1>3
<1>7. read[kind] + 1 \in 1 .. Len(spec[kind])
  BY <1>1, <1>2, <1>3
<1> QED
  BY <1>3, <1>4, <1>5, <1>6, <1>7

LEMMA SaidStays ==
  ASSUME UNCHANGED spec
  PROVE  /\ \A kind, key : Said(kind, key)' = Said(kind, key)
         /\ FieldRecords' = FieldRecords /\ MessageRecords' = MessageRecords
         /\ Firsts' = Firsts /\ Alternates' = Alternates
<1>1. \A kind, key : Said(kind, key)' = Said(kind, key)
  BY DEF Said
<1> QED
  BY <1>1 DEF FieldRecords, MessageRecords, Firsts, Alternates

LEMMA SaidResult ==
  ASSUME NEW kind, NEW i \in 1 .. Len(spec[kind]), NEW key, spec[kind][i][key] # None
  PROVE  spec[kind][i][key] \in Said(kind, key)
  BY DEF Said

----------------------------------------------------------------------------
(* Fields *)

TaggedField(i, tag) ==
  LET f == spec["fields"][i] IN f.tag = tag /\ f.name # None /\ f.type # None

\* A field read is the latest of the places of its tag.
LEMMA FieldPlacesGrow ==
  ASSUME spec \in Specs, ReadTypes, Visit("fields"), UNCHANGED spec,
         NEW n, n = read["fields"] + 1
  PROVE  /\ \A tag : FieldPlaces(tag) \in SUBSET Nat /\ \A q \in FieldPlaces(tag) : q < n
         /\ \A tag : TaggedField(n, tag) => FieldPlaces(tag)' = FieldPlaces(tag) \cup {n}
         /\ \A tag : ~TaggedField(n, tag) => FieldPlaces(tag)' = FieldPlaces(tag)
<1>1. read["fields"] \in Nat /\ read'["fields"] = read["fields"] + 1
  BY VisitResult DEF Kinds
<1>2. \A tag : FieldPlaces(tag) = {i \in 1 .. n - 1 : TaggedField(i, tag)}
  BY <1>1 DEF FieldPlaces, TaggedField
<1>3. \A tag : FieldPlaces(tag)' = {i \in 1 .. n : TaggedField(i, tag)}
  BY <1>1 DEF FieldPlaces, TaggedField
<1>4. n \in Nat /\ 1 .. n = (1 .. n - 1) \cup {n}
  BY <1>1
<1> QED
  BY <1>2, <1>3, <1>4

LEMMA FieldPlacesStay ==
  ASSUME UNCHANGED spec, read'["fields"] = read["fields"]
  PROVE  \A tag : FieldPlaces(tag)' = FieldPlaces(tag)
  BY DEF FieldPlaces

LEMMA FieldPlacesEmpty ==
  ASSUME spec \in Specs, ReadTypes, FieldNamesKept, NEW tag \in Int \ {None},
         tag > 0, tag \notin DOMAIN fields
  PROVE  FieldPlaces(tag) = {}
<1> SUFFICES ASSUME NEW p \in FieldPlaces(tag) PROVE FALSE
  OBVIOUS
<1>1. p \in 1 .. Len(spec["fields"]) /\ spec["fields"][p].tag = tag
  <2>1. read["fields"] \in 0 .. Len(spec["fields"]) /\ Len(spec["fields"]) \in Nat
    BY SpecShape DEF ReadTypes, Kinds
  <2> QED
    BY <2>1 DEF FieldPlaces
<1>2. tag \in Said("fields", "tag")
  BY <1>1, SaidResult
<1> QED
  BY <1>2 DEF FieldNamesKept

LEMMA WithAliasResult ==
  ASSUME NEW Name, NEW x, x.name \in Name, x.aliases \in Seq(Name), NEW name \in Name
  PROVE  /\ name \in Range(Names(x)) => WithAlias(x, name) = x
         /\ name \notin Range(Names(x)) =>
              WithAlias(x, name) = [x EXCEPT !.aliases = Append(x.aliases, name)]
<1>1. Range(Names(x)) = {x.name} \cup Range(x.aliases)
  BY NamesResult
<1> QED
  BY <1>1 DEF WithAlias

\* Of what has a name, a declaration more keeps the names in order.
LEMMA FieldAliased ==
  ASSUME NEW x \in FieldRecords, NEW places \in SUBSET Nat, NEW n \in Nat,
         \A q \in places : q < n, NamesOf(x, spec["fields"], places),
         spec["fields"][n].name \in Said("fields", "name")
  PROVE  /\ WithAlias(x, spec["fields"][n].name) \in FieldRecords
         /\ WithAlias(x, spec["fields"][n].name).type = x.type
         /\ NamesOf(WithAlias(x, spec["fields"][n].name), spec["fields"], places \cup {n})
<1> DEFINE Name == Said("fields", "name")
           new == spec["fields"][n].name
           y == [x EXCEPT !.aliases = Append(x.aliases, new)]
<1>1. x.name \in Name /\ x.aliases \in Seq(Name)
  BY DEF FieldRecords
<1>2. CASE new \in Range(Names(x))
  <2>1. WithAlias(x, new) = x
    BY <1>1, <1>2, WithAliasResult
  <2>2. NamesOf(x, spec["fields"], places \cup {n})
    BY <1>2, NamesStay
  <2> QED
    BY <2>1, <2>2
<1>3. CASE new \notin Range(Names(x))
  <2>1. WithAlias(x, new) = [x EXCEPT !.aliases = Append(x.aliases, new)]
    <3> HIDE DEF Name, new
    <3>1. new \in Name
      BY DEF Name, new
    <3> QED
      BY <1>1, <1>3, <3>1, WithAliasResult
  <2>2. Append(x.aliases, new) \in Seq(Name)
    BY <1>1
  <2>3. y.name = x.name /\ y.aliases = Append(x.aliases, new) /\ y.type = x.type /\ y \in FieldRecords
    BY <2>2 DEF FieldRecords
  <2> HIDE DEF y
  <2>4. NamesOf(y, spec["fields"], places \cup {n})
    BY <1>1, <1>3, <2>3, NamesAdd
  <2> QED
    BY <2>1, <2>3, <2>4 DEF y
<1> QED
  BY <1>2, <1>3

FieldsKept == FieldTypes /\ FieldsRead /\ FieldNamesKept

LEMMA LoadFieldKeeps ==
  ASSUME IInv, LoadField
  PROVE  FieldsKept'
<1> DEFINE n == read["fields"] + 1
           f == spec["fields"][n]
<1>1. /\ spec \in Specs /\ ReadTypes /\ FieldTypes /\ FieldsRead /\ FieldNamesKept
      /\ phase = "load" /\ lengths = <<>>
  BY DEF IInv, TypeOK, LoadField, PhasesKept
<1>2. Visit("fields") /\ Entry("fields") = f /\ UNCHANGED <<spec, lengths>>
  BY DEF LoadField, Entry
<1>3. n \in 1 .. Len(spec["fields"]) /\ n \in Nat
  <2>1. read["fields"] + 1 \in 1 .. Len(spec["fields"]) /\ read["fields"] \in Nat
    BY <1>1, <1>2, VisitResult DEF Kinds
  <2> QED
    BY <2>1
<1>4. f.tag \in Int \ {None}
  BY <1>1, <1>3, SpecShape
<1>5. /\ DOMAIN fields \subseteq Nat \ {0} /\ fields \in [DOMAIN fields -> FieldRecords]
      /\ IsFiniteSet(DOMAIN fields)
  BY <1>1 DEF FieldTypes, FieldsRead
<1>6. /\ \A tag : FieldPlaces(tag) \in SUBSET Nat /\ \A q \in FieldPlaces(tag) : q < n
      /\ \A tag : TaggedField(n, tag) => FieldPlaces(tag)' = FieldPlaces(tag) \cup {n}
      /\ \A tag : ~TaggedField(n, tag) => FieldPlaces(tag)' = FieldPlaces(tag)
  BY <1>1, <1>2, FieldPlacesGrow
<1>7. FieldRecords' = FieldRecords /\ Said("fields", "tag")' = Said("fields", "tag")
  BY <1>2, SaidStays
<1>8. lengths' \in Seq(DOMAIN fields')
  BY <1>1, <1>2
\* What FieldsKept' comes down to, a tag at a time.
<1> DEFINE KeptAt(tag) ==
             /\ tag \in Nat \ {0} /\ fields'[tag] \in FieldRecords
             /\ \E p \in FieldPlaces(tag)' :
                  /\ \A q \in FieldPlaces(tag)' : p <= q
                  /\ fields'[tag].type = NormalizeType(spec["fields"][p].type)
             /\ NamesOf(fields'[tag], spec["fields"], FieldPlaces(tag)')
<1>9. ASSUME IsFiniteSet(DOMAIN fields'), fields' = [tag \in DOMAIN fields' |-> fields'[tag]],
             \A tag \in DOMAIN fields' : KeptAt(tag),
             \A tag \in Said("fields", "tag") : tag > 0 /\ FieldPlaces(tag)' # {} => tag \in DOMAIN fields'
      PROVE  FieldsKept'
  <2>1. FieldTypes'
    BY <1>7, <1>8, <1>9 DEF FieldTypes
  <2>2. FieldsRead'
    BY <1>2, <1>9 DEF FieldsRead, NormalizeType
  <2>3. FieldNamesKept'
    BY <1>2, <1>7, <1>9 DEF FieldNamesKept
  <2> QED
    BY <2>1, <2>2, <2>3 DEF FieldsKept
\* A tag that is not declared again stays as it was.
<1>10. ASSUME NEW tag \in DOMAIN fields, fields'[tag] = fields[tag], ~TaggedField(n, tag)
       PROVE  KeptAt(tag)
  <2>1. FieldPlaces(tag)' = FieldPlaces(tag)
    BY <1>6, <1>10
  <2>2. /\ fields[tag] \in FieldRecords /\ tag \in Nat \ {0}
        /\ NamesOf(fields[tag], spec["fields"], FieldPlaces(tag))
    BY <1>1, <1>5 DEF FieldNamesKept
  <2>3. \E p \in FieldPlaces(tag) :
          /\ \A q \in FieldPlaces(tag) : p <= q
          /\ fields[tag].type = NormalizeType(spec["fields"][p].type)
    BY <1>1 DEF FieldsRead
  <2> QED
    BY <1>10, <2>1, <2>2, <2>3
<1>11. CASE Skipped(f)
  <2>1. fields' = fields
    BY <1>2, <1>11 DEF LoadField
  <2>2. ASSUME NEW tag, TaggedField(n, tag)
        PROVE  ~(tag > 0)
    BY <1>4, <1>11, <2>2 DEF Skipped, TaggedField
  <2>3. \A tag \in DOMAIN fields' : KeptAt(tag)
    <3> SUFFICES ASSUME NEW tag \in DOMAIN fields PROVE KeptAt(tag)
      BY <2>1
    <3>1. ~TaggedField(n, tag)
      BY <1>5, <2>2
    <3> HIDE DEF KeptAt
    <3> QED
      BY <1>10, <2>1, <3>1
  <2>4. \A tag \in Said("fields", "tag") : tag > 0 /\ FieldPlaces(tag)' # {} => tag \in DOMAIN fields'
    <3> SUFFICES ASSUME NEW tag \in Said("fields", "tag"), tag > 0, FieldPlaces(tag)' # {}
                 PROVE  tag \in DOMAIN fields
      BY <2>1
    <3>1. FieldPlaces(tag)' = FieldPlaces(tag)
      BY <1>6, <2>2
    <3> QED
      BY <1>1, <3>1 DEF FieldNamesKept
  <2>5. IsFiniteSet(DOMAIN fields') /\ fields' = [tag \in DOMAIN fields' |-> fields'[tag]]
    BY <1>5, <2>1
  <2> HIDE DEF KeptAt
  <2> QED
    BY <1>9, <2>3, <2>4, <2>5
<1>12. ASSUME ~Skipped(f)
       PROVE  /\ f.tag \in Nat \ {0} /\ TaggedField(n, f.tag)
              /\ \A tag : tag # f.tag => ~TaggedField(n, tag)
              /\ f.name \in Said("fields", "name") /\ f.type \in Said("fields", "type")
  <2>1. f.name # None /\ f.type # None /\ f.tag > 0
    BY <1>4, <1>12 DEF Skipped
  <2>2. f.name \in Said("fields", "name") /\ f.type \in Said("fields", "type")
    BY <1>3, <2>1, SaidResult
  <2> QED
    BY <1>4, <2>1, <2>2 DEF TaggedField
<1>13. CASE ~Skipped(f) /\ f.tag \in DOMAIN fields
  <2>0. PICK t : t = f.tag
    OBVIOUS
  <2> DEFINE places == FieldPlaces(t)
             x == fields[t]
             y == WithAlias(x, f.name)
  <2>1. fields' = [fields EXCEPT ![t] = y]
    BY <1>2, <1>13, <2>0 DEF LoadField
  <2>2. DOMAIN fields' = DOMAIN fields /\ fields'[t] = y
        /\ \A tag \in DOMAIN fields : tag # t => fields'[tag] = fields[tag]
    BY <1>5, <1>13, <2>0, <2>1
  <2>3. /\ t \in Nat \ {0} /\ TaggedField(n, t) /\ \A tag : tag # t => ~TaggedField(n, tag)
        /\ f.name \in Said("fields", "name")
    BY <1>12, <1>13, <2>0
  <2>4. places \in SUBSET Nat /\ (\A q \in places : q < n) /\ FieldPlaces(t)' = places \cup {n}
    BY <1>6, <2>3
  <2>5. x \in FieldRecords /\ NamesOf(x, spec["fields"], places)
    BY <1>1, <1>5, <1>13, <2>0 DEF FieldNamesKept
  <2>6. PICK p \in places :
          /\ \A q \in places : p <= q
          /\ x.type = NormalizeType(spec["fields"][p].type)
    BY <1>1, <1>13, <2>0 DEF FieldsRead
  <2> HIDE DEF x, places
  <2>7. y \in FieldRecords /\ y.type = x.type /\ NamesOf(y, spec["fields"], places \cup {n})
    BY <1>3, <2>3, <2>4, <2>5, FieldAliased
  <2> HIDE DEF y
  <2>8. KeptAt(t)
    <3>1. \A q \in places \cup {n} : p <= q
      BY <1>3, <2>4, <2>6
    <3> HIDE DEF f, n
    <3> QED
      BY <2>2, <2>3, <2>4, <2>6, <2>7, <3>1
  <2>9. \A tag \in DOMAIN fields' : KeptAt(tag)
    <3> HIDE DEF KeptAt
    <3> QED
      BY <1>10, <2>2, <2>3, <2>8
  <2>10. \A tag \in Said("fields", "tag") : tag > 0 /\ FieldPlaces(tag)' # {} => tag \in DOMAIN fields'
    <3> SUFFICES ASSUME NEW tag \in Said("fields", "tag"), tag > 0, FieldPlaces(tag)' # {}, tag # t
                 PROVE  tag \in DOMAIN fields
      BY <1>13, <2>0, <2>2
    <3>1. FieldPlaces(tag)' = FieldPlaces(tag)
      BY <1>6, <2>3
    <3> QED
      BY <1>1, <3>1 DEF FieldNamesKept
  <2>11. IsFiniteSet(DOMAIN fields') /\ fields' = [tag \in DOMAIN fields' |-> fields'[tag]]
    BY <1>5, <2>1, <2>2
  <2> HIDE DEF KeptAt
  <2> QED
    BY <1>9, <2>9, <2>10, <2>11
<1>14. CASE ~Skipped(f) /\ f.tag \notin DOMAIN fields
  <2>0. PICK t : t = f.tag
    OBVIOUS
  <2> DEFINE x == [name |-> f.name, type |-> NormalizeType(f.type), aliases |-> <<>>]
  <2>1. fields' = Emplaced(fields, t, x)
    BY <1>2, <1>14, <2>0 DEF LoadField
  <2>2. /\ t \in Nat \ {0} /\ TaggedField(n, t) /\ \A tag : tag # t => ~TaggedField(n, tag)
        /\ f.name \in Said("fields", "name") /\ f.type \in Said("fields", "type")
    BY <1>12, <1>14, <2>0
  <2>3. x \in FieldRecords
    BY <2>2 DEF FieldRecords, NormalizeType
  <2>4. FieldPlaces(t)' = {n}
    <3>1. FieldPlaces(t) = {}
      BY <1>1, <1>4, <1>14, <2>0, <2>2, FieldPlacesEmpty
    <3> QED
      BY <1>6, <2>2, <3>1
  <2>5. x.name = spec["fields"][n].name /\ x.aliases = <<>>
        /\ x.type = NormalizeType(spec["fields"][n].type)
    OBVIOUS
  <2> HIDE DEF x
  <2>6. NamesOf(x, spec["fields"], {n})
    BY <2>5, NamesBegin
  <2>7. /\ DOMAIN fields' = DOMAIN fields \cup {t} /\ fields'[t] = x
        /\ \A tag \in DOMAIN fields : fields'[tag] = fields[tag]
        /\ fields' = [tag \in DOMAIN fields' |-> fields'[tag]]
    BY <1>14, <2>0, <2>1 DEF Emplaced
  <2>8. KeptAt(t)
    <3> HIDE DEF f, n
    <3> QED
      BY <1>3, <2>2, <2>3, <2>4, <2>5, <2>6, <2>7 DEF f
  <2>9. \A tag \in DOMAIN fields' : KeptAt(tag)
    <3> HIDE DEF KeptAt
    <3> QED
      BY <1>10, <1>14, <2>0, <2>2, <2>7, <2>8
  <2>10. \A tag \in Said("fields", "tag") : tag > 0 /\ FieldPlaces(tag)' # {} => tag \in DOMAIN fields'
    <3> SUFFICES ASSUME NEW tag \in Said("fields", "tag"), tag > 0, FieldPlaces(tag)' # {}, tag # t
                 PROVE  tag \in DOMAIN fields
      BY <2>7
    <3>1. FieldPlaces(tag)' = FieldPlaces(tag)
      BY <1>6, <2>2
    <3> QED
      BY <1>1, <3>1 DEF FieldNamesKept
  <2>11. IsFiniteSet(DOMAIN fields')
    BY <1>5, <2>7, FS_AddElement
  <2> HIDE DEF KeptAt
  <2> QED
    BY <1>9, <2>7, <2>9, <2>10, <2>11
<1> QED
  BY <1>11, <1>13, <1>14

LEMMA FieldsStay ==
  ASSUME FieldsKept, UNCHANGED <<spec, fields>>, read'["fields"] = read["fields"],
         lengths' \in Seq(DOMAIN fields)
  PROVE  FieldsKept'
<1>1. FieldRecords' = FieldRecords /\ Said("fields", "tag")' = Said("fields", "tag")
  BY SaidStays
<1>2. \A tag : FieldPlaces(tag)' = FieldPlaces(tag)
  BY FieldPlacesStay
<1>3. FieldTypes'
  BY <1>1 DEF FieldsKept, FieldTypes
<1>4. FieldsRead'
  BY <1>2 DEF FieldsKept, FieldsRead, NormalizeType
<1>5. FieldNamesKept'
  BY <1>1, <1>2 DEF FieldsKept, FieldNamesKept
<1> QED
  BY <1>3, <1>4, <1>5 DEF FieldsKept

----------------------------------------------------------------------------
(* Messages *)

\* The places up to m at which some entries declare a value, and messages that
\* have the names given there.
Declaring(entries, m, value) ==
  {i \in 1 .. m : entries[i].value = value /\ entries[i].name # None}
Named(list, entries, values, m) ==
  /\ \A i \in DOMAIN list : NamesOf(list[i], entries, Declaring(entries, m, list[i].value))
  /\ \A value \in values :
       Declaring(entries, m, value) # {} => \E i \in DOMAIN list : list[i].value = value
  /\ \A i, j \in DOMAIN list : list[i].value = list[j].value => i = j

LEMMA NamedIsKept ==
  MessageNamesKept <=> Named(messages, spec["messages"], Said("messages", "value"), read["messages"])
<1>1. \A value : MessagePlaces(value) = Declaring(spec["messages"], read["messages"], value)
  BY DEF MessagePlaces, Declaring
<1> QED
  BY <1>1 DEF MessageNamesKept, Named

LEMMA NamedIsKeptNext ==
  MessageNamesKept'
    <=> Named(messages', spec'["messages"], Said("messages", "value")', read'["messages"])
  BY DEF MessageNamesKept, Named, MessagePlaces, Declaring

LEMMA DeclaringGrows ==
  ASSUME NEW entries, NEW n \in Nat \ {0}
  PROVE  /\ \A value : /\ Declaring(entries, n - 1, value) \in SUBSET Nat
                       /\ \A q \in Declaring(entries, n - 1, value) : q < n
         /\ \A value : entries[n].value = value /\ entries[n].name # None =>
              Declaring(entries, n, value) = Declaring(entries, n - 1, value) \cup {n}
         /\ \A value : ~(entries[n].value = value /\ entries[n].name # None) =>
              Declaring(entries, n, value) = Declaring(entries, n - 1, value)
<1>1. 1 .. n = (1 .. n - 1) \cup {n} /\ 1 .. n - 1 \subseteq Nat /\ \A q \in 1 .. n - 1 : q < n
  OBVIOUS
<1> QED
  BY <1>1 DEF Declaring

LEMMA MessageAliased ==
  ASSUME NEW x \in MessageRecords, NEW places \in SUBSET Nat, NEW n \in Nat,
         \A q \in places : q < n, NEW entries, NamesOf(x, entries, places),
         entries[n].name \in Said("messages", "name")
  PROVE  /\ WithAlias(x, entries[n].name) \in MessageRecords
         /\ WithAlias(x, entries[n].name).value = x.value
         /\ NamesOf(WithAlias(x, entries[n].name), entries, places \cup {n})
<1> DEFINE Name == Said("messages", "name")
           new == entries[n].name
           y == [x EXCEPT !.aliases = Append(x.aliases, new)]
<1>1. x.name \in Name /\ x.aliases \in Seq(Name)
  BY DEF MessageRecords
<1>2. CASE new \in Range(Names(x))
  <2>1. WithAlias(x, new) = x
    BY <1>1, <1>2, WithAliasResult
  <2>2. NamesOf(x, entries, places \cup {n})
    BY <1>2, NamesStay
  <2> QED
    BY <2>1, <2>2
<1>3. CASE new \notin Range(Names(x))
  <2>1. WithAlias(x, new) = [x EXCEPT !.aliases = Append(x.aliases, new)]
    <3> HIDE DEF Name, new
    <3>1. new \in Name
      BY DEF Name, new
    <3> QED
      BY <1>1, <1>3, <3>1, WithAliasResult
  <2>2. Append(x.aliases, new) \in Seq(Name)
    BY <1>1
  <2>3. y.name = x.name /\ y.aliases = Append(x.aliases, new) /\ y.value = x.value /\ y \in MessageRecords
    BY <2>2 DEF MessageRecords
  <2> HIDE DEF y
  <2>4. NamesOf(y, entries, places \cup {n})
    BY <1>1, <1>3, <2>3, NamesAdd
  <2> QED
    BY <2>1, <2>3, <2>4 DEF y
<1> QED
  BY <1>2, <1>3

\* An entry more, and what it makes of the messages.
WithMessage(list, m) ==
  IF None \in {m.name, m.value} THEN list
  ELSE IF \E i \in DOMAIN list : list[i].value = m.value
       THEN [i \in DOMAIN list |->
              IF list[i].value = m.value THEN WithAlias(list[i], m.name) ELSE list[i]]
       ELSE Append(list, [name |-> m.name, value |-> m.value, aliases |-> <<>>])

LEMMA MessageRead ==
  ASSUME NEW list \in Seq(MessageRecords), NEW entries, NEW n \in Nat \ {0},
         Named(list, entries, Said("messages", "value"), n - 1),
         entries[n].name # None => entries[n].name \in Said("messages", "name"),
         entries[n].value # None => entries[n].value \in Said("messages", "value"),
         NEW more, more = WithMessage(list, entries[n]), NEW Value, Value = Said("messages", "value")
  PROVE  more \in Seq(MessageRecords) /\ Named(more, entries, Value, n)
<1> DEFINE size == Len(list)
           Before(value) == Declaring(entries, n - 1, value)
           After(value) == Declaring(entries, n, value)
           new == entries[n].value
           name == entries[n].name
<1>1. /\ size \in Nat /\ DOMAIN list = 1 .. size
      /\ \A i \in 1 .. size : list[i] \in MessageRecords
  OBVIOUS
<1>2. \A x \in MessageRecords : x.value \in Value /\ x.value # None
  BY DEF MessageRecords, Said
<1>3. /\ \A value : Before(value) \in SUBSET Nat /\ \A q \in Before(value) : q < n
      /\ \A value : new = value /\ name # None => After(value) = Before(value) \cup {n}
      /\ \A value : ~(new = value /\ name # None) => After(value) = Before(value)
  BY DeclaringGrows
<1>4. /\ \A i \in 1 .. size : NamesOf(list[i], entries, Before(list[i].value))
      /\ \A value \in Value : Before(value) # {} => \E i \in 1 .. size : list[i].value = value
      /\ \A i, j \in 1 .. size : list[i].value = list[j].value => i = j
  BY <1>1 DEF Named
<1> HIDE DEF Before, After, size
\* What the names of the messages come down to.
<1>5. ASSUME NEW m \in Nat, DOMAIN more = 1 .. m,
             \A i \in 1 .. m : more[i] \in MessageRecords,
             more = [i \in 1 .. m |-> more[i]],
             \A i \in 1 .. m : NamesOf(more[i], entries, After(more[i].value)),
             \A value \in Value : After(value) # {} => \E i \in 1 .. m : more[i].value = value,
             \A i, j \in 1 .. m : more[i].value = more[j].value => i = j
      PROVE  more \in Seq(MessageRecords) /\ Named(more, entries, Value, n)
  <2>1. more \in [1 .. m -> MessageRecords]
    BY <1>5
  <2>2. more \in Seq(MessageRecords)
    BY <1>5, <2>1
  <2> QED
    BY <1>5, <2>2 DEF Named, After
<1>6. CASE None \in {name, new}
  <2>1. more = list
    BY <1>6 DEF WithMessage
  <2>2. \A value \in Value : After(value) = Before(value)
    BY <1>3, <1>6 DEF Said
  <2>3. \A i \in 1 .. size : After(list[i].value) = Before(list[i].value)
    BY <1>1, <1>2, <2>2
  <2>4. list = [i \in 1 .. size |-> list[i]]
    BY <1>1
  <2> HIDE DEF new, name
  <2> QED
    BY <1>1, <1>4, <1>5, <2>1, <2>2, <2>3, <2>4
<1>7. CASE None \notin {name, new} /\ \E i \in DOMAIN list : list[i].value = new
  <2>1. more = [i \in 1 .. size |->
                 IF list[i].value = new THEN WithAlias(list[i], name) ELSE list[i]]
    BY <1>1, <1>7 DEF WithMessage
  <2>2. name # None /\ new # None /\ name \in Said("messages", "name")
    BY <1>7
  <2>3. ASSUME NEW i \in 1 .. size
        PROVE  /\ more[i] \in MessageRecords /\ more[i].value = list[i].value
               /\ NamesOf(more[i], entries, After(more[i].value))
    <3>1. list[i] \in MessageRecords /\ NamesOf(list[i], entries, Before(list[i].value))
      BY <1>1, <1>4
    <3>2. CASE list[i].value = new
      <4>1. more[i] = WithAlias(list[i], name)
        BY <2>1, <3>2
      <4>2. Before(new) \in SUBSET Nat /\ (\A q \in Before(new) : q < n)
            /\ After(new) = Before(new) \cup {n}
        BY <1>3, <2>2
      <4>3. NamesOf(list[i], entries, Before(new))
        BY <3>1, <3>2
      <4>4. /\ WithAlias(list[i], name) \in MessageRecords
            /\ WithAlias(list[i], name).value = list[i].value
            /\ NamesOf(WithAlias(list[i], name), entries, Before(new) \cup {n})
        BY <2>2, <3>1, <4>2, <4>3, MessageAliased
      <4> HIDE DEF new, name
      <4> QED
        BY <3>2, <4>1, <4>2, <4>4
    <3>3. CASE list[i].value # new
      <4>1. more[i] = list[i]
        BY <2>1, <3>3
      <4>2. After(list[i].value) = Before(list[i].value)
        BY <1>3, <3>3
      <4> QED
        BY <3>1, <4>1, <4>2
    <3> QED
      BY <3>2, <3>3
  <2>4. ASSUME NEW value \in Value, After(value) # {}
        PROVE  \E i \in 1 .. size : more[i].value = value
    <3>1. CASE value = new
      BY <1>1, <1>7, <2>3, <3>1
    <3>2. CASE value # new
      <4>1. After(value) = Before(value)
        BY <1>3, <3>2
      <4> QED
        BY <1>4, <2>3, <2>4, <4>1
    <3> QED
      BY <3>1, <3>2
  <2>5. DOMAIN more = 1 .. size /\ more = [i \in 1 .. size |-> more[i]]
    BY <2>1
  <2>6. \A i, j \in 1 .. size : more[i].value = more[j].value => i = j
    BY <1>4, <2>3
  <2> HIDE DEF new, name
  <2> QED
    BY <1>1, <1>5, <2>3, <2>4, <2>5, <2>6
<1>8. CASE None \notin {name, new} /\ ~ \E i \in DOMAIN list : list[i].value = new
  <2> DEFINE x == [name |-> name, value |-> new, aliases |-> <<>>]
  <2>1. more = Append(list, x)
    BY <1>8 DEF WithMessage
  <2>2. name # None /\ new # None /\ name \in Said("messages", "name") /\ new \in Value
    BY <1>8
  <2>3. x \in MessageRecords /\ x.value = new /\ x.name = name /\ x.aliases = <<>>
    BY <2>2 DEF MessageRecords
  <2> HIDE DEF x
  <2>4. /\ DOMAIN more = 1 .. size + 1 /\ more[size + 1] = x
        /\ \A i \in 1 .. size : more[i] = list[i]
    BY <1>1, <2>1 DEF size
  <2>15. more = [i \in 1 .. size + 1 |-> more[i]]
    <3>1. more \in Seq(MessageRecords)
      BY <2>1, <2>3
    <3>2. more = [i \in DOMAIN more |-> more[i]]
      BY <3>1
    <3> QED
      BY <2>4, <3>2
  <2>5. 1 .. size + 1 = (1 .. size) \cup {size + 1} /\ size + 1 \in Nat
    BY <1>1
  <2>6. \A i \in 1 .. size : list[i].value # new
    BY <1>1, <1>8
  <2>7. Before(new) = {}
    BY <1>4, <2>2, <2>6
  <2>8. After(new) = {n}
    BY <1>3, <2>2, <2>7
  <2>9. NamesOf(x, entries, {n})
    BY <2>3, NamesBegin
  <2>10. ASSUME NEW i \in 1 .. size
         PROVE  NamesOf(more[i], entries, After(more[i].value))
    <3>1. After(list[i].value) = Before(list[i].value)
      BY <1>3, <2>6
    <3>2. NamesOf(list[i], entries, Before(list[i].value)) /\ more[i] = list[i]
      BY <1>4, <2>4
    <3> QED
      BY <3>1, <3>2
  <2> HIDE DEF new, name
  <2>11. \A i \in 1 .. size + 1 : NamesOf(more[i], entries, After(more[i].value))
    BY <2>3, <2>4, <2>5, <2>8, <2>9, <2>10
  <2>12. ASSUME NEW value \in Value, After(value) # {}
         PROVE  \E i \in 1 .. size + 1 : more[i].value = value
    <3>1. CASE value = new
      BY <2>3, <2>4, <2>5, <3>1
    <3>2. CASE value # new
      <4>1. After(value) = Before(value)
        BY <1>3, <3>2
      <4>2. PICK i \in 1 .. size : list[i].value = value
        BY <1>4, <2>12, <4>1
      <4> QED
        BY <2>4, <2>5, <4>2
    <3> QED
      BY <3>1, <3>2
  <2>13. \A i, j \in 1 .. size + 1 : more[i].value = more[j].value => i = j
    <3>1. \A i, j \in 1 .. size : more[i].value = more[j].value => i = j
      BY <1>4, <2>4
    <3>2. \A i \in 1 .. size : more[i].value # new
      BY <2>4, <2>6
    <3>3. more[size + 1].value = new
      BY <2>3, <2>4
    <3> QED
      BY <2>5, <3>1, <3>2, <3>3
  <2>14. \A i \in 1 .. size + 1 : more[i] \in MessageRecords
    BY <1>1, <2>3, <2>4, <2>5
  <2> QED
    BY <1>5, <2>4, <2>5, <2>11, <2>12, <2>13, <2>14, <2>15
<1> QED
  BY <1>6, <1>7, <1>8

MessagesKept == MessageTypes /\ MessageNamesKept

LEMMA LoadMessageKeeps ==
  ASSUME IInv, LoadMessage
  PROVE  MessagesKept'
<1> DEFINE n == read["messages"] + 1
           entries == spec["messages"]
<1>1. spec \in Specs /\ ReadTypes /\ MessageTypes /\ MessageNamesKept
  BY DEF IInv, TypeOK
<1>2. Visit("messages") /\ Entry("messages") = entries[n] /\ UNCHANGED spec
  BY DEF LoadMessage, Entry
<1>3. /\ read["messages"] \in Nat /\ read'["messages"] = n
      /\ n \in 1 .. Len(entries) /\ n \in Nat \ {0} /\ n - 1 = read["messages"]
  <2>1. read["messages"] + 1 \in 1 .. Len(entries) /\ read["messages"] \in Nat
        /\ read'["messages"] = n
    BY <1>1, <1>2, VisitResult DEF Kinds
  <2> QED
    BY <2>1
<1>4. Named(messages, entries, Said("messages", "value"), n - 1)
  BY <1>1, <1>3, NamedIsKept
<1>5. /\ entries[n].name # None => entries[n].name \in Said("messages", "name")
      /\ entries[n].value # None => entries[n].value \in Said("messages", "value")
  BY <1>3, SaidResult
<1>6. messages' = WithMessage(messages, entries[n])
  BY <1>2 DEF LoadMessage, WithMessage
<1>7. messages \in Seq(MessageRecords)
  BY <1>1 DEF MessageTypes
<1>8. messages' \in Seq(MessageRecords) /\ Named(messages', entries, Said("messages", "value"), n)
  <2> HIDE DEF n, entries
  <2> QED
    BY <1>3, <1>4, <1>5, <1>6, <1>7, MessageRead
<1>9. MessageNamesKept'
        <=> Named(messages', spec'["messages"], Said("messages", "value")', read'["messages"])
  BY NamedIsKeptNext
<1>10. MessageRecords' = MessageRecords /\ Said("messages", "value")' = Said("messages", "value")
  BY <1>2, SaidStays
<1>11. MessageNamesKept'
  BY <1>2, <1>3, <1>8, <1>9, <1>10
<1> QED
  BY <1>8, <1>10, <1>11 DEF MessagesKept, MessageTypes

LEMMA MessagesStay ==
  ASSUME MessagesKept, UNCHANGED <<spec, messages>>, read'["messages"] = read["messages"]
  PROVE  MessagesKept'
<1>1. MessageRecords' = MessageRecords /\ Said("messages", "value")' = Said("messages", "value")
  BY SaidStays
<1>2. Named(messages, spec["messages"], Said("messages", "value"), read["messages"])
  BY NamedIsKept DEF MessagesKept
<1>3. MessageNamesKept'
        <=> Named(messages', spec'["messages"], Said("messages", "value")', read'["messages"])
  BY NamedIsKeptNext
<1>4. MessageNamesKept'
  BY <1>1, <1>2, <1>3
<1> QED
  BY <1>1, <1>4 DEF MessagesKept, MessageTypes

----------------------------------------------------------------------------
(* Phases and the table as written *)

LEMMA EmitFieldsKeeps ==
  ASSUME IInv, EmitFields
  PROVE  FieldsKept' /\ PhasesKept'
<1>1. /\ FieldTypes /\ FieldsRead /\ FieldNamesKept /\ PhasesKept
      /\ phase = "load" /\ lengths = <<>> /\ ~Pending("fields") /\ ~Pending("messages")
      /\ UNCHANGED <<spec, read, fields>>
      /\ lengths' = IF spec.args = {"-go"} THEN lengths ELSE Lengths
      /\ phase' = IF "-go" \in spec.args THEN "groups" ELSE "done"
  BY DEF IInv, TypeOK, EmitFields, AllLoaded, PhasesKept
<1>2. Lengths \in Seq(DataLengths)
  <2>1. DOMAIN fields \subseteq Nat /\ IsFiniteSet(DOMAIN fields)
    BY <1>1 DEF FieldTypes, FieldsRead
  <2> QED
    BY <2>1, LengthsAscend
<1>3. Lengths \in Seq(DOMAIN fields)
  <2>1. DataLengths \subseteq DOMAIN fields
    BY DEF DataLengths
  <2> HIDE DEF DataLengths
  <2> QED
    BY <1>2, <2>1
<1>4. lengths' \in Seq(DOMAIN fields)
  <2>1. lengths' = <<>> \/ lengths' = Lengths
    BY <1>1
  <2>2. <<>> \in Seq(DOMAIN fields)
    OBVIOUS
  <2> QED
    BY <1>3, <2>1, <2>2
<1>5. FieldsKept'
  BY <1>1, <1>4, FieldsStay DEF FieldsKept
<1>6. Lengths' = Lengths
  BY <1>1 DEF Lengths, IsDataLength, Ascends, Range
<1>7. ~Pending("fields")' /\ ~Pending("messages")'
  BY <1>1 DEF Pending
<1>8. PhasesKept'
  BY <1>1, <1>6, <1>7 DEF PhasesKept
<1> QED
  BY <1>5, <1>8

\* While the groups are read, and after, nothing of that changes.
LEMMA PhasesStay ==
  ASSUME PhasesKept, UNCHANGED <<spec, fields, lengths>>,
         read'["fields"] = read["fields"], read'["messages"] = read["messages"],
         phase' = phase \/ (phase = "groups" /\ phase' = "done") \/ phase' = "failed"
  PROVE  PhasesKept'
<1>1. Lengths' = Lengths
  BY DEF Lengths, IsDataLength, Ascends, Range
<1>2. Pending("fields")' = Pending("fields") /\ Pending("messages")' = Pending("messages")
  BY DEF Pending
<1>3. CASE phase' = "failed"
  BY <1>3 DEF PhasesKept
<1>4. CASE phase' # "failed"
  BY <1>1, <1>2, <1>4 DEF PhasesKept
<1> QED
  BY <1>3, <1>4

----------------------------------------------------------------------------
(* Components *)

LEMMA EmplacedIn ==
  ASSUME NEW S, NEW map, map \in [DOMAIN map -> S], NEW key, NEW value \in S
  PROVE  Emplaced(map, key, value) \in [DOMAIN Emplaced(map, key, value) -> S]
  BY DEF Emplaced

LEMMA DeclaresStay ==
  ASSUME UNCHANGED spec
  PROVE  \A p, name : /\ Declares(p, name)' = Declares(p, name)
                      /\ FirstDeclares(p, name)' = FirstDeclares(p, name)
<1>1. \A p, name : Declares(p, name)' = Declares(p, name)
  BY DEF Declares
<1> QED
  BY <1>1 DEF FirstDeclares

ComponentsKept == ComponentTypes /\ ComponentsRead

LEMMA ComponentsStay ==
  ASSUME ComponentsKept, UNCHANGED <<spec, componentFirst>>,
         read'["components"] = read["components"]
  PROVE  ComponentsKept'
<1>1. /\ Said("components", "name")' = Said("components", "name")
      /\ Said("components", "first")' = Said("components", "first")
  BY SaidStays
<1>2. \A p, name : /\ Declares(p, name)' = Declares(p, name)
                   /\ FirstDeclares(p, name)' = FirstDeclares(p, name)
  BY DeclaresStay
<1>3. ComponentTypes'
  BY <1>1 DEF ComponentsKept, ComponentTypes
<1>4. ComponentsRead'
  BY <1>1, <1>2 DEF ComponentsKept, ComponentsRead
<1> QED
  BY <1>3, <1>4 DEF ComponentsKept

LEMMA LoadComponentKeeps ==
  ASSUME IInv, LoadComponent
  PROVE  ComponentsKept'
<1>1. spec \in Specs /\ ReadTypes /\ ComponentTypes /\ ComponentsRead
  BY DEF IInv, TypeOK
<1>2. PICK n : n = read["components"] + 1
  OBVIOUS
<1>3. PICK c : c = spec["components"][n]
  OBVIOUS
<1>4. /\ Visit("components") /\ UNCHANGED spec
      /\ componentFirst' = IF None \in {c.name, c.first} THEN componentFirst
                           ELSE Emplaced(componentFirst, c.name, c.first)
  BY <1>2, <1>3 DEF LoadComponent, Entry
<1>5. /\ n \in 1 .. Len(spec["components"]) /\ n \in Nat \ {0}
      /\ read["components"] = n - 1 /\ read'["components"] = n
  <2>1. read["components"] + 1 \in 1 .. Len(spec["components"]) /\ read["components"] \in Nat
        /\ read'["components"] = read["components"] + 1
    BY <1>1, <1>4, VisitResult DEF Kinds
  <2> QED
    BY <1>2, <2>1
<1>6. 1 .. n = (1 .. n - 1) \cup {n} /\ 1 .. n - 1 \subseteq Nat
  BY <1>5
<1>7. /\ Said("components", "name")' = Said("components", "name")
      /\ Said("components", "first")' = Said("components", "first")
  BY <1>4, SaidStays
<1>8. \A p, name : /\ Declares(p, name)' = Declares(p, name)
                   /\ FirstDeclares(p, name)' = FirstDeclares(p, name)
  BY <1>4, DeclaresStay
<1>9. /\ \A name \in Said("components", "name") :
           (\E p \in 1 .. n - 1 : Declares(p, name)) => name \in DOMAIN componentFirst
      /\ \A name \in DOMAIN componentFirst : \E p \in 1 .. n - 1 :
           FirstDeclares(p, name) /\ componentFirst[name] = spec["components"][p].first
  BY <1>1, <1>5 DEF ComponentsRead
<1>10. /\ DOMAIN componentFirst \subseteq Said("components", "name")
       /\ componentFirst \in [DOMAIN componentFirst -> Said("components", "first")]
  BY <1>1 DEF ComponentTypes
<1>11. \A name : Declares(n, name) <=> c.name = name /\ c.first # None
  BY <1>3, <1>5 DEF Declares
<1>12. \A name \in Said("components", "name") : name # None
  BY DEF Said
\* What ComponentsKept' comes down to.
<1>13. ASSUME DOMAIN componentFirst' \subseteq Said("components", "name"),
              componentFirst' \in [DOMAIN componentFirst' -> Said("components", "first")],
              \A name \in Said("components", "name") :
                (\E p \in 1 .. n : Declares(p, name)) => name \in DOMAIN componentFirst',
              \A name \in DOMAIN componentFirst' : \E p \in 1 .. n :
                FirstDeclares(p, name) /\ componentFirst'[name] = spec["components"][p].first
       PROVE  ComponentsKept'
  <2>1. ComponentTypes'
    BY <1>7, <1>13 DEF ComponentTypes
  <2>2. ComponentsRead'
    BY <1>4, <1>5, <1>7, <1>8, <1>13 DEF ComponentsRead
  <2> QED
    BY <2>1, <2>2 DEF ComponentsKept
<1>14. CASE None \in {c.name, c.first}
  <2>1. componentFirst' = componentFirst
    BY <1>4, <1>14
  <2>2. \A name \in Said("components", "name") : ~Declares(n, name)
    BY <1>11, <1>12, <1>14
  <2>3. \A name \in Said("components", "name") :
          (\E p \in 1 .. n : Declares(p, name)) => name \in DOMAIN componentFirst
    BY <1>6, <1>9, <2>2
  <2>4. \A name \in DOMAIN componentFirst : \E p \in 1 .. n :
          FirstDeclares(p, name) /\ componentFirst[name] = spec["components"][p].first
    BY <1>6, <1>9
  <2> QED
    BY <1>10, <1>13, <2>1, <2>3, <2>4
<1>15. CASE None \notin {c.name, c.first}
  <2>1. componentFirst' = Emplaced(componentFirst, c.name, c.first)
    BY <1>4, <1>15
  <2>2. c.name \in Said("components", "name") /\ c.first \in Said("components", "first")
    BY <1>3, <1>5, <1>15, SaidResult
  <2>3. /\ DOMAIN componentFirst' = DOMAIN componentFirst \cup {c.name}
        /\ \A k \in DOMAIN componentFirst : componentFirst'[k] = componentFirst[k]
        /\ c.name \notin DOMAIN componentFirst => componentFirst'[c.name] = c.first
    BY <2>1 DEF Emplaced
  <2>4. componentFirst' \in [DOMAIN componentFirst' -> Said("components", "first")]
    BY <1>10, <2>1, <2>2, EmplacedIn
  <2>5. \A name \in Said("components", "name") :
          (\E p \in 1 .. n : Declares(p, name)) => name \in DOMAIN componentFirst'
    BY <1>6, <1>9, <1>11, <2>3
  <2>6. ASSUME NEW name \in DOMAIN componentFirst'
        PROVE  \E p \in 1 .. n :
                 FirstDeclares(p, name) /\ componentFirst'[name] = spec["components"][p].first
    <3>1. CASE name \in DOMAIN componentFirst
      BY <1>6, <1>9, <2>3, <3>1
    <3>2. CASE name \notin DOMAIN componentFirst
      <4>1. name = c.name /\ componentFirst'[name] = spec["components"][n].first
        BY <1>3, <2>3, <2>6, <3>2
      <4>2. Declares(n, name)
        BY <1>11, <1>15, <4>1
      <4>3. \A q \in 1 .. n - 1 : ~Declares(q, name)
        BY <1>9, <2>2, <3>2, <4>1
      <4> QED
        BY <1>6, <4>1, <4>2, <4>3 DEF FirstDeclares
    <3> QED
      BY <3>1, <3>2
  <2> QED
    BY <1>10, <1>13, <2>2, <2>3, <2>4, <2>5, <2>6
<1> QED
  BY <1>14, <1>15

----------------------------------------------------------------------------
(* Groups *)

OccursAt(p, c) == spec["groups"][p].count = c /\ spec["groups"][p].first # None

\* An occurrence read is the latest of those of its group.
LEMMA ReadPlacesGrow ==
  ASSUME spec \in Specs, ReadTypes, Visit("groups"), UNCHANGED spec,
         NEW n, n = read["groups"] + 1
  PROVE  /\ \A c : ReadPlaces(c) \in SUBSET Nat /\ \A q \in ReadPlaces(c) : q < n
         /\ \A c : OccursAt(n, c) => ReadPlaces(c)' = ReadPlaces(c) \cup {n}
         /\ \A c : ~OccursAt(n, c) => ReadPlaces(c)' = ReadPlaces(c)
         /\ n \in 1 .. Len(spec["groups"]) /\ n \in Nat
<1>1. /\ read["groups"] \in Nat /\ read'["groups"] = read["groups"] + 1
      /\ read["groups"] + 1 \in 1 .. Len(spec["groups"])
  BY VisitResult DEF Kinds
<1>2. Len(spec["groups"]) \in Nat
  BY SpecShape DEF Kinds
<1>3. /\ 1 .. n - 1 = {p \in 1 .. Len(spec["groups"]) : p <= read["groups"]}
      /\ 1 .. n = {p \in 1 .. Len(spec["groups"]) : p <= read'["groups"]}
  BY <1>1, <1>2
<1>4. \A c : ReadPlaces(c) = {p \in 1 .. n - 1 : OccursAt(p, c)}
  BY <1>3 DEF ReadPlaces, Occurrences, OccursAt
<1>5. \A c : ReadPlaces(c)' = {p \in 1 .. n : OccursAt(p, c)}
  BY <1>3 DEF ReadPlaces, Occurrences, OccursAt
<1>6. n \in Nat /\ 1 .. n = (1 .. n - 1) \cup {n} /\ n \in 1 .. Len(spec["groups"])
  BY <1>1
<1>7. \A c : ReadPlaces(c) \in SUBSET Nat /\ \A q \in ReadPlaces(c) : q < n
  BY <1>4, <1>6
<1>8. \A c : OccursAt(n, c) => ReadPlaces(c)' = ReadPlaces(c) \cup {n}
  BY <1>4, <1>5, <1>6
<1>9. \A c : ~OccursAt(n, c) => ReadPlaces(c)' = ReadPlaces(c)
  BY <1>4, <1>5, <1>6
<1> QED
  BY <1>6, <1>7, <1>8, <1>9

\* Where and as what an occurrence is added.
LEMMA AddedIn ==
  ASSUME NEW p \in 1 .. Len(spec["groups"]), spec["groups"][p].first # None
  PROVE  AddedAt(p) \in Alternates
<1>1. spec["groups"][p].first \in Firsts
  BY SaidResult DEF Firsts
<1>2. {spec["groups"][p].context} \ {None} \subseteq Said("groups", "context")
  BY SaidResult
<1> QED
  BY <1>1, <1>2 DEF AddedAt, Alternates

LEMMA AddedAllIn == \A c : Added(c) \subseteq Alternates
<1>1. \A c : \A p \in ReadPlaces(c) : AddedAt(p) \in Alternates
  BY AddedIn DEF ReadPlaces, Occurrences
<1> QED
  BY <1>1 DEF Added

LEMMA AddedStays ==
  ASSUME UNCHANGED spec
  PROVE  \A p : AddedAt(p)' = AddedAt(p)
  BY DEF AddedAt

GroupsKept == GroupTypes /\ GroupsRead /\ AlternatesRead

\* Until the groups are resolved, what is known of them is what was read.
LEMMA GroupsStay ==
  ASSUME IInv, ~Finished, ~Finished', UNCHANGED <<spec, dedup, conflicts, groups>>,
         read'["groups"] = read["groups"]
  PROVE  GroupsKept'
<1>1. GroupTypes /\ GroupsRead /\ Collected
  BY DEF IInv, TypeOK, AlternatesRead
<1>2. /\ \A kind, key : Said(kind, key)' = Said(kind, key)
      /\ Firsts' = Firsts /\ Alternates' = Alternates
  BY SaidStays
<1>3. \A c : ReadPlaces(c)' = ReadPlaces(c)
  BY DEF ReadPlaces, Occurrences
<1>4. \A c : Added(c)' = Added(c)
  BY <1>3, AddedStays DEF Added
<1>5. Contexts' = Contexts
  BY <1>2 DEF Contexts
<1>6. GroupTypes'
  BY <1>1, <1>2 DEF GroupTypes
<1>7. GroupsRead'
  BY <1>1, <1>2, <1>3 DEF GroupsRead
<1>8. Collected'
  <2>1. ASSUME NEW c \in DOMAIN dedup
        PROVE  Exactly(conflicts[c], Added(c))'
    <3>1. Exactly(conflicts[c], Added(c))
      BY <1>1 DEF Collected
    <3>2. conflicts'[c] = conflicts[c] /\ Added(c)' = Added(c)
      BY <1>4
    <3> QED
      BY <1>5, <3>1, <3>2 DEF Exactly
  <2> QED
    BY <1>1, <2>1 DEF Collected
<1> QED
  BY <1>6, <1>7, <1>8 DEF GroupsKept, AlternatesRead

LEMMA CollectGroupKeeps ==
  ASSUME IInv, CollectGroup
  PROVE  GroupsKept'
<1>1. spec \in Specs /\ ReadTypes /\ GroupTypes /\ GroupsRead /\ Collected /\ ~Finished'
  BY DEF IInv, TypeOK, AlternatesRead, CollectGroup, Finished
<1>2. PICK n : n = read["groups"] + 1
  OBVIOUS
<1>3. PICK count, first, context :
        /\ count = spec["groups"][n].count /\ first = spec["groups"][n].first
        /\ context = spec["groups"][n].context
  OBVIOUS
<1>4. Visit("groups") /\ UNCHANGED <<spec, groups>>
  BY DEF CollectGroup
<1>5. PICK before : before = Emplaced(conflicts, count, <<>>)
  OBVIOUS
<1>6. /\ None \in {count, first} => UNCHANGED <<dedup, conflicts>>
      /\ None \notin {count, first} =>
           /\ dedup' = Emplaced(dedup, count, first)
           /\ conflicts' = [before EXCEPT ![count] = WithContexts(@, first, {context} \ {None})]
  BY <1>2, <1>3, <1>5 DEF CollectGroup, Entry
<1>7. /\ \A c : ReadPlaces(c) \in SUBSET Nat /\ \A q \in ReadPlaces(c) : q < n
      /\ \A c : OccursAt(n, c) => ReadPlaces(c)' = ReadPlaces(c) \cup {n}
      /\ \A c : ~OccursAt(n, c) => ReadPlaces(c)' = ReadPlaces(c)
      /\ n \in 1 .. Len(spec["groups"]) /\ n \in Nat
  BY <1>1, <1>2, <1>4, ReadPlacesGrow
<1>8. /\ \A kind, key : Said(kind, key)' = Said(kind, key)
      /\ Firsts' = Firsts /\ Alternates' = Alternates
  BY <1>4, SaidStays
<1>9. Contexts' = Contexts
  BY <1>8 DEF Contexts
<1>10. /\ \A c : OccursAt(n, c) => Added(c)' = Added(c) \cup {AddedAt(n)}
       /\ \A c : ~OccursAt(n, c) => Added(c)' = Added(c)
  BY <1>4, <1>7, AddedStays DEF Added
<1>11. /\ \A c \in Said("groups", "count") : ReadPlaces(c) # {} => c \in DOMAIN dedup
       /\ \A c \in DOMAIN dedup : \E p \in ReadPlaces(c) :
            /\ \A q \in ReadPlaces(c) : p <= q
            /\ dedup[c] = spec["groups"][p].first
  BY <1>1 DEF GroupsRead
<1>12. /\ DOMAIN dedup \subseteq Said("groups", "count")
       /\ dedup \in [DOMAIN dedup -> Said("groups", "first")]
       /\ conflicts \in [DOMAIN conflicts -> Seq(Alternates)]
       /\ groups \in [DOMAIN groups -> Firsts]
  BY <1>1 DEF GroupTypes
<1>13. /\ DOMAIN conflicts = DOMAIN dedup
       /\ \A c \in DOMAIN dedup :
            /\ Exactly(conflicts[c], Added(c))
            /\ Len(conflicts[c]) >= 1 /\ conflicts[c][1].first = dedup[c]
  BY <1>1 DEF Collected
<1>14. \A alternates, added : Exactly(alternates, added)' <=> Exactly(alternates, added)
  BY <1>9 DEF Exactly
\* What GroupsKept' comes down to, a group at a time.
<1> DEFINE KeptAt(c) ==
             /\ c \in Said("groups", "count")
             /\ \E p \in ReadPlaces(c)' :
                  /\ \A q \in ReadPlaces(c)' : p <= q
                  /\ dedup'[c] = spec["groups"][p].first
             /\ conflicts'[c] \in Seq(Alternates)
             /\ Exactly(conflicts'[c], Added(c)')
             /\ Len(conflicts'[c]) >= 1 /\ conflicts'[c][1].first = dedup'[c]
<1>15. ASSUME dedup' \in [DOMAIN dedup' -> Said("groups", "first")],
              conflicts' = [c \in DOMAIN dedup' |-> conflicts'[c]],
              \A c \in Said("groups", "count") : ReadPlaces(c)' # {} => c \in DOMAIN dedup',
              \A c \in DOMAIN dedup' : KeptAt(c)
       PROVE  GroupsKept'
  <2>1. conflicts' \in [DOMAIN conflicts' -> Seq(Alternates)] /\ DOMAIN conflicts' = DOMAIN dedup'
    BY <1>15
  <2>2. GroupTypes'
    BY <1>4, <1>8, <1>12, <1>15, <2>1 DEF GroupTypes
  <2>3. GroupsRead'
    BY <1>4, <1>8, <1>15 DEF GroupsRead
  <2>4. ASSUME NEW c \in DOMAIN dedup'
        PROVE  Exactly(conflicts[c], Added(c))'
    <3>1. Exactly(conflicts'[c], Added(c)')
      BY <1>15, <2>4
    <3> QED
      BY <1>9, <3>1 DEF Exactly
  <2>5. Collected'
    BY <1>15, <2>1, <2>4 DEF Collected
  <2> QED
    BY <1>1, <2>2, <2>3, <2>5 DEF GroupsKept, AlternatesRead
\* A group that does not occur again stays as it was.
<1>16. ASSUME NEW c \in DOMAIN dedup, dedup'[c] = dedup[c], conflicts'[c] = conflicts[c],
              ~OccursAt(n, c)
       PROVE  KeptAt(c)
  <2>1. ReadPlaces(c)' = ReadPlaces(c) /\ Added(c)' = Added(c)
    BY <1>7, <1>10, <1>16
  <2>2. conflicts[c] \in Seq(Alternates) /\ c \in Said("groups", "count")
    BY <1>12, <1>13
  <2> QED
    BY <1>11, <1>13, <1>16, <2>1, <2>2
<1>17. \A c : OccursAt(n, c) <=> count = c /\ first # None
  BY <1>3 DEF OccursAt
<1>18. CASE None \in {count, first}
  <2>1. dedup' = dedup /\ conflicts' = conflicts
    BY <1>6, <1>18
  <2>2. \A c \in Said("groups", "count") : ~OccursAt(n, c)
    BY <1>17, <1>18 DEF Said
  <2>3. \A c \in DOMAIN dedup : KeptAt(c)
    <3> HIDE DEF KeptAt
    <3> QED
      BY <1>12, <1>16, <2>1, <2>2
  <2>4. \A c \in Said("groups", "count") : ReadPlaces(c)' # {} => c \in DOMAIN dedup'
    BY <1>7, <1>11, <2>1, <2>2
  <2>5. conflicts' = [c \in DOMAIN dedup' |-> conflicts'[c]]
    BY <1>12, <1>13, <2>1
  <2> HIDE DEF KeptAt
  <2> QED
    BY <1>12, <1>15, <2>1, <2>3, <2>4, <2>5
<1>19. CASE None \notin {count, first}
  <2> DEFINE new == AddedAt(n)
             old == before[count]
             result == WithContexts(old, first, {context} \ {None})
  <2>1. dedup' = Emplaced(dedup, count, first) /\ conflicts' = [before EXCEPT ![count] = result]
    BY <1>6, <1>19
  <2>2. count \in Said("groups", "count") /\ first \in Said("groups", "first") /\ first # None
    BY <1>3, <1>7, <1>19, SaidResult
  <2>3. OccursAt(n, count) /\ \A c : c # count => ~OccursAt(n, c)
    BY <1>17, <2>2
  <2>4. /\ DOMAIN dedup' = DOMAIN dedup \cup {count}
        /\ \A c \in DOMAIN dedup : dedup'[c] = dedup[c]
        /\ count \notin DOMAIN dedup => dedup'[count] = first
    BY <2>1 DEF Emplaced
  <2>5. dedup' \in [DOMAIN dedup' -> Said("groups", "first")]
    BY <1>12, <2>1, <2>2, EmplacedIn
  <2>6. /\ DOMAIN before = DOMAIN conflicts \cup {count}
        /\ \A c \in DOMAIN conflicts : before[c] = conflicts[c]
        /\ count \notin DOMAIN conflicts => before[count] = <<>>
        /\ before = [c \in DOMAIN conflicts \cup {count} |-> before[c]]
    BY <1>5 DEF Emplaced
  <2> HIDE DEF result
  <2>7. /\ DOMAIN conflicts' = DOMAIN dedup' /\ conflicts'[count] = result
        /\ \A c \in DOMAIN conflicts : c # count => conflicts'[c] = conflicts[c]
        /\ conflicts' = [c \in DOMAIN dedup' |-> conflicts'[c]]
    BY <1>13, <2>1, <2>4, <2>6
  <2>8. new \in Alternates /\ new.first = first /\ new.contexts = {context} \ {None}
    BY <1>3, <1>7, <2>2, AddedIn DEF AddedAt
  <2>9. old \in Seq(Alternates) /\ Exactly(old, Added(count))
    <3>1. CASE count \in DOMAIN dedup
      <4>1. old = conflicts[count]
        BY <1>13, <2>6, <3>1
      <4>2. conflicts[count] \in Seq(Alternates)
        BY <1>12, <1>13, <3>1
      <4> QED
        BY <1>13, <3>1, <4>1, <4>2
    <3>2. CASE count \notin DOMAIN dedup
      <4>1. old = <<>>
        BY <1>13, <2>6, <3>2
      <4>2. Added(count) = {}
        BY <1>11, <2>2, <3>2 DEF Added
      <4> HIDE DEF old
      <4>3. Exactly(old, Added(count))
        BY <4>1, <4>2, NothingAdded
      <4> QED
        BY <4>1, <4>3
    <3> QED
      BY <3>1, <3>2
  <2> HIDE DEF new, old
  <2>10. /\ result \in Seq(Alternates)
         /\ Exactly(result, Added(count) \cup {new})
         /\ Len(result) >= 1 /\ Len(result) >= Len(old)
         /\ result[1].first = IF Len(old) = 0 THEN new.first ELSE old[1].first
    <3>1. result = WithContexts(old, new.first, new.contexts)
      BY <2>8 DEF result
    <3>2. Added(count) \subseteq Alternates
      BY AddedAllIn
    <3> QED
      BY <2>8, <2>9, <3>1, <3>2, ContextsAdded
  <2>11. result[1].first = dedup'[count]
    <3>1. CASE count \in DOMAIN dedup
      <4>1. old = conflicts[count] /\ Len(old) >= 1 /\ old[1].first = dedup[count]
        BY <1>13, <2>6, <3>1 DEF old
      <4>2. Len(old) # 0
        BY <4>1
      <4> QED
        BY <2>4, <2>10, <3>1, <4>1, <4>2
    <3>2. CASE count \notin DOMAIN dedup
      <4>1. old = <<>>
        BY <1>13, <2>6, <3>2 DEF old
      <4>2. Len(old) = 0
        BY <4>1
      <4> QED
        BY <2>4, <2>8, <2>10, <3>2, <4>2
    <3> QED
      BY <3>1, <3>2
  <2>12. \E p \in ReadPlaces(count)' :
           /\ \A q \in ReadPlaces(count)' : p <= q
           /\ dedup'[count] = spec["groups"][p].first
    <3>1. ReadPlaces(count)' = ReadPlaces(count) \cup {n}
      BY <1>7, <2>3
    <3>2. CASE count \in DOMAIN dedup
      <4>1. PICK p \in ReadPlaces(count) :
              /\ \A q \in ReadPlaces(count) : p <= q
              /\ dedup[count] = spec["groups"][p].first
        BY <1>11, <3>2
      <4>2. p < n /\ p \in Nat
        BY <1>7, <4>1
      <4>3. \A q \in ReadPlaces(count)' : p <= q
        BY <1>7, <3>1, <4>1, <4>2
      <4> QED
        BY <2>4, <3>1, <3>2, <4>1, <4>3
    <3>3. CASE count \notin DOMAIN dedup
      <4>1. ReadPlaces(count)' = {n}
        BY <1>11, <2>2, <3>1, <3>3
      <4> QED
        BY <1>3, <1>7, <2>4, <3>3, <4>1
    <3> QED
      BY <3>2, <3>3
  <2>13. KeptAt(count)
    <3>1. Added(count)' = Added(count) \cup {new}
      BY <1>10, <2>3 DEF new
    <3>2. Exactly(conflicts'[count], Added(count)')
      BY <2>7, <2>10, <3>1
    <3> QED
      BY <2>2, <2>7, <2>10, <2>11, <2>12, <3>2
  <2>14. ASSUME NEW c \in DOMAIN dedup', c # count
         PROVE  KeptAt(c)
    <3>1. c \in DOMAIN dedup /\ dedup'[c] = dedup[c] /\ conflicts'[c] = conflicts[c]
      BY <1>13, <2>4, <2>7, <2>14
    <3> HIDE DEF KeptAt
    <3> QED
      BY <1>16, <2>3, <2>14, <3>1
  <2>15. \A c \in Said("groups", "count") : ReadPlaces(c)' # {} => c \in DOMAIN dedup'
    BY <1>7, <1>11, <2>3, <2>4
  <2> HIDE DEF KeptAt
  <2> QED
    BY <1>15, <2>5, <2>7, <2>13, <2>14, <2>15
<1> QED
  BY <1>18, <1>19

\* There are several alternates just if several first names were added.
LEMMA SeveralAdded ==
  ASSUME NEW alternates \in Seq(Alternates), NEW added, Exactly(alternates, added)
  PROVE  Len(alternates) >= 2 <=> \E a, b \in added : a.first # b.first
<1> DEFINE size == Len(alternates)
<1>1. size \in Nat /\ DOMAIN alternates = 1 .. size
  OBVIOUS
<1>2. /\ \A i, j \in 1 .. size : alternates[i].first = alternates[j].first => i = j
      /\ {alternates[i].first : i \in 1 .. size} = {a.first : a \in added}
  BY <1>1 DEF Exactly
<1> HIDE DEF size
<1>3. ASSUME size >= 2
      PROVE  \E a, b \in added : a.first # b.first
  <2>1. 1 \in 1 .. size /\ 2 \in 1 .. size
    BY <1>1, <1>3
  <2>2. /\ alternates[1].first \in {a.first : a \in added}
        /\ alternates[2].first \in {a.first : a \in added}
    BY <1>2, <2>1
  <2>3. alternates[1].first # alternates[2].first
    BY <1>2, <2>1
  <2> QED
    BY <2>2, <2>3
<1>4. ASSUME NEW a \in added, NEW b \in added, a.first # b.first
      PROVE  size >= 2
  <2>1. a.first \in {alternates[i].first : i \in 1 .. size}
        /\ b.first \in {alternates[i].first : i \in 1 .. size}
    BY <1>2
  <2>2. PICK i \in 1 .. size, j \in 1 .. size :
          alternates[i].first = a.first /\ alternates[j].first = b.first
    BY <2>1
  <2>3. i # j
    BY <1>4, <2>2
  <2> QED
    BY <1>1, <2>3
<1>5. size >= 2 <=> \E a, b \in added : a.first # b.first
  BY <1>3, <1>4
<1> QED
  BY <1>5 DEF size

LEMMA ResolveKeeps ==
  ASSUME IInv, Resolve
  PROVE  GroupsKept'
<1>1. /\ spec \in Specs /\ GroupTypes /\ ComponentTypes /\ GroupsRead /\ Collected /\ PhasesKept
      /\ phase = "groups" /\ ~Pending("components") /\ ~Pending("groups")
      /\ groups' = [c \in Registered |-> Leaf(dedup[c])]
      /\ conflicts' = [c \in {r \in Registered : Conflicting(r)} |-> Merged(conflicts[c])]
      /\ UNCHANGED <<spec, read, componentFirst, dedup>> /\ phase' = "done"
  BY DEF IInv, TypeOK, AlternatesRead, Resolve, Finished
<1>2. Finished'
  BY <1>1 DEF Finished, PhasesKept
<1>3. /\ \A kind, key : Said(kind, key)' = Said(kind, key)
      /\ Firsts' = Firsts /\ Alternates' = Alternates
  BY <1>1, SaidStays
<1>4. Contexts' = Contexts
  BY <1>3 DEF Contexts
<1>5. \A c : ReadPlaces(c)' = ReadPlaces(c)
  BY <1>1 DEF ReadPlaces, Occurrences
<1>6. \A c : Added(c)' = Added(c)
  BY <1>1, <1>5, AddedStays DEF Added
<1>7. \A name : Leaf(name)' = Leaf(name) /\ AlternateLeaf(name)' = AlternateLeaf(name)
  BY <1>1, LeafStays
<1>8. \A a : LeafOf(a)' = LeafOf(a)
  BY <1>7 DEF LeafOf
<1>9. /\ dedup \in [DOMAIN dedup -> Said("groups", "first")]
      /\ DOMAIN dedup \subseteq Said("groups", "count")
      /\ conflicts \in [DOMAIN conflicts -> Seq(Alternates)]
      /\ componentFirst \in [DOMAIN componentFirst -> Said("components", "first")]
  BY <1>1 DEF GroupTypes, ComponentTypes
<1>10. /\ DOMAIN conflicts = DOMAIN dedup
       /\ \A c \in DOMAIN dedup :
            /\ Exactly(conflicts[c], Added(c))
            /\ Len(conflicts[c]) >= 1 /\ conflicts[c][1].first = dedup[c]
  BY <1>1 DEF Collected
<1>11. Registered \subseteq DOMAIN dedup /\ \A c \in Registered : Leaf(dedup[c]) # None
  BY DEF Registered
<1>12. ASSUME NEW c \in DOMAIN dedup
       PROVE  /\ Leaf(dedup[c]) \in Firsts \cup {None}
              /\ Merged(conflicts[c]) \in Seq(Alternates)
              /\ Exactly(Merged(conflicts[c]), {LeafOf(a) : a \in Added(c)})
              /\ Len(Merged(conflicts[c])) >= 1
              /\ Merged(conflicts[c])[1].first = AlternateLeaf(dedup[c])
              /\ Conflicting(c) <=> \E a, b \in Added(c) : AlternateLeaf(a.first) # AlternateLeaf(b.first)
  <2>1. conflicts[c] \in Seq(Alternates) /\ dedup[c] \in Firsts
    BY <1>9, <1>10 DEF Firsts
  <2>2. Leaf(dedup[c]) \in Firsts \cup {None}
    BY <1>9, <2>1, LeafType
  <2>3. PICK alternates : alternates = conflicts[c]
    OBVIOUS
  <2>4. /\ alternates \in Seq(Alternates) /\ Exactly(alternates, Added(c))
        /\ Len(alternates) >= 1 /\ alternates[1].first = dedup[c]
    BY <1>10, <2>1, <2>3
  <2>5. PICK merged : merged = Merged(alternates)
    OBVIOUS
  <2>6. /\ merged \in Seq(Alternates) /\ Len(merged) >= 1
        /\ merged[1].first = AlternateLeaf(dedup[c])
    BY <1>9, <2>4, <2>5, MergedResult
  <2>7. Exactly(merged, {LeafOf(a) : a \in Added(c)})
    BY <1>9, <2>4, <2>5, MergedExactly
  <2>8. Len(merged) >= 2 <=> \E a, b \in {LeafOf(d) : d \in Added(c)} : a.first # b.first
    BY <2>6, <2>7, SeveralAdded
  <2>9. \A a : LeafOf(a).first = AlternateLeaf(a.first)
    BY DEF LeafOf
  <2>10. Len(merged) >= 2 <=> \E a, b \in Added(c) : AlternateLeaf(a.first) # AlternateLeaf(b.first)
    BY <2>8, <2>9
  <2> QED
    BY <2>2, <2>3, <2>5, <2>6, <2>7, <2>10 DEF Conflicting
<1>13. groups' \in [DOMAIN groups' -> Firsts]
  <2>1. \A c \in Registered : Leaf(dedup[c]) \in Firsts
    BY <1>11, <1>12
  <2> QED
    BY <1>1, <2>1
<1>14. conflicts' \in [DOMAIN conflicts' -> Seq(Alternates)]
  <2>1. \A c \in Registered : Merged(conflicts[c]) \in Seq(Alternates)
    BY <1>11, <1>12
  <2> QED
    BY <1>1, <2>1
<1>15. GroupTypes'
  BY <1>1, <1>3, <1>9, <1>13, <1>14 DEF GroupTypes
<1>16. GroupsRead'
  BY <1>1, <1>3, <1>5 DEF GroupsRead
<1>17. Registered' = Registered /\ \A c : Leaf(dedup[c])' = Leaf(dedup[c])
  <2>1. \A c : Leaf(dedup[c])' = Leaf(dedup[c])
    BY <1>1 DEF Leaf, Chase, IsComponent
  <2> QED
    BY <1>1, <2>1 DEF Registered
<1>18. groups' = [c \in Registered |-> Leaf(dedup[c])]'
  BY <1>1, <1>17
<1>19. DOMAIN conflicts' =
         {c \in Registered : \E a, b \in Added(c) : AlternateLeaf(a.first) # AlternateLeaf(b.first)}
  BY <1>1, <1>11, <1>12
<1>20. \A a : AlternateLeaf(a.first)' = AlternateLeaf(a.first)
  BY <1>7
<1>21. DOMAIN conflicts' =
         {c \in Registered : \E a, b \in Added(c) : AlternateLeaf(a.first) # AlternateLeaf(b.first)}'
  BY <1>6, <1>17, <1>19, <1>20
<1>22. ASSUME NEW c \in DOMAIN conflicts'
       PROVE  /\ Exactly(conflicts[c], {LeafOf(a) : a \in Added(c)})'
              /\ Len(conflicts'[c]) >= 1 /\ conflicts'[c][1].first = AlternateLeaf(dedup[c])'
  <2>1. conflicts'[c] = Merged(conflicts[c]) /\ c \in DOMAIN dedup
    BY <1>1, <1>11, <1>22
  <2>2. /\ Exactly(conflicts'[c], {LeafOf(a) : a \in Added(c)})
        /\ Len(conflicts'[c]) >= 1 /\ conflicts'[c][1].first = AlternateLeaf(dedup[c])
    BY <1>12, <2>1
  <2>3. {LeafOf(a) : a \in Added(c)}' = {LeafOf(a) : a \in Added(c)}
    BY <1>6, <1>8
  <2>4. AlternateLeaf(dedup[c])' = AlternateLeaf(dedup[c])
    BY <1>1 DEF AlternateLeaf, Leaf, Chase, IsComponent
  <2>5. Exactly(conflicts[c], {LeafOf(a) : a \in Added(c)})'
    BY <1>4, <2>2, <2>3 DEF Exactly
  <2> QED
    BY <2>2, <2>4, <2>5
<1>23. ~Pending("components")' /\ ~Pending("groups")'
  BY <1>1 DEF Pending
<1>24. Decided'
  BY <1>18, <1>21, <1>22, <1>23 DEF Decided
<1> QED
  BY <1>2, <1>15, <1>16, <1>24 DEF GroupsKept, AlternatesRead

LEMMA GroupsDone ==
  ASSUME IInv, Finished, UNCHANGED vars
  PROVE  GroupsKept'
<1>1. /\ GroupTypes /\ GroupsRead /\ Decided
      /\ UNCHANGED <<spec, read, phase, componentFirst, dedup, conflicts, groups>>
  BY DEF IInv, TypeOK, AlternatesRead, vars
<1>2. /\ \A kind, key : Said(kind, key)' = Said(kind, key)
      /\ Firsts' = Firsts /\ Alternates' = Alternates
  BY <1>1, SaidStays
<1>3. Contexts' = Contexts
  BY <1>2 DEF Contexts
<1>4. \A c : ReadPlaces(c)' = ReadPlaces(c)
  BY <1>1 DEF ReadPlaces, Occurrences
<1>5. \A c : Added(c)' = Added(c)
  BY <1>1, <1>4, AddedStays DEF Added
<1>6. \A name : Leaf(name)' = Leaf(name) /\ AlternateLeaf(name)' = AlternateLeaf(name)
  BY <1>1, LeafStays
<1>7. \A a : LeafOf(a)' = LeafOf(a) /\ AlternateLeaf(a.first)' = AlternateLeaf(a.first)
  BY <1>6 DEF LeafOf
<1>8. GroupTypes'
  BY <1>1, <1>2 DEF GroupTypes
<1>9. GroupsRead'
  BY <1>1, <1>2, <1>4 DEF GroupsRead
<1>10. Registered' = Registered /\ \A c : Leaf(dedup[c])' = Leaf(dedup[c])
  <2>1. \A c : Leaf(dedup[c])' = Leaf(dedup[c])
    BY <1>1 DEF Leaf, Chase, IsComponent
  <2> QED
    BY <1>1, <2>1 DEF Registered
<1>11. (groups = [c \in Registered |-> Leaf(dedup[c])])'
  BY <1>1, <1>10 DEF Decided
<1>12. DOMAIN conflicts' =
         {c \in Registered : \E a, b \in Added(c) : AlternateLeaf(a.first) # AlternateLeaf(b.first)}'
  BY <1>1, <1>5, <1>7, <1>10 DEF Decided
<1>13. ASSUME NEW c \in DOMAIN conflicts'
       PROVE  /\ Exactly(conflicts[c], {LeafOf(a) : a \in Added(c)})'
              /\ Len(conflicts'[c]) >= 1 /\ conflicts'[c][1].first = AlternateLeaf(dedup[c])'
  <2>1. /\ Exactly(conflicts[c], {LeafOf(a) : a \in Added(c)})
        /\ Len(conflicts[c]) >= 1 /\ conflicts[c][1].first = AlternateLeaf(dedup[c])
        /\ conflicts' = conflicts
    BY <1>1, <1>13 DEF Decided
  <2>2. {LeafOf(a) : a \in Added(c)}' = {LeafOf(a) : a \in Added(c)}
    BY <1>5, <1>7
  <2>3. AlternateLeaf(dedup[c])' = AlternateLeaf(dedup[c])
    BY <1>1 DEF AlternateLeaf, Leaf, Chase, IsComponent
  <2>4. Exactly(conflicts'[c], {LeafOf(a) : a \in Added(c)})
    BY <2>1
  <2>5. Exactly(conflicts[c], {LeafOf(a) : a \in Added(c)})'
    BY <1>3, <2>2, <2>4 DEF Exactly
  <2> QED
    BY <2>1, <2>3, <2>5
<1>14. ~Pending("components")' /\ ~Pending("groups")'
  BY <1>1 DEF Decided, Pending
<1>15. Decided'
  BY <1>11, <1>12, <1>13, <1>14 DEF Decided
<1>16. Finished'
  BY <1>1 DEF Finished
<1> QED
  BY <1>8, <1>9, <1>15, <1>16 DEF GroupsKept, AlternatesRead

----------------------------------------------------------------------------
(* The invariant holds *)

LEMMA InitKeeps ==
  ASSUME Init
  PROVE  IInv
<1>1. /\ spec \in Specs /\ read = [k \in Kinds |-> 0] /\ phase = "load"
      /\ DOMAIN fields = {} /\ fields = [x \in {} |-> None] /\ messages = <<>> /\ lengths = <<>>
      /\ DOMAIN componentFirst = {} /\ componentFirst = [x \in {} |-> None]
      /\ DOMAIN dedup = {} /\ dedup = [x \in {} |-> None]
      /\ DOMAIN conflicts = {} /\ conflicts = [x \in {} |-> None]
      /\ DOMAIN groups = {} /\ groups = [x \in {} |-> None]
  BY DEF Init, NoEntries
<1>2. \A k \in Kinds : Len(spec[k]) \in Nat
  BY <1>1, SpecShape
<1>3. ReadTypes
  BY <1>1, <1>2 DEF ReadTypes
<1>4. /\ read["fields"] = 0 /\ read["messages"] = 0
      /\ read["components"] = 0 /\ read["groups"] = 0
  BY <1>1 DEF Kinds
<1>5. FieldTypes /\ MessageTypes /\ ComponentTypes /\ GroupTypes
  <2>1. FieldTypes
    BY <1>1 DEF FieldTypes
  <2>2. MessageTypes
    BY <1>1 DEF MessageTypes
  <2>3. ComponentTypes
    BY <1>1 DEF ComponentTypes
  <2>4. GroupTypes
    BY <1>1 DEF GroupTypes
  <2> QED
    BY <2>1, <2>2, <2>3, <2>4
<1>6. IsFiniteSet({})
  BY FS_EmptySet
<1>7. FieldsRead
  BY <1>1, <1>6 DEF FieldsRead
<1>8. FieldNamesKept
  <2>1. \A tag : FieldPlaces(tag) = {}
    BY <1>4 DEF FieldPlaces
  <2> QED
    BY <1>1, <2>1 DEF FieldNamesKept
<1>9. MessageNamesKept
  <2>1. \A value : MessagePlaces(value) = {}
    BY <1>4 DEF MessagePlaces
  <2>2. DOMAIN messages = {}
    BY <1>1
  <2> QED
    BY <2>1, <2>2 DEF MessageNamesKept
<1>10. PhasesKept
  BY <1>1 DEF PhasesKept
<1>11. ComponentsRead
  BY <1>1, <1>4 DEF ComponentsRead
<1>12. \A c : ReadPlaces(c) = {}
  <2>1. \A p \in 1 .. Len(spec["groups"]) : ~(p <= 0)
    BY <1>2 DEF Kinds
  <2> QED
    BY <1>4, <2>1 DEF ReadPlaces, Occurrences
<1>13. GroupsRead
  BY <1>1, <1>12 DEF GroupsRead
<1>14. AlternatesRead
  BY <1>1 DEF AlternatesRead, Finished, Collected
<1> QED
  BY <1>1, <1>3, <1>5, <1>7, <1>8, <1>9, <1>10, <1>11, <1>13, <1>14 DEF IInv, TypeOK

LEMMA PartsKept ==
  ASSUME IInv
  PROVE  /\ spec \in Specs /\ ReadTypes /\ PhasesKept
         /\ FieldsKept /\ MessagesKept /\ ComponentsKept /\ GroupsKept
         /\ lengths \in Seq(DOMAIN fields)
  BY DEF IInv, TypeOK, FieldsKept, FieldTypes, MessagesKept, ComponentsKept, GroupsKept

LEMMA PartsNext ==
  ASSUME spec' \in Specs, ReadTypes', PhasesKept',
         FieldsKept', MessagesKept', ComponentsKept', GroupsKept'
  PROVE  IInv'
  BY DEF IInv, TypeOK, FieldsKept, MessagesKept, ComponentsKept, GroupsKept

LEMMA ReadNext ==
  ASSUME spec \in Specs, ReadTypes, UNCHANGED spec, phase' \in {"load", "groups", "done", "failed"},
         UNCHANGED read \/ \E kind \in Kinds : Visit(kind)
  PROVE  ReadTypes'
<1>1. CASE UNCHANGED read
  BY <1>1 DEF ReadTypes
<1>2. ASSUME NEW kind \in Kinds, Visit(kind)
      PROVE  ReadTypes'
  <2>1. DOMAIN read' = Kinds /\ \A k \in Kinds : read'[k] \in 0 .. Len(spec[k])
    BY <1>2, VisitResult
  <2> QED
    BY <2>1 DEF ReadTypes
<1> QED
  BY <1>1, <1>2

LEMMA StepKeeps ==
  ASSUME IInv, [Next]_vars
  PROVE  IInv'
<1>1. /\ spec \in Specs /\ ReadTypes /\ PhasesKept
      /\ FieldsKept /\ MessagesKept /\ ComponentsKept /\ GroupsKept
      /\ lengths \in Seq(DOMAIN fields)
  BY PartsKept
<1>2. "fields" \in Kinds /\ "messages" \in Kinds /\ "components" \in Kinds /\ "groups" \in Kinds
  BY DEF Kinds
<1>3. CASE LoadField
  <2>1. /\ phase = "load" /\ phase' = "load" /\ lengths = <<>> /\ Visit("fields")
        /\ UNCHANGED <<spec, messages, lengths, componentFirst, dedup, conflicts, groups>>
    BY <1>1, <1>3 DEF LoadField, groupVars, PhasesKept
  <2>2. /\ read'["messages"] = read["messages"] /\ read'["components"] = read["components"]
        /\ read'["groups"] = read["groups"]
    BY <1>1, <1>2, <2>1, VisitResult
  <2>3. ReadTypes'
    BY <1>1, <1>2, <2>1, ReadNext
  <2>4. PhasesKept'
    BY <2>1 DEF PhasesKept
  <2>5. FieldsKept'
    BY <1>3, LoadFieldKeeps
  <2>6. MessagesKept' /\ ComponentsKept'
    BY <1>1, <2>1, <2>2, MessagesStay, ComponentsStay
  <2>7. GroupsKept'
    BY <2>1, <2>2, GroupsStay DEF Finished
  <2> QED
    BY <1>1, <2>1, <2>3, <2>4, <2>5, <2>6, <2>7, PartsNext
<1>4. CASE LoadMessage
  <2>1. /\ phase = "load" /\ phase' = "load" /\ lengths = <<>> /\ Visit("messages")
        /\ UNCHANGED <<spec, fields, lengths, componentFirst, dedup, conflicts, groups>>
    BY <1>1, <1>4 DEF LoadMessage, groupVars, PhasesKept
  <2>2. /\ read'["fields"] = read["fields"] /\ read'["components"] = read["components"]
        /\ read'["groups"] = read["groups"]
    BY <1>1, <1>2, <2>1, VisitResult
  <2>3. ReadTypes'
    BY <1>1, <1>2, <2>1, ReadNext
  <2>4. PhasesKept'
    BY <2>1 DEF PhasesKept
  <2>5. MessagesKept'
    BY <1>4, LoadMessageKeeps
  <2>6. FieldsKept' /\ ComponentsKept'
    BY <1>1, <2>1, <2>2, FieldsStay, ComponentsStay
  <2>7. GroupsKept'
    BY <2>1, <2>2, GroupsStay DEF Finished
  <2> QED
    BY <1>1, <2>1, <2>3, <2>4, <2>5, <2>6, <2>7, PartsNext
<1>5. CASE EmitFields
  <2>1. /\ phase = "load" /\ phase' \in {"groups", "done"} /\ ~Finished'
        /\ UNCHANGED <<spec, read, messages, componentFirst, dedup, conflicts, groups>>
    BY <1>5 DEF EmitFields, AllLoaded, groupVars, Finished
  <2>2. ReadTypes'
    BY <1>1, <2>1, ReadNext
  <2>3. FieldsKept' /\ PhasesKept'
    BY <1>5, EmitFieldsKeeps
  <2>4. MessagesKept' /\ ComponentsKept'
    BY <1>1, <2>1, MessagesStay, ComponentsStay
  <2>5. GroupsKept'
    BY <2>1, GroupsStay DEF Finished
  <2> QED
    BY <1>1, <2>1, <2>2, <2>3, <2>4, <2>5, PartsNext
<1>6. CASE LoadComponent
  <2>1. /\ phase = "groups" /\ phase' = "groups" /\ Visit("components")
        /\ UNCHANGED <<spec, phase, fields, messages, lengths, dedup, conflicts, groups>>
    BY <1>6 DEF LoadComponent, fieldVars
  <2>2. /\ read'["fields"] = read["fields"] /\ read'["messages"] = read["messages"]
        /\ read'["groups"] = read["groups"]
    BY <1>1, <1>2, <2>1, VisitResult
  <2>3. ReadTypes'
    BY <1>1, <1>2, <2>1, ReadNext
  <2>4. PhasesKept'
    BY <1>1, <2>1, <2>2, PhasesStay
  <2>5. ComponentsKept'
    BY <1>6, LoadComponentKeeps
  <2>6. FieldsKept' /\ MessagesKept'
    BY <1>1, <2>1, <2>2, FieldsStay, MessagesStay
  <2>7. GroupsKept'
    BY <2>1, <2>2, GroupsStay DEF Finished
  <2> QED
    BY <1>1, <2>1, <2>3, <2>4, <2>5, <2>6, <2>7, PartsNext
<1>7. CASE CollectGroup
  <2>1. /\ phase = "groups" /\ phase' = "groups" /\ Visit("groups")
        /\ UNCHANGED <<spec, phase, fields, messages, lengths, componentFirst>>
    BY <1>7 DEF CollectGroup, fieldVars
  <2>2. /\ read'["fields"] = read["fields"] /\ read'["messages"] = read["messages"]
        /\ read'["components"] = read["components"]
    BY <1>1, <1>2, <2>1, VisitResult
  <2>3. ReadTypes'
    BY <1>1, <1>2, <2>1, ReadNext
  <2>4. PhasesKept'
    BY <1>1, <2>1, <2>2, PhasesStay
  <2>5. FieldsKept' /\ MessagesKept' /\ ComponentsKept'
    BY <1>1, <2>1, <2>2, FieldsStay, MessagesStay, ComponentsStay
  <2>6. GroupsKept'
    BY <1>7, CollectGroupKeeps
  <2> QED
    BY <1>1, <2>1, <2>3, <2>4, <2>5, <2>6, PartsNext
<1>8. CASE Resolve
  <2>1. /\ phase = "groups" /\ phase' = "done"
        /\ UNCHANGED <<spec, read, fields, messages, lengths, componentFirst>>
    BY <1>8 DEF Resolve, fieldVars
  <2>2. ReadTypes'
    BY <1>1, <2>1, ReadNext
  <2>3. PhasesKept'
    BY <1>1, <2>1, PhasesStay
  <2>4. FieldsKept' /\ MessagesKept' /\ ComponentsKept'
    BY <1>1, <2>1, FieldsStay, MessagesStay, ComponentsStay
  <2>5. GroupsKept'
    BY <1>8, ResolveKeeps
  <2> QED
    BY <1>1, <2>1, <2>2, <2>3, <2>4, <2>5, PartsNext
<1>9. CASE CannotOpen
  <2>1. /\ phase \in {"load", "groups"} /\ phase' = "failed"
        /\ UNCHANGED <<spec, read, fields, messages, lengths, componentFirst, dedup, conflicts, groups>>
    BY <1>9 DEF CannotOpen, AllLoaded, fieldVars, groupVars
  <2>2. ReadTypes'
    BY <1>1, <2>1, ReadNext
  <2>3. PhasesKept'
    BY <2>1 DEF PhasesKept
  <2>4. FieldsKept' /\ MessagesKept' /\ ComponentsKept'
    BY <1>1, <2>1, FieldsStay, MessagesStay, ComponentsStay
  <2>5. GroupsKept'
    BY <2>1, GroupsStay DEF Finished
  <2> QED
    BY <1>1, <2>1, <2>2, <2>3, <2>4, <2>5, PartsNext
<1>10. CASE UNCHANGED vars
  <2>1. UNCHANGED <<spec, read, phase, fields, messages, lengths, componentFirst, dedup, conflicts, groups>>
    BY <1>10 DEF vars
  <2>2. ReadTypes'
    <3>1. phase' \in {"load", "groups", "done", "failed"}
      BY <1>1, <2>1 DEF ReadTypes
    <3> QED
      BY <1>1, <2>1, <3>1, ReadNext
  <2>3. PhasesKept'
    BY <1>1, <2>1, PhasesStay
  <2>4. FieldsKept' /\ MessagesKept' /\ ComponentsKept'
    BY <1>1, <2>1, FieldsStay, MessagesStay, ComponentsStay
  <2>5. GroupsKept'
    <3>1. Finished' <=> Finished
      BY <2>1 DEF Finished
    <3> QED
      BY <1>10, <2>1, <3>1, GroupsStay, GroupsDone
  <2> QED
    BY <1>1, <2>1, <2>2, <2>3, <2>4, <2>5, PartsNext
<1> QED
  BY <1>3, <1>4, <1>5, <1>6, <1>7, <1>8, <1>9, <1>10 DEF Next

\* The invariant: what is kept is what was read, in every state.
THEOREM Invariance == Spec => []IInv
<1>1. Init => IInv
  BY InitKeeps
<1>2. IInv /\ [Next]_vars => IInv'
  BY StepKeeps
<1> QED
  BY <1>1, <1>2, PTL DEF Spec

\* Whatever the documents say, the tables hold only what was said in them
\* (TypeOK).
THEOREM TypeCorrect == Spec => []TypeOK
<1>1. IInv => TypeOK
  BY DEF IInv
<1> QED
  BY <1>1, Invariance, PTL

\* A field or message keeps every name it is given, each once, in the order they
\* are first given, for any number of declarations (load_fields, load_messages).
THEOREM NamesAreKept == Spec => []NamesKept
<1>1. IInv => NamesKept
  BY DEF IInv, NamesKept
<1> QED
  BY <1>1, Invariance, PTL

----------------------------------------------------------------------------
(* The table of length fields *)

LEMMA LengthsFound ==
  ASSUME IInv
  PROVE  LengthTable
<1> SUFFICES ASSUME phase = "done", spec.args # {"-go"},
                    NEW tag \in Said("fields", "tag")
             PROVE  InLengthTable(tag) <=>
                      /\ tag \notin {9, 383} /\ tag > 0
                      /\ \E p \in FieldPlaces(tag) :
                           /\ spec["fields"][p].type \in {"LENGTH", "Length"}
                           /\ \A q \in FieldPlaces(tag) : p <= q
  BY DEF LengthTable
<1>1. /\ spec \in Specs /\ ReadTypes /\ FieldTypes /\ FieldsRead /\ FieldNamesKept
      /\ lengths = Lengths
  BY DEF IInv, TypeOK, PhasesKept
<1>2. tag \in Int \ {None}
  <2>1. PICK i \in 1 .. Len(spec["fields"]) : tag = spec["fields"][i].tag
    BY DEF Said
  <2> QED
    BY <1>1, <2>1, SpecShape
<1>3. DOMAIN fields \subseteq Nat \ {0} /\ IsFiniteSet(DOMAIN fields) /\ lengths \in Seq(DOMAIN fields)
  BY <1>1 DEF FieldTypes, FieldsRead
<1>4. Ascends(lengths, DataLengths)
  <2>1. DOMAIN fields \subseteq Nat
    BY <1>3
  <2> QED
    BY <1>1, <1>3, <2>1, LengthsAscend
<1>5. InLengthTable(tag) <=> tag \in Range(lengths)
  <2>1. lengths \in Seq(Nat)
    BY <1>3
  <2>2. \A i, j \in DOMAIN lengths : i < j => lengths[i] < lengths[j]
    BY <1>4 DEF Ascends
  <2> QED
    BY <1>2, <2>1, <2>2, LookupResult
<1>6. InLengthTable(tag) <=> tag \in DOMAIN fields /\ fields[tag].type = "Length" /\ tag \notin {9, 383}
  BY <1>4, <1>5 DEF Ascends, DataLengths, IsDataLength
<1>7. FieldPlaces(tag) \subseteq Nat
  <2>1. read["fields"] \in Nat
    BY <1>1, SpecShape DEF ReadTypes, Kinds
  <2> QED
    BY <2>1 DEF FieldPlaces
<1>8. tag \in DOMAIN fields => \E p \in FieldPlaces(tag) :
        /\ \A q \in FieldPlaces(tag) : p <= q
        /\ fields[tag].type = NormalizeType(spec["fields"][p].type)
  BY <1>1 DEF FieldsRead
<1>9. \A type : NormalizeType(type) = "Length" <=> type \in {"LENGTH", "Length"}
  BY DEF NormalizeType
<1>10. CASE tag \in DOMAIN fields
  <2>1. PICK p \in FieldPlaces(tag) :
          /\ \A q \in FieldPlaces(tag) : p <= q
          /\ fields[tag].type = NormalizeType(spec["fields"][p].type)
    BY <1>8, <1>10
  <2>2. \A q \in FieldPlaces(tag) : (\A r \in FieldPlaces(tag) : q <= r) => q = p
    BY <1>7, <2>1
  <2>3. (\E q \in FieldPlaces(tag) :
           /\ spec["fields"][q].type \in {"LENGTH", "Length"}
           /\ \A r \in FieldPlaces(tag) : q <= r)
          <=> spec["fields"][p].type \in {"LENGTH", "Length"}
    BY <2>1, <2>2
  <2>4. tag > 0
    BY <1>3, <1>10
  <2> QED
    BY <1>6, <1>9, <1>10, <2>1, <2>3, <2>4
<1>11. CASE tag \notin DOMAIN fields
  <2>1. tag > 0 => FieldPlaces(tag) = {}
    BY <1>1, <1>11 DEF FieldNamesKept
  <2> QED
    BY <1>6, <1>11, <2>1
<1> QED
  BY <1>10, <1>11

\* The reader takes a tag for the length of data just if the first declaration
\* of the tag says so, however many tags there are, wherever the bitmap ends and
\* however deep the search of the table goes (length_fields, length_tag_index).
THEOREM LengthTableExact == Spec => []LengthTable
<1>1. IInv => LengthTable
  BY LengthsFound
<1> QED
  BY <1>1, Invariance, PTL

----------------------------------------------------------------------------
(* Paths of first children *)

\* All components are read.
AllComponents ==
  /\ spec \in Specs /\ ReadTypes /\ ComponentTypes /\ ComponentsRead
  /\ ~Pending("components")

LEMMA ComponentsKnown ==
  ASSUME AllComponents
  PROVE  /\ \A name : name # None => (IsComponent(name) <=> IsDeclared(name))
         /\ \A p, name : FirstDeclares(p, name) /\ IsComponent(name) =>
              Hop(name) = spec["components"][p].first /\ Hop(name) # None
         /\ \A name : IsComponent(name) => \E p : FirstDeclares(p, name)
<1> DEFINE size == Len(spec["components"])
<1>1. read["components"] = size /\ size \in Nat
  <2>1. read["components"] \in 0 .. size /\ size \in Nat
    BY SpecShape DEF AllComponents, ReadTypes, Kinds
  <2> QED
    BY <2>1 DEF AllComponents, Pending
<1>2. /\ \A name \in Said("components", "name") :
           (\E p \in 1 .. size : Declares(p, name)) => name \in DOMAIN componentFirst
      /\ \A name \in DOMAIN componentFirst : \E p \in 1 .. size :
           FirstDeclares(p, name) /\ componentFirst[name] = spec["components"][p].first
  BY <1>1 DEF AllComponents, ComponentsRead
<1>3. \A p, name : Declares(p, name) => p \in 1 .. size /\ spec["components"][p].name = name
                                        /\ spec["components"][p].first # None
  BY DEF Declares
<1>4. \A p, q, name : FirstDeclares(p, name) /\ FirstDeclares(q, name) => p = q
  <2> SUFFICES ASSUME NEW p, NEW q, NEW name, FirstDeclares(p, name), FirstDeclares(q, name)
               PROVE  p = q
    OBVIOUS
  <2>1. /\ p \in 1 .. size /\ q \in 1 .. size /\ Declares(p, name) /\ Declares(q, name)
        /\ q \notin 1 .. p - 1 /\ p \notin 1 .. q - 1
    BY <1>3 DEF FirstDeclares
  <2> QED
    BY <1>1, <2>1
<1>5. ASSUME NEW name, name # None, IsDeclared(name)
      PROVE  name \in DOMAIN componentFirst
  <2>1. PICK p \in 1 .. size : Declares(p, name)
    BY <1>5 DEF IsDeclared
  <2>2. name \in Said("components", "name")
    BY <1>3, <1>5, <2>1, SaidResult
  <2> QED
    BY <1>2, <2>1, <2>2
<1>6. ASSUME NEW name \in DOMAIN componentFirst
      PROVE  IsDeclared(name) /\ \E p : FirstDeclares(p, name)
  BY <1>2 DEF IsDeclared, FirstDeclares
<1>7. ASSUME NEW p, NEW name, FirstDeclares(p, name), name \in DOMAIN componentFirst
      PROVE  componentFirst[name] = spec["components"][p].first /\ componentFirst[name] # None
  <2>1. PICK q \in 1 .. size :
          FirstDeclares(q, name) /\ componentFirst[name] = spec["components"][q].first
    BY <1>2, <1>7
  <2>2. p = q /\ spec["components"][p].first # None
    BY <1>3, <1>4, <1>7, <2>1 DEF FirstDeclares
  <2> QED
    BY <2>1, <2>2
<1> QED
  BY <1>5, <1>6, <1>7 DEF IsComponent, Hop

\* The search goes where the first children lead, from one it does not mistake.
LEMMA ChildrenLead ==
  ASSUME AllComponents, NEW c \in Children, c.name # None, ~Mistakable(c)
  PROVE  /\ Opens(c) <=> IsComponent(c.name)
         /\ \A next : LeadsTo(c, next) =>
              next \in Children /\ next.name # None /\ next.name = Hop(c.name)
         /\ Opens(c) => \E next : LeadsTo(c, next)
<1>1. IsDeclared(c.name) <=> IsComponent(c.name)
  BY ComponentsKnown
<1>2. Opens(c) <=> IsComponent(c.name)
  BY <1>1 DEF Opens, Mistakable
<1>3. ASSUME NEW next, LeadsTo(c, next)
      PROVE  next \in Children /\ next.name # None /\ next.name = Hop(c.name)
  <2>1. PICK p \in 1 .. Len(spec["components"]) :
          FirstDeclares(p, c.name) /\ next = Child(spec["components"][p])
    BY <1>3 DEF LeadsTo
  <2>2. IsComponent(c.name)
    BY <1>2, <1>3 DEF LeadsTo
  <2>3. Hop(c.name) = spec["components"][p].first /\ Hop(c.name) # None
    BY <2>1, <2>2, ComponentsKnown
  <2>4. next.name = spec["components"][p].first
    BY <2>1 DEF Child
  <2>5. next \in Children
    BY <2>1 DEF Children
  <2> QED
    BY <2>3, <2>4, <2>5
<1>4. ASSUME Opens(c)
      PROVE  \E next : LeadsTo(c, next)
  <2>1. PICK p : FirstDeclares(p, c.name)
    BY <1>2, <1>4, ComponentsKnown
  <2>2. p \in 1 .. Len(spec["components"])
    BY <2>1 DEF FirstDeclares, Declares
  <2>3. LeadsTo(c, Child(spec["components"][p]))
    BY <1>4, <2>1, <2>2 DEF LeadsTo
  <2> QED
    BY <2>3
<1> QED
  BY <1>2, <1>3, <1>4

\* A name that is no component ends the search.
LEMMA ChaseEnds ==
  ASSUME NEW name, NEW j \in Nat, ~IsComponent(Chase(name)[j]), NEW k \in Nat, j <= k
  PROVE  Chase(name)[k] = Chase(name)[j]
<1>1. PICK hop : hop = Chase(name)
  OBVIOUS
<1>2. \A n \in Nat : n # 0 => hop[n] = Hop(hop[n - 1])
  BY <1>1, ChaseSteps
<1> DEFINE S == {n \in Nat : n >= j => hop[n] = hop[j]}
<1>3. 0 \in S
  OBVIOUS
<1>4. ASSUME NEW n \in Nat \ {0}, n - 1 \in S
      PROVE  n \in S
  <2>1. CASE n <= j
    BY <2>1
  <2>2. CASE n > j
    <3>1. hop[n - 1] = hop[j]
      BY <1>4, <2>2
    <3>2. hop[n] = Hop(hop[j])
      BY <1>2, <3>1
    <3> QED
      BY <1>1, <3>2 DEF Hop
  <2> QED
    BY <2>1, <2>2
<1>5. Nat \subseteq S
  <2> HIDE DEF S
  <2> QED
    BY <1>3, <1>4, Counting
<1>6. hop[k] = hop[j]
  BY <1>5
<1> QED
  BY <1>1, <1>6

\* As long as the search comes by components, a path goes with it.
LEMMA PathGoes ==
  ASSUME AllComponents, NEW child \in Children, child.name # None, DistinctNames(child),
         NEW k \in Nat, k < MaxComponentDepth, \A j \in 0 .. k - 1 : IsComponent(Chase(child.name)[j])
  PROVE  \E path \in [1 .. k + 1 -> Children] :
           IsPath(path, k + 1, child) /\ path[k + 1].name = Chase(child.name)[k]
                                      /\ path[k + 1].name # None
<1>1. PICK hop : hop = Chase(child.name)
  OBVIOUS
<1>2. hop[0] = child.name /\ \A n \in Nat : n # 0 => hop[n] = Hop(hop[n - 1])
  BY <1>1, ChaseSteps
<1>3. MaxComponentDepth \in Nat
  BY DepthAssumption
<1> DEFINE Goes(j) == \E path \in [1 .. j + 1 -> Children] :
             IsPath(path, j + 1, child) /\ path[j + 1].name = hop[j] /\ path[j + 1].name # None
           S == {j \in Nat : j <= k => Goes(j)}
<1>4. 0 \in S
  <2> DEFINE path == [i \in 1 .. 1 |-> child]
  <2>1. path \in [1 .. 0 + 1 -> Children] /\ path[1] = child /\ 0 + 1 = 1
    OBVIOUS
  <2>2. IsPath(path, 0 + 1, child)
    BY <2>1 DEF IsPath
  <2> HIDE DEF path
  <2>3. Goes(0)
    BY <1>2, <2>1, <2>2
  <2> HIDE DEF Goes
  <2> QED
    BY <2>3
<1>5. ASSUME NEW j \in Nat \ {0}, j - 1 \in S
      PROVE  j \in S
  <2> SUFFICES ASSUME j <= k PROVE Goes(j)
    BY DEF S
  <2>1. Goes(j - 1) /\ (j - 1) + 1 = j
    BY <1>5
  <2>2. PICK path \in [1 .. j -> Children] :
          IsPath(path, j, child) /\ path[j].name = hop[j - 1] /\ path[j].name # None
    BY <2>1
  <2>3. j \in 1 .. j /\ j \in 1 .. MaxComponentDepth /\ 1 \in 1 .. j
    BY <1>3
  <2>4. path[j] \in Children /\ ~Mistakable(path[j])
    BY <2>2, <2>3 DEF DistinctNames
  <2>5. IsComponent(path[j].name)
    <3>1. j - 1 \in 0 .. k - 1
      OBVIOUS
    <3> QED
      BY <1>1, <2>2, <3>1
  <2>6. PICK next : LeadsTo(path[j], next)
    BY <2>2, <2>4, <2>5, ChildrenLead
  <2>7. next \in Children /\ next.name # None /\ next.name = hop[j]
    <3>1. next \in Children /\ next.name # None /\ next.name = Hop(path[j].name)
      BY <2>2, <2>4, <2>6, ChildrenLead
    <3> QED
      BY <1>2, <2>2, <3>1
  <2> DEFINE longer == [i \in 1 .. j + 1 |-> IF i = j + 1 THEN next ELSE path[i]]
  <2>8. /\ longer \in [1 .. j + 1 -> Children] /\ longer[j + 1] = next
        /\ \A i \in 1 .. j : longer[i] = path[i]
    <3>1. \A i \in 1 .. j + 1 : i = j + 1 \/ i \in 1 .. j
      OBVIOUS
    <3>2. j + 1 \in 1 .. j + 1 /\ \A i \in 1 .. j : i \in 1 .. j + 1 /\ i # j + 1
      OBVIOUS
    <3> QED
      BY <2>7, <3>1, <3>2
  <2> HIDE DEF longer
  <2>9. IsPath(longer, j + 1, child)
    <3>1. longer[1] = child
      BY <2>2, <2>3, <2>8 DEF IsPath
    <3>2. ASSUME NEW i \in 1 .. (j + 1) - 1
          PROVE  LeadsTo(longer[i], longer[i + 1])
      <4>1. CASE i = j
        BY <2>3, <2>6, <2>8, <4>1
      <4>2. CASE i # j
        <5>1. i \in 1 .. j - 1 /\ i \in 1 .. j /\ i + 1 \in 1 .. j
          BY <4>2
        <5> QED
          BY <2>2, <2>8, <5>1 DEF IsPath
      <4> QED
        BY <4>1, <4>2
    <3> QED
      BY <3>1, <3>2 DEF IsPath
  <2> QED
    BY <2>7, <2>8, <2>9
<1>6. Nat \subseteq S
  <2> HIDE DEF S
  <2> QED
    BY <1>4, <1>5, Counting
<1>7. Goes(k)
  <2> HIDE DEF Goes
  <2> QED
    BY <1>6
<1> QED
  BY <1>1, <1>7

\* A path of first children leads just where the search ends.
LEMMA PathResult ==
  ASSUME AllComponents, NEW child \in Children, child.name # None, DistinctNames(child)
  PROVE  \A leaf : PathTo(child, leaf) <=> Leaf(child.name) = leaf /\ leaf # None
<1>1. PICK hop : hop = Chase(child.name)
  OBVIOUS
<1>2. hop[0] = child.name /\ \A n \in Nat : n # 0 => hop[n] = Hop(hop[n - 1])
  BY <1>1, ChaseSteps
<1>3. MaxComponentDepth \in Nat /\ MaxComponentDepth >= 1 /\ MaxComponentDepth - 1 \in Nat
  BY DepthAssumption
<1>4. Leaf(child.name) = IF IsComponent(hop[MaxComponentDepth - 1]) THEN None
                         ELSE hop[MaxComponentDepth - 1]
  BY <1>1 DEF Leaf
<1>5. ASSUME NEW leaf, PathTo(child, leaf)
      PROVE  Leaf(child.name) = leaf /\ leaf # None
  <2>1. PICK n \in 1 .. MaxComponentDepth : \E path \in [1 .. n -> Children] :
          IsPath(path, n, child) /\ path[n].name = leaf /\ ~Opens(path[n])
    BY <1>5 DEF PathTo
  <2>2. PICK path \in [1 .. n -> Children] :
          IsPath(path, n, child) /\ path[n].name = leaf /\ ~Opens(path[n])
    BY <2>1
  <2>3. n \in Nat /\ n >= 1 /\ n <= MaxComponentDepth
    BY <1>3, <2>1
  <2>13. path[1] = child /\ \A i \in 1 .. n - 1 : LeadsTo(path[i], path[i + 1])
    BY <2>2 DEF IsPath
  <2>14. \A i \in 1 .. n : ~Mistakable(path[i])
    BY <2>2 DEF DistinctNames
  <2> DEFINE S == {j \in Nat : j + 1 <= n => path[j + 1].name = hop[j] /\ hop[j] # None}
  <2>4. 0 \in S
    BY <1>2, <2>13
  <2>5. ASSUME NEW j \in Nat \ {0}, j - 1 \in S
        PROVE  j \in S
    <3> SUFFICES ASSUME j + 1 <= n PROVE path[j + 1].name = hop[j] /\ hop[j] # None
      OBVIOUS
    <3>1. j \in 1 .. n - 1 /\ j \in 1 .. n /\ (j - 1) + 1 = j /\ j <= n
      BY <2>3
    <3>2. path[j].name = hop[j - 1] /\ hop[j - 1] # None
      BY <2>5, <3>1
    <3>3. LeadsTo(path[j], path[j + 1]) /\ path[j] \in Children /\ ~Mistakable(path[j])
      BY <2>2, <2>13, <2>14, <3>1
    <3>4. path[j + 1].name # None /\ path[j + 1].name = Hop(path[j].name)
      BY <3>2, <3>3, ChildrenLead
    <3>5. hop[j] = Hop(hop[j - 1])
      BY <1>2
    <3> QED
      BY <3>2, <3>4, <3>5
  <2>6. Nat \subseteq S
    <3> HIDE DEF S
    <3> QED
      BY <2>4, <2>5, Counting
  <2>7. n - 1 \in Nat /\ (n - 1) + 1 = n /\ n - 1 <= MaxComponentDepth - 1 /\ n \in 1 .. n
    BY <1>3, <2>3
  <2>8. n - 1 \in S
    BY <2>6, <2>7
  <2>9. path[n].name = hop[n - 1] /\ hop[n - 1] # None
    BY <2>3, <2>7, <2>8
  <2>10. path[n] \in Children /\ path[n].name # None /\ ~Mistakable(path[n])
    BY <2>2, <2>7, <2>9, <2>14
  <2>11. ~IsComponent(hop[n - 1])
    BY <2>2, <2>9, <2>10, ChildrenLead
  <2>12. hop[MaxComponentDepth - 1] = hop[n - 1]
    BY <1>1, <1>3, <2>7, <2>11, ChaseEnds
  <2> QED
    BY <1>4, <2>2, <2>9, <2>11, <2>12
<1>6. ASSUME NEW leaf, Leaf(child.name) = leaf, leaf # None
      PROVE  PathTo(child, leaf)
  <2>1. hop[MaxComponentDepth - 1] = leaf /\ ~IsComponent(leaf)
    BY <1>4, <1>6
  <2> DEFINE T == {j \in Nat : ~IsComponent(hop[j])}
  <2>2. T \subseteq Nat /\ MaxComponentDepth - 1 \in T
    BY <1>3, <2>1
  <2>3. PICK k \in T : \A j \in T : k <= j
    <3> HIDE DEF T
    <3> QED
      BY <2>2, LeastNumber
  <2>4. k \in Nat /\ k <= MaxComponentDepth - 1 /\ ~IsComponent(hop[k])
    BY <2>2, <2>3
  <2>5. hop[k] = leaf
    BY <1>1, <1>3, <2>1, <2>4, ChaseEnds
  <2>6. \A j \in 0 .. k - 1 : IsComponent(hop[j])
    <3>1. \A j \in 0 .. k - 1 : j \in Nat /\ ~(k <= j)
      BY <2>4
    <3> QED
      BY <2>3, <3>1
  <2>7. k + 1 \in 1 .. MaxComponentDepth /\ k < MaxComponentDepth /\ k + 1 \in 1 .. k + 1
    BY <1>3, <2>4
  <2>8. PICK path \in [1 .. k + 1 -> Children] :
          IsPath(path, k + 1, child) /\ path[k + 1].name = hop[k] /\ path[k + 1].name # None
    BY <1>1, <2>4, <2>6, <2>7, PathGoes
  <2>9. path[k + 1] \in Children /\ ~Mistakable(path[k + 1])
    BY <2>7, <2>8 DEF DistinctNames
  <2>10. ~Opens(path[k + 1])
    BY <2>4, <2>8, <2>9, ChildrenLead
  <2> QED
    BY <2>5, <2>7, <2>8, <2>10 DEF PathTo
<1> QED
  BY <1>5, <1>6

\* Where a path leads to, a first child may be.
LEMMA PathEnds ==
  ASSUME NEW child, NEW leaf, PathTo(child, leaf)
  PROVE  leaf \in PossibleLeaves
<1>1. PICK n \in 1 .. MaxComponentDepth : \E path \in [1 .. n -> Children] :
        IsPath(path, n, child) /\ path[n].name = leaf /\ ~Opens(path[n])
  BY DEF PathTo
<1>2. n \in 1 .. n
  BY <1>1, DepthAssumption
<1> QED
  BY <1>1, <1>2 DEF PossibleLeaves

----------------------------------------------------------------------------
(* The delimiters *)

\* All there is to read is read, and what was found is decided.
LEMMA AllDecided ==
  ASSUME IInv, Finished
  PROVE  /\ AllComponents /\ Decided /\ GroupsRead /\ GroupTypes
         /\ \A c : ReadPlaces(c) = Occurrences(c) /\ Occurrences(c) \subseteq Nat
<1>1. /\ spec \in Specs /\ ReadTypes /\ ComponentTypes /\ ComponentsRead
      /\ GroupsRead /\ GroupTypes /\ Decided
  BY DEF IInv, TypeOK, AlternatesRead
<1>2. ~Pending("components") /\ ~Pending("groups")
  BY <1>1 DEF Decided
<1>3. read["groups"] = Len(spec["groups"]) /\ Len(spec["groups"]) \in Nat
  <2>1. read["groups"] \in 0 .. Len(spec["groups"]) /\ Len(spec["groups"]) \in Nat
    BY <1>1, SpecShape DEF ReadTypes, Kinds
  <2> QED
    BY <1>2, <2>1 DEF Pending
<1>4. \A c : ReadPlaces(c) = Occurrences(c) /\ Occurrences(c) \subseteq Nat
  BY <1>3 DEF ReadPlaces, Occurrences
<1> QED
  BY <1>1, <1>2, <1>4 DEF AllComponents

\* What an occurrence leads to, and what it starts with.
LEMMA OccurrenceResult ==
  ASSUME AllComponents, NEW c, NEW p \in Occurrences(c), DistinctNames(Begins(p))
  PROVE  /\ \A leaf : PathTo(Begins(p), leaf)
                        <=> Leaf(spec["groups"][p].first) = leaf /\ leaf # None
         /\ AlternateLeaf(spec["groups"][p].first) \in PossibleLeaves
         /\ \A name : Starts(p, name) <=> name = AlternateLeaf(spec["groups"][p].first)
<1>1. PICK child : child = Begins(p)
  OBVIOUS
<1>2. /\ p \in 1 .. Len(spec["groups"]) /\ spec["groups"][p].first # None
      /\ child.name = spec["groups"][p].first
  BY <1>1 DEF Occurrences, Begins, Child
<1>3. child \in Children
  BY <1>1, <1>2 DEF Children, Begins
<1>4. \A leaf : PathTo(child, leaf) <=> Leaf(child.name) = leaf /\ leaf # None
  BY <1>1, <1>2, <1>3, PathResult
<1>5. \A leaf : PathTo(child, leaf) => leaf \in PossibleLeaves
  BY PathEnds
<1>6. child.name \in PossibleLeaves
  BY <1>3 DEF PossibleLeaves
<1>7. AlternateLeaf(child.name) = IF Leaf(child.name) = None THEN child.name ELSE Leaf(child.name)
  BY DEF AlternateLeaf
<1>8. AlternateLeaf(child.name) \in PossibleLeaves
  BY <1>4, <1>5, <1>6, <1>7
<1>9. \A name : Starts(p, name) <=>
        \/ PathTo(child, name)
        \/ child.name = name /\ ~ \E leaf \in PossibleLeaves : PathTo(child, leaf)
  BY <1>1 DEF Starts
<1>10. (\E leaf \in PossibleLeaves : PathTo(child, leaf)) <=> Leaf(child.name) # None
  BY <1>4, <1>5
<1>11. \A name : Starts(p, name) <=> name = AlternateLeaf(child.name)
  BY <1>4, <1>7, <1>9, <1>10
<1> QED
  BY <1>1, <1>2, <1>4, <1>8, <1>11

LEMMA DelimitersFound ==
  ASSUME IInv
  PROVE  DelimiterIsLeaf
<1> SUFFICES ASSUME Finished, NEW c \in Said("groups", "count"),
                    \A p \in Occurrences(c) : First(p, c) => DistinctNames(Begins(p)),
                    NEW leaf \in PossibleLeaves
             PROVE  (c \in DOMAIN groups /\ groups[c] = leaf)
                      <=> \E p \in Occurrences(c) : First(p, c) /\ PathTo(Begins(p), leaf)
  BY DEF DelimiterIsLeaf, DelimiterExact
<1>1. /\ AllComponents /\ Decided /\ GroupsRead
      /\ \A d : ReadPlaces(d) = Occurrences(d) /\ Occurrences(d) \subseteq Nat
  BY AllDecided
<1>2. groups = [d \in Registered |-> Leaf(dedup[d])]
  BY <1>1 DEF Decided
<1>3. c \in DOMAIN groups /\ groups[c] = leaf
        <=> c \in DOMAIN dedup /\ Leaf(dedup[c]) = leaf /\ leaf # None
  BY <1>2 DEF Registered
<1>4. Occurrences(c) # {} => c \in DOMAIN dedup
  BY <1>1 DEF GroupsRead
<1>5. CASE c \in DOMAIN dedup
  <2>1. PICK p \in Occurrences(c) : First(p, c) /\ dedup[c] = spec["groups"][p].first
    BY <1>1, <1>5 DEF GroupsRead, First
  <2>2. \A q \in Occurrences(c) : First(q, c) => q = p
    BY <1>1, <2>1 DEF First
  <2>3. PathTo(Begins(p), leaf) <=> Leaf(dedup[c]) = leaf /\ leaf # None
    BY <1>1, <2>1, OccurrenceResult
  <2> QED
    BY <1>3, <1>5, <2>1, <2>2, <2>3
<1>6. CASE c \notin DOMAIN dedup
  BY <1>3, <1>4, <1>6
<1> QED
  BY <1>5, <1>6

\* Every repeating group is dispatched on the field the path from its first
\* occurrence leads to, however many components there are, however they nest and
\* wherever they come back to themselves, if on that path no field has the name of
\* a component; other groups may mix the names (resolve_first_field, load_groups).
THEOREM DelimitersAreLeaves == Spec => []DelimiterIsLeaf
<1>1. IInv => DelimiterIsLeaf
  BY DelimitersFound
<1> QED
  BY <1>1, Invariance, PTL

----------------------------------------------------------------------------
(* The alternates *)

\* Alternates that differ in their first names are as many as these.
LEMMA AsManyFirsts ==
  ASSUME NEW alternates \in Seq(Alternates), NEW S,
         \A i, j \in DOMAIN alternates : alternates[i].first = alternates[j].first => i = j,
         {alternates[i].first : i \in DOMAIN alternates} = S
  PROVE  Cardinality(S) = Len(alternates)
<1> DEFINE n == Len(alternates)
           f == [i \in 1 .. n |-> alternates[i].first]
<1>1. n \in Nat /\ DOMAIN alternates = 1 .. n
  OBVIOUS
<1> HIDE DEF n
<1>2. f \in [1 .. n -> S]
  BY <1>1
<1>3. \A i, j \in 1 .. n : f[i] = f[j] => i = j
  BY <1>1
<1>4. \A x \in S : \E i \in 1 .. n : f[i] = x
  BY <1>1
<1> HIDE DEF f
<1>5. f \in Bijection(1 .. n, S)
  BY <1>2, <1>3, <1>4 DEF Bijection, Injection, Surjection, IsInjective
<1>6. ExistsBijection(1 .. n, S)
  BY <1>5 DEF ExistsBijection
<1>7. Cardinality(S) = n
  BY <1>1, <1>6, FS_CountingElements
<1> QED
  BY <1>7 DEF n

\* The fields the occurrences start with are the leaves of what was added.
LEMMA DelimitersAdded ==
  ASSUME AllComponents, \A d : ReadPlaces(d) = Occurrences(d), NEW c,
         \A p \in Occurrences(c) : DistinctNames(Begins(p))
  PROVE  /\ Delimiters(c) = {AlternateLeaf(a.first) : a \in Added(c)}
         /\ \A name : ContextsOf(c, name) =
              {x \in Contexts : \E a \in {LeafOf(b) : b \in Added(c)} : a.first = name /\ x \in a.contexts}
<1>1. \A p \in Occurrences(c) :
        /\ AlternateLeaf(spec["groups"][p].first) \in PossibleLeaves
        /\ \A name : Starts(p, name) <=> name = AlternateLeaf(spec["groups"][p].first)
  BY OccurrenceResult
<1>2. Added(c) = {AddedAt(p) : p \in Occurrences(c)}
  BY DEF Added
<1>3. \A p : AddedAt(p).first = spec["groups"][p].first
             /\ AddedAt(p).contexts = {spec["groups"][p].context} \ {None}
  BY DEF AddedAt
<1>4. Delimiters(c) = {AlternateLeaf(a.first) : a \in Added(c)}
  <2>1. ASSUME NEW name \in Delimiters(c)
        PROVE  \E a \in Added(c) : name = AlternateLeaf(a.first)
    <3>1. PICK p \in Occurrences(c) : Starts(p, name)
      BY DEF Delimiters
    <3> QED
      BY <1>1, <1>2, <1>3, <3>1
  <2>2. ASSUME NEW a \in Added(c)
        PROVE  AlternateLeaf(a.first) \in Delimiters(c)
    <3>1. PICK p \in Occurrences(c) : a = AddedAt(p)
      BY <1>2
    <3>2. a.first = spec["groups"][p].first
      BY <1>3, <3>1
    <3>3. AlternateLeaf(a.first) \in PossibleLeaves /\ Starts(p, AlternateLeaf(a.first))
      BY <1>1, <3>2
    <3> QED
      BY <3>3 DEF Delimiters
  <2> QED
    BY <2>1, <2>2
<1>5. ASSUME NEW name
      PROVE  ContextsOf(c, name) =
               {x \in Contexts : \E a \in {LeafOf(b) : b \in Added(c)} : a.first = name /\ x \in a.contexts}
  <2>1. ASSUME NEW x \in ContextsOf(c, name)
        PROVE  /\ x \in Contexts
               /\ \E a \in {LeafOf(b) : b \in Added(c)} : a.first = name /\ x \in a.contexts
    <3>1. PICK p \in Occurrences(c) : Starts(p, name) /\ x = spec["groups"][p].context /\ x # None
      BY DEF ContextsOf
    <3>2. p \in 1 .. Len(spec["groups"])
      BY DEF Occurrences
    <3>3. x \in Contexts
      BY <3>1, <3>2, SaidResult DEF Contexts
    <3>4. name = AlternateLeaf(AddedAt(p).first) /\ x \in AddedAt(p).contexts
      BY <1>1, <1>3, <3>1
    <3>5. LeafOf(AddedAt(p)).first = name /\ x \in LeafOf(AddedAt(p)).contexts
      BY <3>4 DEF LeafOf
    <3>6. AddedAt(p) \in Added(c)
      BY <1>2
    <3> QED
      BY <3>3, <3>5, <3>6
  <2>2. ASSUME NEW x \in Contexts, NEW b \in Added(c), LeafOf(b).first = name, x \in LeafOf(b).contexts
        PROVE  x \in ContextsOf(c, name)
    <3>1. PICK p \in Occurrences(c) : b = AddedAt(p)
      BY <1>2
    <3>2. name = AlternateLeaf(b.first) /\ x \in b.contexts
      BY <2>2 DEF LeafOf
    <3>3. Starts(p, name)
      BY <1>1, <1>3, <3>1, <3>2
    <3>4. x = spec["groups"][p].context /\ x # None
      BY <1>3, <3>1, <3>2
    <3> QED
      BY <3>3, <3>4 DEF ContextsOf
  <2> QED
    BY <2>1, <2>2
<1> QED
  BY <1>4, <1>5

LEMMA ConflictsFound ==
  ASSUME IInv
  PROVE  ConflictsExact
<1> DEFINE Clear(c) == \A p \in Occurrences(c) : DistinctNames(Begins(p))
<1> SUFFICES ASSUME Finished
             PROVE  /\ DOMAIN conflicts \subseteq DOMAIN groups
                    /\ \A c \in DOMAIN groups : Clear(c) => AlternatesExact(c)
  BY DEF ConflictsExact
<1>1. /\ AllComponents /\ Decided /\ GroupsRead /\ GroupTypes
      /\ \A c : ReadPlaces(c) = Occurrences(c) /\ Occurrences(c) \subseteq Nat
  BY AllDecided
<1>2. /\ groups = [c \in Registered |-> Leaf(dedup[c])]
      /\ DOMAIN conflicts =
           {c \in Registered : \E a, b \in Added(c) : AlternateLeaf(a.first) # AlternateLeaf(b.first)}
      /\ \A c \in DOMAIN conflicts :
           /\ Exactly(conflicts[c], {LeafOf(a) : a \in Added(c)})
           /\ Len(conflicts[c]) >= 1 /\ conflicts[c][1].first = AlternateLeaf(dedup[c])
  BY <1>1 DEF Decided
<1>3. \A c \in Registered : c \in DOMAIN dedup /\ Leaf(dedup[c]) # None
  BY DEF Registered
<1>4. conflicts \in [DOMAIN conflicts -> Seq(Alternates)]
  BY <1>1 DEF GroupTypes
<1>5. \A c : Clear(c) => Delimiters(c) = {AlternateLeaf(a.first) : a \in Added(c)}
  BY <1>1, DelimitersAdded
<1>6. ASSUME NEW c \in DOMAIN conflicts, Clear(c)
      PROVE  /\ Cardinality(Delimiters(c)) >= 2
             /\ Len(conflicts[c]) = Cardinality(Delimiters(c))
             /\ conflicts[c][1].first = groups[c]
             /\ \A name \in Delimiters(c) :
                  [first |-> name, contexts |-> ContextsOf(c, name)] \in Range(conflicts[c])
  <2>1. PICK alternates : alternates = conflicts[c]
    OBVIOUS
  <2>2. PICK added : added = {LeafOf(a) : a \in Added(c)}
    OBVIOUS
  <2>3. alternates \in Seq(Alternates) /\ Exactly(alternates, added)
    BY <1>2, <1>4, <2>1, <2>2
  <2>4. \A a : LeafOf(a).first = AlternateLeaf(a.first)
    BY DEF LeafOf
  <2>5. {a.first : a \in added} = Delimiters(c)
    BY <1>5, <1>6, <2>2, <2>4
  <2>6. Cardinality(Delimiters(c)) = Len(alternates)
    BY <2>3, <2>5, AsManyFirsts DEF Exactly
  <2>7. Len(alternates) >= 2
    <3>1. \E a, b \in added : a.first # b.first
      BY <1>2, <2>2, <2>4
    <3> QED
      BY <2>3, <3>1, SeveralAdded
  <2>8. conflicts[c][1].first = groups[c]
    BY <1>2, <1>3 DEF AlternateLeaf
  <2>9. ASSUME NEW name \in Delimiters(c)
        PROVE  [first |-> name, contexts |-> ContextsOf(c, name)] \in Range(alternates)
    <3>1. name \in {alternates[i].first : i \in DOMAIN alternates}
      BY <2>3, <2>5 DEF Exactly
    <3>2. PICK i \in DOMAIN alternates : alternates[i].first = name
      BY <3>1
    <3>3. alternates[i].contexts =
            {x \in Contexts : \E a \in added : a.first = name /\ x \in a.contexts}
      BY <2>3, <3>2 DEF Exactly
    <3>4. alternates[i].contexts = ContextsOf(c, name)
      BY <1>1, <1>6, <2>2, <3>3, DelimitersAdded
    <3>5. alternates[i] \in Alternates
      BY <2>3
    <3>6. alternates[i] = [first |-> name, contexts |-> ContextsOf(c, name)]
      BY <3>2, <3>4, <3>5 DEF Alternates
    <3> QED
      BY <3>6 DEF Range
  <2> QED
    BY <2>1, <2>6, <2>7, <2>8, <2>9
<1>7. ASSUME NEW c \in Registered, Clear(c), c \notin DOMAIN conflicts
      PROVE  ~(Cardinality(Delimiters(c)) >= 2)
  <2>1. PICK p \in ReadPlaces(c) : TRUE
    BY <1>1, <1>3 DEF GroupsRead
  <2>2. AddedAt(p) \in Added(c)
    BY DEF Added
  <2>3. \A a \in Added(c) : AlternateLeaf(a.first) = AlternateLeaf(AddedAt(p).first)
    BY <1>2, <1>7, <2>2
  <2>4. Delimiters(c) = {AlternateLeaf(AddedAt(p).first)}
    BY <1>5, <1>7, <2>2, <2>3
  <2>5. Cardinality(Delimiters(c)) = 1
    BY <2>4, FS_Singleton
  <2> QED
    BY <2>5
<1>8. DOMAIN groups = Registered /\ DOMAIN conflicts \subseteq Registered
  BY <1>2
<1> HIDE DEF Clear
<1>9. ASSUME NEW c \in DOMAIN groups, Clear(c)
      PROVE  AlternatesExact(c)
  BY <1>6, <1>7, <1>8, <1>9 DEF AlternatesExact
<1> QED
  BY <1>8, <1>9

\* A group has alternates just if its occurrences start with several fields, each
\* of these once, with its contexts, the dispatched one first, for any number of
\* groups, occurrences and contexts, if on the paths from its own occurrences no
\* field has the name of a component (collect_groups, load_groups, emit_groups).
THEOREM ConflictsAreExact == Spec => []ConflictsExact
<1>1. IInv => ConflictsExact
  BY ConflictsFound
<1> QED
  BY <1>1, Invariance, PTL
=============================================================================
