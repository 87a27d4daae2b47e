------------------------------- MODULE Facts --------------------------------
(***************************************************************************)
(* Facts about numbers and sequences that the proofs share: how an index   *)
(* goes round a ring, that every set of numbers has a least element, from  *)
(* which induction and recursion follow, and what a queue in a ring is.    *)
(***************************************************************************)
EXTENDS Integers, Sequences, FiniteSetTheorems, TLAPS

\* A position at most once past the end of a ring of d places.
LEMMA ModWrap ==
    ASSUME NEW d \in Nat \ {0}, NEW x \in 0 .. 2 * d - 1
    PROVE  x % d = IF x < d THEN x ELSE x - d
  BY SMT

\* One at most once before its start.
LEMMA ModBelow ==
    ASSUME NEW d \in Nat \ {0}, NEW x \in (1 - d) .. -1
    PROVE  x % d = x + d
  BY SMT

LEMMA ModRange ==
    ASSUME NEW d \in Nat \ {0}, NEW x \in Int
    PROVE  x % d \in 0 .. d - 1
  BY SMT

\* One step further round.
LEMMA ModPlus ==
    ASSUME NEW d \in Nat \ {0}, NEW x \in 0 .. 2 * d - 1, NEW y \in 0 .. d
    PROVE  ((x % d) + y) % d = (x + y) % d
<1>1. x % d = IF x < d THEN x ELSE x - d
  BY ModWrap
<1>2. CASE x < d
  BY <1>1, <1>2
<1>3. CASE d <= x
  <2>1. (x - d + y) % d = (x + y) % d
    BY SMT
  <2>2. QED
    BY <1>1, <1>3, <2>1
<1>4. QED
  BY <1>2, <1>3

\* Quotient and remainder.
LEMMA ModUnique ==
    ASSUME NEW d \in Nat \ {0}, NEW q \in Int, NEW r \in 0 .. d - 1
    PROVE  (q * d + r) % d = r
  BY SMTT(30)

LEMMA ModSplit ==
    ASSUME NEW d \in Nat \ {0}, NEW x \in Int
    PROVE  \E q \in Int : x = q * d + (x % d)
<1>1. x \div d \in Int
  BY SMT
<1>2. x = (x \div d) * d + (x % d)
  BY SMT
<1>3. QED
  BY <1>1, <1>2

\* d divides what q turns of d add.
LEMMA ModTurns ==
    ASSUME NEW d \in Nat \ {0}, NEW x \in Int, NEW q \in Int
    PROVE  (x + q * d) % d = x % d
<1>1. PICK p \in Int : x = p * d + (x % d)
  BY ModSplit
<1> DEFINE r == x % d
<1>2. r \in 0 .. d - 1
  BY ModRange
<1> HIDE DEF r
<1>3. x + q * d = (p + q) * d + r /\ p + q \in Int
  BY <1>1, <1>2 DEF r
<1>4. ((p + q) * d + r) % d = r
  BY <1>2, <1>3, ModUnique
<1>5. QED
  BY <1>3, <1>4 DEF r

\* What is the same modulo m is the same modulo each divisor of m.
LEMMA ModMod ==
    ASSUME NEW m \in Nat \ {0}, NEW d \in Nat \ {0}, m % d = 0, NEW x \in Int
    PROVE  (x % m) % d = x % d
<1>1. PICK q \in Int : x = q * m + (x % m)
  BY ModSplit
<1>2. PICK p \in Int : m = p * d
  <2>1. m \in Int
    OBVIOUS
  <2>2. \E p \in Int : m = p * d + (m % d)
    BY <2>1, ModSplit
  <2>3. QED
    BY <2>2
<1> DEFINE r == x % m
           k == (-q) * p
<1>3. r \in Int /\ x = q * m + r
  BY <1>1, ModRange
<1>4. k \in Int
  OBVIOUS
<1>5. r = x + k * d
  <2> HIDE DEF r
  <2>1. q * (p * d) + ((-q) * p) * d = 0
    OBVIOUS
  <2>2. q * m + k * d = 0
    BY <1>2, <2>1
  <2> DEFINE a == q * m
             b == k * d
  <2>3. a \in Int /\ b \in Int /\ x = a + r /\ a + b = 0
    BY <1>3, <1>4, <2>2
  <2> HIDE DEF a, b
  <2>4. r = x + b
    BY <1>3, <2>3
  <2>5. QED
    BY <2>4 DEF b
<1> HIDE DEF r
<1> HIDE DEF k
<1>6. (x + k * d) % d = x % d
  BY <1>4, ModTurns
<1>7. QED
  BY <1>5, <1>6 DEF r

\* The same place on a ring of d.
Congruent(x, y, d) == x % d = y % d

LEMMA CongruentEqual ==
    ASSUME NEW d \in Nat \ {0}, NEW x \in Int, NEW y \in Int, Congruent(x, y, d),
           x - y \in (1 - d) .. d - 1
    PROVE  x = y
<1>1. PICK p \in Int : x = p * d + (x % d)
  BY ModSplit
<1>2. PICK q \in Int : y = q * d + (y % d)
  BY ModSplit
<1> DEFINE n == p - q
<1>3. n \in Int /\ x - y = n * d
  <2> DEFINE r == x % d
  <2>1. r \in Int /\ x = p * d + r /\ y = q * d + r
    BY <1>1, <1>2, ModRange DEF Congruent
  <2> HIDE DEF r
  <2>2. QED
    BY <2>1
<1> HIDE DEF n
<1>4. n * d \in (1 - d) .. d - 1
  BY <1>3
<1>5. n = 0
  BY <1>3, <1>4
<1>6. QED
  BY <1>3, <1>5

\* As far on from the same place.
LEMMA CongruentMoved ==
    ASSUME NEW d \in Nat \ {0}, NEW x \in Int, NEW y \in Int, Congruent(x, y, d),
           NEW z \in Int, NEW w \in Int, z - x = w - y
    PROVE  Congruent(z, w, d)
<1>1. PICK p \in Int : x = p * d + (x % d)
  BY ModSplit
<1>2. PICK q \in Int : y = q * d + (y % d)
  BY ModSplit
<1> DEFINE n == p - q
<1>3. n \in Int /\ z = w + n * d
  <2> DEFINE r == x % d
  <2>1. r \in Int /\ x = p * d + r /\ y = q * d + r
    BY <1>1, <1>2, ModRange DEF Congruent
  <2> HIDE DEF r
  <2>2. QED
    BY <2>1
<1> HIDE DEF n
<1>4. (w + n * d) % d = w % d
  BY <1>3, ModTurns
<1>5. QED
  BY <1>3, <1>4 DEF Congruent

LEMMA CongruentRest ==
    ASSUME NEW d \in Nat \ {0}, NEW x \in Int
    PROVE  Congruent(x % d, x, d) /\ Congruent(x, x % d, d) /\ x % d \in 0 .. d - 1
<1>1. d % d = 0
  OBVIOUS
<1>2. (x % d) % d = x % d
  BY <1>1, ModMod
<1>3. QED
  BY <1>2, ModRange DEF Congruent

\* Round the ring from place t as far as v lies beyond it.
LEMMA RingOffset ==
    ASSUME NEW d \in Nat \ {0}, NEW t \in Int, NEW v \in Int
    PROVE  Congruent(t + ((v - t) % d), v, d)
<1> DEFINE x == v - t
           r == x % d
           y == t + r
<1>1. x \in Int /\ v - x = t
  OBVIOUS
<1> HIDE DEF x
<1>2. Congruent(r, x, d) /\ r \in 0 .. d - 1
  BY <1>1, CongruentRest
<1> HIDE DEF r
<1>3. r \in Int /\ y \in Int /\ y - r = v - x
  BY <1>1, <1>2
<1> HIDE DEF y
<1>4. Congruent(y, v, d)
  BY <1>1, <1>2, <1>3, CongruentMoved
<1>5. QED
  BY <1>4 DEF y, r, x

LEMMA RestIs ==
    ASSUME NEW d \in Nat \ {0}, NEW x \in Int, NEW n \in 0 .. d - 1, Congruent(x, n, d)
    PROVE  x % d = n
<1> DEFINE r == x % d
<1>1. Congruent(r, x, d) /\ r \in 0 .. d - 1
  BY CongruentRest
<1> HIDE DEF r
<1>2. Congruent(r, n, d) /\ r \in Int /\ n \in Int /\ r - n \in (1 - d) .. d - 1
  BY <1>1 DEF Congruent
<1>3. r = n
  BY <1>2, CongruentEqual
<1>4. QED
  BY <1>3 DEF r

\* The same place on a ring whose size d divides.
LEMMA CongruentCoarser ==
    ASSUME NEW m \in Nat \ {0}, NEW d \in Nat \ {0}, m % d = 0,
           NEW x \in Int, NEW y \in Int, Congruent(x, y, m)
    PROVE  Congruent(x, y, d)
<1>1. (x % m) % d = x % d /\ (y % m) % d = y % d
  BY ModMod
<1>2. QED
  BY <1>1 DEF Congruent

\* i places from t to l, and j from there to a.
LEMMA CongruentSum ==
    ASSUME NEW m \in Nat \ {0}, NEW t \in Int, NEW l \in Int, NEW a \in Int,
           NEW i \in Nat, NEW j \in Nat, i + j < m,
           Congruent(t + i, l, m), Congruent(l + j, a, m)
    PROVE  (a - t) % m = i + j /\ Congruent(t + (i + j), a, m)
<1> DEFINE x == t + i
           y == t + (i + j)
           v == l + j
           z == i + j
           w == a - t
           r == w % m
<1>1. x \in Int /\ y \in Int /\ v \in Int /\ z \in 0 .. m - 1 /\ w \in Int
  OBVIOUS
<1>2. Congruent(x, l, m) /\ Congruent(v, a, m)
  OBVIOUS
<1>3. y - x = v - l /\ z - y = w - a
  OBVIOUS
<1> HIDE DEF x, y, v, z, w
<1>4. Congruent(y, v, m)
  BY <1>1, <1>2, <1>3, CongruentMoved
<1>5. Congruent(y, a, m)
  BY <1>2, <1>4 DEF Congruent
<1>6. Congruent(z, w, m)
  BY <1>1, <1>3, <1>5, CongruentMoved
<1>7. Congruent(r, w, m) /\ r \in 0 .. m - 1
  BY <1>1, CongruentRest
<1> HIDE DEF r
<1>8. Congruent(r, z, m) /\ r \in Int /\ z \in Int /\ r - z \in (1 - m) .. m - 1
  BY <1>1, <1>6, <1>7 DEF Congruent
<1>9. r = z
  BY <1>8, CongruentEqual
<1>10. QED
  BY <1>5, <1>9 DEF r, w, y, z

\* Every set of natural numbers that is not empty has a least one.
LEMMA LeastNumber ==
    ASSUME NEW A \in SUBSET Nat, A # {}
    PROVE  \E m \in A : \A k \in A : m <= k
<1> DEFINE R == StrictSubsetOrdering(Nat)
           T == {s \in FiniteSubsetsOf(Nat) : \E n \in A : s = 0 .. n}
<1>1. \A n \in Nat : 0 .. n \in FiniteSubsetsOf(Nat)
  BY FS_Interval DEF FiniteSubsetsOf
<1>2. T # {} /\ T \subseteq FiniteSubsetsOf(Nat)
  BY <1>1
<1>3. PICK x \in T : \A y \in T : <<y, x>> \notin R
  BY <1>2, FS_StrictSubsetOrderingWellFounded, WFMin
<1>4. PICK m \in A : x = 0 .. m
  OBVIOUS
<1>5. ASSUME NEW k \in A, k < m
      PROVE  FALSE
  <2>1. m \in 0 .. m /\ m \notin 0 .. k /\ 0 .. k \subseteq 0 .. m /\ 0 .. m \subseteq Nat
    BY <1>5
  <2>2. <<0 .. k, x>> \in R
    BY <2>1, <1>4 DEF StrictSubsetOrdering
  <2>3. 0 .. k \in T
    BY <1>1
  <2>4. QED
    BY <2>2, <2>3, <1>3
<1>6. QED
  BY <1>5

\* Induction up to n, on the set A of the numbers a claim holds of.
LEMMA UpTo ==
    ASSUME NEW n \in Nat, NEW A, 0 \in A, \A i \in 1 .. n : i - 1 \in A => i \in A
    PROVE  \A i \in 0 .. n : i \in A
<1> SUFFICES ASSUME (0 .. n) \ A # {}
             PROVE  FALSE
  OBVIOUS
<1> DEFINE B == (0 .. n) \ A
<1>1. B \in SUBSET Nat /\ B # {}
  OBVIOUS
<1>2. PICK m \in B : \A k \in B : m <= k
  <2> HIDE DEF B
  <2>1. QED
    BY <1>1, LeastNumber
<1>3. m \in 1 .. n /\ m - 1 \in 0 .. n /\ ~(m <= m - 1)
  BY <1>2
<1>4. QED
  BY <1>2, <1>3

\* n steps over the values S: each gives the next value from the one before.
Steps(n, S) == [1 .. n -> [S -> S]]

\* What the steps g make of a, one after the other.
Iterates(f, n, a, g) == f[0] = a /\ \A i \in 1 .. n : f[i] = g[i][f[i - 1]]

\* Steps can be taken: what a recursive definition over 0 .. n asks for exists.
LEMMA Recursion ==
    ASSUME NEW n \in Nat, NEW S, NEW a \in S, NEW g \in Steps(n, S)
    PROVE  \E f \in [0 .. n -> S] : Iterates(f, n, a, g)
<1> USE DEF Steps, Iterates
<1> DEFINE Upto(m, f) == f[0] = a /\ \A i \in 1 .. m : f[i] = g[i][f[i - 1]]
           A == {m \in 0 .. n : \E f \in [0 .. m -> S] : Upto(m, f)}
<1>1. 0 \in A
  <2> DEFINE f == [k \in 0 .. 0 |-> a]
  <2>1. f \in [0 .. 0 -> S] /\ Upto(0, f)
    OBVIOUS
  <2> HIDE DEF f
  <2>2. \E h \in [0 .. 0 -> S] : Upto(0, h)
    BY <2>1
  <2>3. QED
    BY <2>2
<1>2. ASSUME NEW m \in 1 .. n, m - 1 \in A
      PROVE  m \in A
  <2>1. PICK f \in [0 .. m - 1 -> S] : Upto(m - 1, f)
    BY <1>2
  <2> DEFINE h == [k \in 0 .. m |-> IF k = m THEN g[m][f[m - 1]] ELSE f[k]]
  <2>2. f[m - 1] \in S /\ g[m] \in [S -> S]
    OBVIOUS
  <2>3. h \in [0 .. m -> S]
    BY <2>2
  <2>4. h[m] = g[m][f[m - 1]] /\ \A k \in 0 .. m - 1 : h[k] = f[k]
    OBVIOUS
  <2>5. Upto(m, h)
    <3> HIDE DEF h
    <3>1. h[0] = a
      BY <2>1, <2>4
    <3>2. ASSUME NEW i \in 1 .. m
          PROVE  h[i] = g[i][h[i - 1]]
      <4>1. h[i - 1] = f[i - 1]
        BY <2>4
      <4>2. CASE i = m
        BY <4>1, <4>2, <2>4
      <4>3. CASE i # m
        <5>1. i \in 1 .. m - 1 /\ i \in 0 .. m - 1
          BY <4>3
        <5>2. QED
          BY <5>1, <4>1, <2>1, <2>4
      <4>4. QED
        BY <4>2, <4>3
    <3>3. QED
      BY <3>1, <3>2
  <2> HIDE DEF h
  <2>6. \E e \in [0 .. m -> S] : Upto(m, e)
    BY <2>3, <2>5
  <2>7. m \in 0 .. n
    OBVIOUS
  <2>8. QED
    BY <2>6, <2>7, Zenon
<1>3. n \in A
  <2> HIDE DEF A
  <2>1. \A i \in 0 .. n : i \in A
    BY <1>1, <1>2, UpTo
  <2>2. QED
    BY <2>1
<1>4. QED
  BY <1>3

----------------------------------------------------------------------------
(* Queues in a ring. *)

\* The n values from place h of ring b, which has d places.
InRingOrder(b, h, n, d) == [i \in 1 .. n |-> b[(h + i - 1) % d]]

LEMMA RingType ==
    ASSUME NEW d \in Nat \ {0}, NEW h \in 0 .. d - 1, NEW n \in 0 .. d, NEW S,
           NEW b \in [0 .. d - 1 -> S]
    PROVE  InRingOrder(b, h, n, d) \in Seq(S) /\ Len(InRingOrder(b, h, n, d)) = n
<1>1. \A i \in 1 .. n : (h + i - 1) % d \in 0 .. d - 1
  BY ModRange
<1>2. InRingOrder(b, h, n, d) \in [1 .. n -> S] /\ n \in Nat
  BY <1>1 DEF InRingOrder
<1>3. QED
  BY <1>2

\* What is put behind the last is last.
LEMMA RingPut ==
    ASSUME NEW d \in Nat \ {0}, NEW h \in 0 .. d - 1, NEW n \in 0 .. d - 1, NEW S,
           NEW b \in [0 .. d - 1 -> S], NEW c \in [0 .. d - 1 -> S],
           \A i \in 0 .. d - 1 : i # (h + n) % d => c[i] = b[i]
    PROVE  InRingOrder(c, h, n + 1, d) = Append(InRingOrder(b, h, n, d), c[(h + n) % d])
<1> DEFINE v == c[(h + n) % d]
           old == InRingOrder(b, h, n, d)
           new == InRingOrder(c, h, n + 1, d)
<1>1. (h + n) % d \in 0 .. d - 1
  BY ModRange
<1>2. ASSUME NEW i \in 1 .. n
      PROVE  c[(h + i - 1) % d] = b[(h + i - 1) % d]
  <2>1. (h + i - 1) % d \in 0 .. d - 1 /\ (h + i - 1) % d # (h + n) % d
    <3>1. h + i - 1 \in 0 .. 2 * d - 1 /\ h + n \in 0 .. 2 * d - 1
      OBVIOUS
    <3>2. /\ (h + i - 1) % d = IF h + i - 1 < d THEN h + i - 1 ELSE h + i - 1 - d
          /\ (h + n) % d = IF h + n < d THEN h + n ELSE h + n - d
      BY <3>1
    <3>3. QED
      BY <3>2
  <2>2. QED
    BY <2>1
<1>3. old \in Seq(S) /\ Len(old) = n
  BY RingType
<1>4. new \in Seq(S) /\ Len(new) = n + 1
  <2>1. n + 1 \in 0 .. d
    OBVIOUS
  <2>2. QED
    BY <2>1, RingType
<1>5. \A i \in 1 .. n + 1 : new[i] = Append(old, v)[i]
  <2> SUFFICES ASSUME NEW i \in 1 .. n + 1
               PROVE  new[i] = Append(old, v)[i]
    OBVIOUS
  <2>1. CASE i \in 1 .. n
    <3>1. new[i] = c[(h + i - 1) % d] /\ old[i] = b[(h + i - 1) % d]
      BY <2>1 DEF InRingOrder
    <3>2. Append(old, v)[i] = old[i]
      BY <2>1, <1>3
    <3>3. QED
      BY <3>1, <3>2, <2>1, <1>2
  <2>2. CASE i = n + 1
    <3>1. new[i] = c[(h + n) % d]
      BY <2>2 DEF InRingOrder
    <3>2. Append(old, v)[i] = v
      BY <2>2, <1>3
    <3>3. QED
      BY <3>1, <3>2
  <2>3. i \in 1 .. n \/ i = n + 1
    OBVIOUS
  <2>4. QED
    BY <2>1, <2>2, <2>3
<1>6. Append(old, v) \in Seq(S) /\ Len(Append(old, v)) = n + 1
  BY <1>3
<1>7. QED
  <2> HIDE DEF old, new
  <2>1. new = Append(old, v)
    BY <1>4, <1>5, <1>6
  <2>2. QED
    BY <2>1 DEF old, new

\* What is taken from place h was first.
LEMMA RingTake ==
    ASSUME NEW d \in Nat \ {0}, NEW h \in 0 .. d - 1, NEW n \in 1 .. d, NEW S,
           NEW b \in [0 .. d - 1 -> S]
    PROVE  /\ InRingOrder(b, h, n, d) # <<>>
           /\ Head(InRingOrder(b, h, n, d)) = b[h]
           /\ Tail(InRingOrder(b, h, n, d)) = InRingOrder(b, (h + 1) % d, n - 1, d)
<1> DEFINE old == InRingOrder(b, h, n, d)
           new == InRingOrder(b, (h + 1) % d, n - 1, d)
<1>1. old \in Seq(S) /\ Len(old) = n
  BY RingType
<1>2. (h + 1) % d \in 0 .. d - 1
  BY ModRange
<1>3. new \in Seq(S) /\ Len(new) = n - 1
  BY <1>2, RingType
<1>4. old[1] = b[h]
  <2>1. h + 1 - 1 = h /\ h % d = h
    BY ModWrap
  <2>2. QED
    BY <2>1 DEF InRingOrder
<1>5. ASSUME NEW i \in 1 .. n - 1
      PROVE  new[i] = old[i + 1]
  <2>1. (((h + 1) % d) + i - 1) % d = (h + (i + 1) - 1) % d
    <3>1. CASE h + 1 < d
      <4>1. (h + 1) % d = h + 1
        BY <3>1
      <4>2. QED
        BY <4>1
    <3>2. CASE h + 1 = d
      <4>1. (h + 1) % d = 0
        BY <3>2, ModWrap
      <4>2. i - 1 \in 0 .. 2 * d - 1 /\ h + (i + 1) - 1 \in 0 .. 2 * d - 1
        BY <3>2
      <4>3. /\ (i - 1) % d = IF i - 1 < d THEN i - 1 ELSE i - 1 - d
            /\ (h + (i + 1) - 1) % d
                 = IF h + (i + 1) - 1 < d THEN h + (i + 1) - 1 ELSE h + (i + 1) - 1 - d
        BY <4>2
      <4>4. QED
        BY <3>2, <4>1, <4>3
    <3>3. QED
      BY <3>1, <3>2
  <2>2. i + 1 \in 1 .. n
    OBVIOUS
  <2>3. new[i] = b[(((h + 1) % d) + i - 1) % d] /\ old[i + 1] = b[(h + (i + 1) - 1) % d]
    BY <2>2 DEF InRingOrder
  <2>4. QED
    BY <2>1, <2>3
<1>6. QED
  <2> HIDE DEF old, new
  <2>1. old # <<>> /\ Head(old) = b[h] /\ Tail(old) \in Seq(S) /\ Len(Tail(old)) = n - 1
    BY <1>1, <1>4
  <2>2. \A i \in 1 .. n - 1 : Tail(old)[i] = old[i + 1]
    BY <1>1
  <2>3. Tail(old) = new
    BY <1>3, <1>5, <2>1, <2>2
  <2>4. QED
    BY <2>1, <2>3 DEF old, new

\* How far round the ring one place is behind another.
LEMMA RingDistance ==
    ASSUME NEW d \in Nat \ {0}, NEW x \in 0 .. 2 * d - 1, NEW y \in 0 .. 2 * d - 1,
           x - y \in -d .. d - 1
    PROVE  ((x % d) - (y % d)) % d = IF y <= x THEN x - y ELSE x - y + d
<1>1. /\ x % d = IF x < d THEN x ELSE x - d
      /\ y % d = IF y < d THEN y ELSE y - d
  BY ModWrap
<1> DEFINE z == (x % d) - (y % d)
<1>2. z \in (1 - d) .. d - 1 /\ (z = x - y \/ z = x - y + d \/ z = x - y - d)
  BY <1>1
<1>3. z \in 0 .. d - 1 => z % d = z
  BY SMT
<1>4. z \in (1 - d) .. -1 => z % d = z + d
  BY SMT
<1>5. QED
  BY <1>2, <1>3, <1>4

LEMMA Concatenation ==
    ASSUME NEW S, NEW s \in Seq(S), NEW t \in Seq(S)
    PROVE  s \o t \in Seq(S) /\ Len(s \o t) = Len(s) + Len(t)
  OBVIOUS

LEMMA Parts ==
    ASSUME NEW S, NEW s \in Seq(S), NEW t \in Seq(S)
    PROVE  /\ s \o t \in Seq(S) /\ Len(s \o t) = Len(s) + Len(t)
           /\ \A i \in 1 .. Len(s) : (s \o t)[i] = s[i]
           /\ \A i \in 1 .. Len(t) : (s \o t)[Len(s) + i] = t[i]
  OBVIOUS

LEMMA ConcatenationAssociates ==
    ASSUME NEW S, NEW s \in Seq(S), NEW t \in Seq(S), NEW u \in Seq(S)
    PROVE  s \o (t \o u) = (s \o t) \o u
  OBVIOUS

\* A sequence cut after its first n.
LEMMA Cut ==
    ASSUME NEW S, NEW s \in Seq(S), NEW n \in 0 .. Len(s)
    PROVE  /\ SubSeq(s, 1, n) \in [1 .. n -> S] /\ SubSeq(s, 1, n) \in Seq(S)
           /\ \A k \in 1 .. n : SubSeq(s, 1, n)[k] = s[k]
           /\ SubSeq(s, n + 1, Len(s)) \in Seq(S)
           /\ SubSeq(s, 1, n) \o SubSeq(s, n + 1, Len(s)) = s
<1> DEFINE a == SubSeq(s, 1, n)
           b == SubSeq(s, n + 1, Len(s))
<1>0. Len(s) \in Nat /\ n \in Nat
  <2>1. Len(s) \in Nat
    OBVIOUS
  <2>2. QED
    BY <2>1
<1>1. a \in Seq(S) /\ Len(a) = n /\ \A k \in 1 .. n : a[k] = s[k]
  OBVIOUS
<1>2. b \in Seq(S) /\ Len(b) = Len(s) - n
  OBVIOUS
<1>3. ASSUME NEW k \in 1 .. Len(s) - n
      PROVE  b[k] = s[n + k]
  OBVIOUS
<1> HIDE DEF a, b
<1>4. a \in [1 .. n -> S]
  <2>1. a \in [1 .. Len(a) -> S]
    BY <1>1
  <2>2. QED
    BY <1>1, <2>1
<1> DEFINE c == a \o b
<1>5. c \in Seq(S) /\ Len(c) = Len(s)
  BY <1>1, <1>2, Concatenation
<1>6. ASSUME NEW k \in 1 .. Len(s)
      PROVE  c[k] = s[k]
  <2>1. k <= n => c[k] = a[k]
    BY <1>1, <1>2
  <2>2. n < k => c[k] = b[k - n]
    BY <1>1, <1>2
  <2>3. n < k => k - n \in 1 .. Len(s) - n /\ n + (k - n) = k
    BY <1>0
  <2> HIDE DEF c
  <2>4. QED
    BY <1>0, <1>1, <1>3, <2>1, <2>2, <2>3
<1> HIDE DEF c
<1>7. c = s
  BY <1>5, <1>6
<1>8. QED
  BY <1>1, <1>2, <1>4, <1>7 DEF a, b, c

\* The first of one sequence may as well be the last of the one before it.
LEMMA HeadMoves ==
    ASSUME NEW S, NEW s \in Seq(S), NEW t \in Seq(S), t # <<>>
    PROVE  Append(s, Head(t)) \o Tail(t) = s \o t
<1>1. t = <<Head(t)>> \o Tail(t) /\ <<Head(t)>> \in Seq(S) /\ Tail(t) \in Seq(S)
  OBVIOUS
<1>2. Append(s, Head(t)) = s \o <<Head(t)>>
  OBVIOUS
<1>3. QED
  BY <1>1, <1>2, ConcatenationAssociates

\* Ring b with those of s put behind the m values from place h that make them e,
\* and what it then holds.
RingWith(b, h, m, s, e, d) ==
    [i \in 0 .. d - 1 |->
        LET k == ((i - ((h + m) % d)) % d) + 1 IN IF k <= e - m THEN s[k] ELSE b[i]]

RingBehind(b, h, m, s, e, d) == InRingOrder(b, h, m, d) \o [k \in 1 .. e - m |-> s[k]]

LEMMA RingWithType ==
    ASSUME NEW d \in Nat \ {0}, NEW h \in 0 .. d - 1, NEW m \in 0 .. d, NEW e \in m .. d,
           NEW S, NEW b \in [0 .. d - 1 -> S], NEW s, \A k \in 1 .. e - m : s[k] \in S
    PROVE  RingWith(b, h, m, s, e, d) \in [0 .. d - 1 -> S]
<1> SUFFICES ASSUME NEW i \in 0 .. d - 1
             PROVE  LET k == ((i - ((h + m) % d)) % d) + 1
                    IN (IF k <= e - m THEN s[k] ELSE b[i]) \in S
  BY DEF RingWith
<1> DEFINE x == i - ((h + m) % d)
<1>1. (h + m) % d \in 0 .. d - 1
  BY ModRange
<1>2. x \in Int
  BY <1>1
<1> HIDE DEF x
<1>3. x % d \in 0 .. d - 1
  BY <1>2, ModRange
<1>4. QED
  BY <1>3 DEF x

\* What is put behind the last, all at once, comes last and in its order.
LEMMA RingFill ==
    ASSUME NEW d \in Nat \ {0}, NEW h \in 0 .. d - 1, NEW m \in 0 .. d, NEW e \in m .. d,
           NEW b, NEW s
    PROVE  InRingOrder(RingWith(b, h, m, s, e, d), h, e, d) = RingBehind(b, h, m, s, e, d)
<1> DEFINE c == RingWith(b, h, m, s, e, d)
           S == {b[i] : i \in 0 .. d - 1} \cup {c[i] : i \in 0 .. d - 1}
                  \cup {s[k] : k \in 1 .. e - m}
           added == [k \in 1 .. e - m |-> s[k]]
           old == InRingOrder(b, h, m, d)
           new == InRingOrder(c, h, e, d)
<1>1. \A i \in 0 .. d - 1 :
         LET k == ((i - ((h + m) % d)) % d) + 1 IN c[i] = IF k <= e - m THEN s[k] ELSE b[i]
  BY DEF RingWith
<1> HIDE DEF c
<1>2. ASSUME NEW j \in 1 .. e
      PROVE  new[j] = IF m < j THEN added[j - m] ELSE old[j]
  <2> DEFINE x == h + j - 1
             y == h + m
             p == x % d
             k == ((p - (y % d)) % d) + 1
  <2>1. /\ x \in 0 .. 2 * d - 1 /\ y \in 0 .. 2 * d - 1
        /\ x - y = j - 1 - m /\ x - y \in -d .. d - 1
    OBVIOUS
  <2>2. new[j] = c[p] /\ (j <= m => old[j] = b[p]) /\ (m < j => added[j - m] = s[j - m])
    BY DEF InRingOrder
  <2> HIDE DEF x, y, old, new, added
  <2>3. p \in 0 .. d - 1
    BY <2>1, ModRange
  <2>4. k = (IF y <= x THEN x - y ELSE x - y + d) + 1
    BY <2>1, RingDistance
  <2>5. c[p] = IF k <= e - m THEN s[k] ELSE b[p]
    BY <1>1, <2>3 DEF y
  <2> HIDE DEF k, p
  <2>6. (k <= e - m <=> m < j) /\ (m < j => k = j - m)
    BY <2>1, <2>4
  <2>7. QED
    BY <2>2, <2>5, <2>6
<1>3. old \in Seq(S) /\ Len(old) = m
  <2>1. \A i \in 1 .. m : (h + i - 1) % d \in 0 .. d - 1
    BY ModRange
  <2>2. old \in [1 .. m -> S]
    BY <2>1 DEF InRingOrder
  <2> HIDE DEF S, old
  <2>3. QED
    BY <2>2
<1>4. new \in Seq(S) /\ Len(new) = e
  <2>1. \A i \in 1 .. e : (h + i - 1) % d \in 0 .. d - 1
    BY ModRange
  <2>2. new \in [1 .. e -> S] /\ e \in Nat
    BY <2>1 DEF InRingOrder
  <2> HIDE DEF S, new
  <2>3. QED
    BY <2>2
<1>5. added \in Seq(S) /\ Len(added) = e - m
  <2>1. added \in [1 .. e - m -> S] /\ e - m \in Nat
    OBVIOUS
  <2> HIDE DEF S, added
  <2>2. QED
    BY <2>1
<1> HIDE DEF old, new, added, S
<1> DEFINE both == old \o added
<1>6. both \in Seq(S) /\ Len(both) = e
  BY <1>3, <1>5, Concatenation
<1>7. ASSUME NEW j \in 1 .. e
      PROVE  both[j] = IF m < j THEN added[j - m] ELSE old[j]
  BY <1>3, <1>5
<1> HIDE DEF both
<1>8. new = both
  BY <1>2, <1>4, <1>6, <1>7
<1>9. QED
  BY <1>8 DEF c, old, new, added, both, RingBehind


----------------------------------------------------------------------------
(* Bounded arithmetic *)

\* One more moved and one fewer to move stay in the range of their sum.
LEMMA OneMoved ==
    ASSUME NEW n \in Nat, NEW left \in Nat, NEW moved \in Nat, left > 0,
           left + moved \in 0 .. n - 1
    PROVE  left - 1 \in 0 .. n - 1 /\ moved + 1 \in 0 .. n - 1
OBVIOUS

\* The bytes of an access that lies in a region lie in the region and below
\* the limit the region lies below.
LEMMA SpanInside ==
    ASSUME NEW limit \in Nat, NEW base \in Nat, NEW size \in Nat, NEW a \in Nat,
           NEW n \in Nat \ {0}, base <= a, (a - base) + (n - 1) < size,
           limit - 1 - base >= size - 1
    PROVE  /\ a + n - 1 < limit
           /\ \A k \in 0 .. n - 1 : a + k >= base /\ (a + k) - base < size
OBVIOUS


----------------------------------------------------------------------------
(* Division, and the three digits of a number *)

LEMMA DivSplit ==
    ASSUME NEW x \in Int, NEW d \in Nat \ {0}
    PROVE  x \div d \in Int /\ x = (x \div d) * d + (x % d)
  BY SMT

LEMMA DivUnique ==
    ASSUME NEW q \in Int, NEW d \in Nat \ {0}, NEW r \in 0 .. d - 1
    PROVE  (q * d + r) \div d = q
<1> DEFINE x == q * d + r
           p == x \div d
           s == x % d
<1>1. x \in Int
  BY SMT
<1>2. p \in Int /\ x = p * d + s
  BY <1>1, DivSplit
<1>3. s = r
  BY ModUnique
<1> HIDE DEF p, s
<1>4. q * d = p * d
  BY <1>2, <1>3
<1>5. (q - p) * d = 0
  BY <1>2, <1>4
<1>6. q - p = 0
  BY <1>2, <1>5
<1>7. QED
  BY <1>2, <1>6 DEF p

\* A number of three digits is what its digits say, and so are its first ones.
LEMMA ThreeDigits ==
    ASSUME NEW R \in Nat \ {0}, NEW a \in 0 .. R * R * R - 1
    PROVE  /\ (a \div (R * R)) % R \in 0 .. R - 1
           /\ (a \div R) % R \in 0 .. R - 1 /\ a % R \in 0 .. R - 1
           /\ ((a \div (R * R)) % R) * (R * R) \in 0 .. a
           /\ ((a \div (R * R)) % R) * (R * R) + ((a \div R) % R) * R \in 0 .. a
           /\ ((a \div (R * R)) % R) * (R * R) + ((a \div R) % R) * R + (a % R) = a
<1> DEFINE q == a \div R
           p == q \div R
           middle == q % R
           low == a % R
<1>1. a \in Nat /\ R * R \in Nat \ {0} /\ R * R * R = (R * R) * R
  BY SMT
<1>2. /\ q \in Int /\ a = q * R + low /\ low \in 0 .. R - 1
      /\ p \in Int /\ q = p * R + middle /\ middle \in 0 .. R - 1
  BY <1>1, DivSplit, ModRange
<1> HIDE DEF q, p, middle, low
<1>3. a = p * (R * R) + (middle * R + low)
  <2>1. a = (p * R + middle) * R + low
    BY <1>2
  <2>2. (p * R + middle) * R = p * (R * R) + middle * R
    BY <1>2
  <2>3. QED
    BY <1>2, <2>1, <2>2
<1>4. middle * R \in Nat /\ middle * R + low \in 0 .. R * R - 1
  <2>1. middle * R >= 0 /\ middle * R <= (R - 1) * R
    BY <1>2
  <2>2. (R - 1) * R = R * R - R
    OBVIOUS
  <2>3. QED
    BY <1>1, <1>2, <2>1, <2>2
<1>5. a \div (R * R) = p
  BY <1>1, <1>2, <1>3, <1>4, DivUnique
<1>6. p \in 0 .. R - 1
  <2> DEFINE s == R * R
             r == middle * R + low
  <2>1. s \in Nat \ {0} /\ r \in 0 .. s - 1 /\ a = p * s + r /\ a >= 0 /\ a < s * R
    BY <1>1, <1>3, <1>4
  <2> HIDE DEF s, r
  <2>2. ~(p < 0)
    <3> SUFFICES ASSUME p <= -1 PROVE FALSE
      BY <1>2
    <3>1. p * s <= (-1) * s
      BY <1>2, <2>1
    <3>2. QED
      BY <1>2, <2>1, <3>1
  <2>3. ~(p >= R)
    <3> SUFFICES ASSUME p >= R PROVE FALSE
      OBVIOUS
    <3>1. p * s >= R * s /\ R * s = s * R
      BY <1>2, <2>1
    <3>2. QED
      BY <1>2, <2>1, <3>1
  <2>4. QED
    BY <1>2, <2>2, <2>3
<1>7. p % R = p
  BY <1>6, ModWrap
<1>8. p * (R * R) \in Nat
  BY <1>1, <1>6
<1>9. /\ p * (R * R) \in 0 .. a /\ p * (R * R) + middle * R \in 0 .. a
      /\ p * (R * R) + middle * R + low = a
  BY <1>1, <1>2, <1>3, <1>4, <1>8
<1>10. (a \div (R * R)) % R = p
  BY <1>5, <1>7, Zenon
<1>11. (a \div R) % R = middle /\ a % R = low
  BY Zenon DEF q, middle, low
<1>12. QED
  BY <1>2, <1>6, <1>9, <1>10, <1>11, Zenon


\* Blocks of d: what lies before the end of block b - 1, and where a number lies.
LEMMA BlockOrder ==
    ASSUME NEW d \in Nat \ {0}, NEW a \in Int, NEW b \in Int, NEW r \in 0 .. d - 1,
           a * d + r < b * d
    PROVE  a < b
<1> SUFFICES ASSUME b <= a PROVE FALSE
  OBVIOUS
<1> DEFINE n == a - b
           x == a * d
           y == b * d
<1>1. n \in Nat /\ x = y + n * d
  OBVIOUS
<1>2. n * d \in Nat
  BY <1>1
<1>3. x \in Int /\ y \in Int /\ x + r < y
  OBVIOUS
<1> DEFINE m == n * d
<1> HIDE DEF n, x, y, m
<1>4. m \in Nat /\ x = y + m
  BY <1>1, <1>2 DEF m
<1>5. QED
  BY <1>3, <1>4

LEMMA BlockSame ==
    ASSUME NEW d \in Nat \ {0}, NEW a \in Int, NEW b \in Int,
           NEW r \in 0 .. d - 1, NEW s \in 0 .. d - 1, a * d + r = b * d + s
    PROVE  a = b /\ r = s
<1>1. (a * d + r) \div d = a /\ (a * d + r) % d = r
  BY DivUnique, ModUnique
<1>2. (b * d + s) \div d = b /\ (b * d + s) % d = s
  BY DivUnique, ModUnique
<1>3. QED
  BY <1>1, <1>2
=============================================================================
