---------------------------- MODULE TablesProofs ----------------------------
(***************************************************************************)
(* What holds of the two tables an access is looked up in: an access of    *)
(* the memory faults exactly when, and where, it should, and a store       *)
(* writes what it says, by whichever path they go; and the CSR file, with  *)
(* room for every address in use, is a map of independent registers.       *)
(***************************************************************************)
EXTENDS CsrFile, Memory, Facts

----------------------------------------------------------------------------
(* Memory: regions *)

\* What Add_Region lets in: no region is empty or wraps, no two overlap.
Laid ==
    /\ regions \in Seq(Regions)
    /\ Len(regions) <= MaxRegions
    /\ \A i \in DOMAIN regions :
          regions[i].size > 0 /\ AddrMod - 1 - regions[i].base >= regions[i].size - 1
    /\ \A i, j \in DOMAIN regions :
          i # j => \A a \in Address : ~(Inside(regions[i], a) /\ Inside(regions[j], a))

\* Regions clear of each other share no address.
LEMMA ClearShareNothing ==
    ASSUME NEW r \in Regions, NEW s \in Regions, ClearOf(r, s), NEW a \in Address
    PROVE  ~(Inside(r, a) /\ Inside(s, a))
<1>1. AddrMod \in Nat
  BY MemoryAssumption
<1>2. /\ r.base \in Nat /\ r.size \in Nat /\ s.base \in Nat /\ s.size \in Nat
      /\ a \in Nat
  BY <1>1 DEF Regions, Address
<1>3. QED
  BY <1>2 DEF ClearOf, Inside

\* Wherever the search begins, it finds the region of a, if there is one.
LEMMA SearchFinds ==
    ASSUME Laid, NEW h \in Nat \ {0}, NEW a \in Address
    PROVE  LET i == Find_Region(h, a)
           IN  \/ i \in DOMAIN regions /\ Inside(regions[i], a)
               \/ i = NotFound /\ \A j \in DOMAIN regions : ~Inside(regions[j], a)
<1> DEFINE i == Find_Region(h, a)
           A == {j \in DOMAIN regions : Inside(regions[j], a)}
<1>1. Len(regions) \in Nat /\ DOMAIN regions = 1 .. Len(regions)
  BY DEF Laid
<1>2. CASE h <= Len(regions) /\ Inside(regions[h], a)
  <2>1. i = h /\ h \in DOMAIN regions
    BY <1>1, <1>2 DEF Find_Region
  <2>2. QED
    BY <1>2, <2>1
<1>3. CASE A = {} /\ ~(h <= Len(regions) /\ Inside(regions[h], a))
  <2>1. ~ \E j \in DOMAIN regions : Inside(regions[j], a)
    BY <1>3
  <2>2. Scan(a) = NotFound
    BY <2>1 DEF Scan
  <2>3. i = NotFound
    BY <1>3, <2>2 DEF Find_Region
  <2>4. QED
    BY <2>1, <2>3
<1>4. CASE A # {} /\ ~(h <= Len(regions) /\ Inside(regions[h], a))
  <2>1. PICK m \in A : \A k \in A : m <= k
    <3>1. A \in SUBSET Nat
      BY <1>1
    <3> HIDE DEF A
    <3>2. QED
      BY <1>4, <3>1, LeastNumber
  <2>2. \A j \in 1 .. m - 1 : ~Inside(regions[j], a)
    <3> SUFFICES ASSUME NEW j \in 1 .. m - 1, Inside(regions[j], a)
                 PROVE  FALSE
      OBVIOUS
    <3>1. m \in 1 .. Len(regions)
      BY <1>1
    <3>2. j \in A /\ ~(m <= j)
      BY <1>1, <3>1
    <3>3. QED
      BY <2>1, <3>2
  <2>3. \E n \in DOMAIN regions :
           Inside(regions[n], a) /\ \A j \in 1 .. n - 1 : ~Inside(regions[j], a)
    BY <2>1, <2>2
  <2> DEFINE s == CHOOSE n \in DOMAIN regions :
                     Inside(regions[n], a) /\ \A j \in 1 .. n - 1 : ~Inside(regions[j], a)
  <2>4. s \in DOMAIN regions /\ Inside(regions[s], a)
    BY <2>3
  <2>5. Scan(a) = s
    BY <2>1 DEF Scan
  <2> HIDE DEF s
  <2>6. i = s
    BY <1>4, <2>5 DEF Find_Region
  <2>7. QED
    BY <2>4, <2>6
<1>5. QED
  BY <1>2, <1>3, <1>4

\* What the search finds admits an access exactly if some region does.
LEMMA SearchAdmits ==
    ASSUME Laid, NEW h \in Nat \ {0}, NEW a \in Address, NEW w \in BOOLEAN
    PROVE  /\ Find_Region(h, a) \in 1 .. Len(regions) + 1
           /\ Allows(Find_Region(h, a), w)
                <=> \E j \in DOMAIN regions : Inside(regions[j], a) /\ Allows(j, w)
<1> DEFINE i == Find_Region(h, a)
<1>1. \/ i \in DOMAIN regions /\ Inside(regions[i], a)
      \/ i = NotFound /\ \A j \in DOMAIN regions : ~Inside(regions[j], a)
  BY SearchFinds
<1>2. Len(regions) \in Nat /\ DOMAIN regions = 1 .. Len(regions)
  BY DEF Laid
<1> HIDE DEF i
<1>3. CASE i \in DOMAIN regions /\ Inside(regions[i], a)
  <2>1. \A j \in DOMAIN regions : Inside(regions[j], a) => j = i
    BY <1>3 DEF Laid
  <2>2. i \in 1 .. Len(regions) + 1
    BY <1>2, <1>3
  <2>3. QED
    BY <1>3, <2>1, <2>2 DEF i
<1>4. CASE i = NotFound /\ \A j \in DOMAIN regions : ~Inside(regions[j], a)
  <2>1. i = Len(regions) + 1 /\ ~(i <= Len(regions))
    BY <1>2, <1>4 DEF NotFound
  <2>2. ~Allows(i, w)
    BY <2>1 DEF Allows
  <2>3. QED
    BY <1>2, <1>4, <2>1, <2>2 DEF i
<1>5. QED
  BY <1>1, <1>3, <1>4


----------------------------------------------------------------------------
(* Memory: an access byte by byte *)

Cursors == [hint : 1 .. MaxRegions + 1, fault : Address \cup {NoFault}, data : [Address -> Bytes]]

\* The outcome f of an access to n bytes from a: none of them is shut, or f is
\* the first that is.
Faults(f, a, n, w) ==
    \/ f = NoFault /\ \A k \in 0 .. n - 1 : Open(Byte(a, k), w)
    \/ \E k \in 0 .. n - 1 :
          ~Open(Byte(a, k), w) /\ f = Byte(a, k) /\ \A j \in 0 .. k - 1 : Open(Byte(a, j), w)

\* How far x is behind a.
Offset(x, a) == (x - a) % AddrMod

\* What a store of v to n bytes from a makes of memory d.
Stores(e, d, a, n, v) ==
    \A x \in Address :
       e[x] = IF Offset(x, a) < n /\ Open(x, TRUE) THEN v[Offset(x, a) + 1] ELSE d[x]

\* An access to n bytes from a took cursor c to e.
Done(e, c, a, n, w, v) ==
    /\ e \in Cursors
    /\ Faults(e.fault, a, n, w)
    /\ IF w THEN Stores(e.data, c.data, a, n, v) ELSE e.data = c.data

LEMMA ByteIsAddress ==
    ASSUME NEW a \in Address, NEW k \in Nat
    PROVE  Byte(a, k) \in Address /\ Byte(a, k) # NoFault
<1>1. AddrMod \in Nat \ {0} /\ a + k \in Int
  BY MemoryAssumption DEF Address
<1>2. (a + k) % AddrMod \in 0 .. AddrMod - 1
  BY <1>1, ModRange
<1>3. QED
  BY <1>1, <1>2 DEF Byte, Address, NoFault

\* The k-th byte from a is k behind it.
LEMMA OffsetOfByte ==
    ASSUME NEW a \in Address, NEW x \in Address, NEW k \in 0 .. AddrMod - 1
    PROVE  x = Byte(a, k) <=> Offset(x, a) = k
<1>1. AddrMod \in Nat \ {0}
  BY MemoryAssumption
<1>2. a \in 0 .. AddrMod - 1 /\ x \in 0 .. AddrMod - 1
  BY DEF Address
<1> DEFINE m == AddrMod
           s == a + k
           z == x - a
<1>3. s % m = IF s < m THEN s ELSE s - m
  <2>1. s \in 0 .. 2 * m - 1
    BY <1>1, <1>2
  <2> HIDE DEF s
  <2>2. QED
    BY <1>1, <2>1, ModWrap
<1>4. z % m = IF a <= x THEN z ELSE z + m
  <2>1. CASE a <= x
    <3>1. z \in 0 .. 2 * m - 1 /\ z < m
      BY <1>1, <1>2, <2>1
    <3> HIDE DEF z
    <3>2. QED
      BY <1>1, <2>1, <3>1, ModWrap
  <2>2. CASE x < a
    <3>1. z \in (1 - m) .. -1
      BY <1>1, <1>2, <2>2
    <3>2. ~(a <= x)
      BY <1>2, <2>2
    <3> HIDE DEF z
    <3>3. QED
      BY <1>1, <3>1, <3>2, ModBelow
  <2>3. QED
    BY <1>2, <2>1, <2>2
<1>5. QED
  BY <1>1, <1>2, <1>3, <1>4 DEF Byte, Offset

\* One byte: the access goes through exactly if the byte is open, and the latch
\* keeps an earlier fault.
LEMMA ByteByByte ==
    ASSUME Laid, NEW c \in Cursors, NEW a \in Address, NEW w \in BOOLEAN, NEW b \in Bytes
    PROVE  LET e == ByteAccess(c, a, w, b)
           IN  /\ e \in Cursors
               /\ e.fault = IF Open(a, w) \/ c.fault # NoFault THEN c.fault ELSE a
               /\ e.data = IF Open(a, w) /\ w THEN [c.data EXCEPT ![a] = b] ELSE c.data
<1> DEFINE e == ByteAccess(c, a, w, b)
           i == Find_Region(c.hint, a)
           stored == IF w THEN [c.data EXCEPT ![a] = b] ELSE c.data
<1>1. /\ c.hint \in 1 .. MaxRegions + 1 /\ c.fault \in Address \cup {NoFault}
      /\ c.data \in [Address -> Bytes]
      /\ c = [hint |-> c.hint, fault |-> c.fault, data |-> c.data]
  BY DEF Cursors
<1>2. c.hint \in Nat \ {0} /\ MaxRegions \in Nat
  BY <1>1, MemoryAssumption
<1>3. stored \in [Address -> Bytes]
  BY <1>1
<1>4. /\ i \in 1 .. Len(regions) + 1
      /\ Allows(i, w) <=> \E j \in DOMAIN regions : Inside(regions[j], a) /\ Allows(j, w)
  BY <1>2, SearchAdmits
<1>5. Len(regions) \in Nat /\ Len(regions) <= MaxRegions
  BY DEF Laid
<1>6. CASE a \in Devices
  <2>1. e = [c EXCEPT !.data = stored]
    BY <1>6 DEF ByteAccess
  <2> HIDE DEF e, stored
  <2>2. e = [hint |-> c.hint, fault |-> c.fault, data |-> stored]
    BY <1>1, <2>1
  <2>3. Open(a, w)
    BY <1>6 DEF Open
  <2>4. e \in Cursors /\ e.fault = c.fault /\ e.data = stored
    BY <1>1, <1>3, <2>2 DEF Cursors
  <2>5. QED
    BY <2>3, <2>4 DEF e, stored
<1>7. CASE a \notin Devices
  <2>1. Open(a, w) <=> Allows(i, w)
    BY <1>4, <1>7 DEF Open
  <2>2. e = [hint  |-> IF i <= Len(regions) THEN i ELSE c.hint,
             fault |-> IF Allows(i, w) \/ c.fault # NoFault THEN c.fault ELSE a,
             data  |-> IF Allows(i, w) THEN stored ELSE c.data]
    BY <1>7 DEF ByteAccess
  <2> HIDE DEF e, stored, i
  <2>3. (IF i <= Len(regions) THEN i ELSE c.hint) \in 1 .. MaxRegions + 1
    BY <1>1, <1>2, <1>4, <1>5
  <2>4. e \in Cursors
    BY <1>1, <1>3, <2>2, <2>3 DEF Cursors
  <2>5. QED
    BY <2>1, <2>2, <2>4 DEF e, stored
<1>8. QED
  BY <1>6, <1>7

\* One byte more.
LEMMA FaultsNext ==
    ASSUME NEW a \in Address, NEW n \in Nat, NEW w \in BOOLEAN, NEW f, Faults(f, a, n, w),
           NEW g, g = IF Open(Byte(a, n), w) \/ f # NoFault THEN f ELSE Byte(a, n)
    PROVE  Faults(g, a, n + 1, w)
<1> DEFINE open(k) == Open(Byte(a, k), w)
           byte(k) == Byte(a, k)
<1>1. \A k \in Nat : byte(k) # NoFault
  BY ByteIsAddress
<1>2. \/ f = NoFault /\ \A k \in 0 .. n - 1 : open(k)
      \/ \E k \in 0 .. n - 1 : ~open(k) /\ f = byte(k) /\ \A j \in 0 .. k - 1 : open(j)
  BY DEF Faults
<1>3. g = IF open(n) \/ f # NoFault THEN f ELSE byte(n)
  OBVIOUS
<1>4. /\ 0 .. (n + 1) - 1 = (0 .. n - 1) \cup {n}
      /\ n \in 0 .. (n + 1) - 1
  OBVIOUS
<1> SUFFICES \/ g = NoFault /\ \A k \in 0 .. (n + 1) - 1 : open(k)
             \/ \E k \in 0 .. (n + 1) - 1 :
                   ~open(k) /\ g = byte(k) /\ \A j \in 0 .. k - 1 : open(j)
  BY DEF Faults
<1> HIDE DEF open, byte
<1>5. CASE f = NoFault /\ \A k \in 0 .. n - 1 : open(k)
  <2>1. CASE open(n)
    BY <1>3, <1>4, <1>5, <2>1
  <2>2. CASE ~open(n)
    BY <1>3, <1>4, <1>5, <2>2
  <2>3. QED
    BY <2>1, <2>2
<1>6. CASE \E k \in 0 .. n - 1 : ~open(k) /\ f = byte(k) /\ \A j \in 0 .. k - 1 : open(j)
  <2>1. PICK k \in 0 .. n - 1 : ~open(k) /\ f = byte(k) /\ \A j \in 0 .. k - 1 : open(j)
    BY <1>6
  <2>2. g = f
    BY <1>1, <1>3, <2>1
  <2>3. QED
    BY <1>4, <2>1, <2>2
<1>7. QED
  BY <1>2, <1>5, <1>6


\* The outcome of an access does not depend on how the latch stood, if it stood
\* open; a byte more takes it from done to done.
LEMMA DoneNext ==
    ASSUME Laid, NEW a \in Address, NEW n \in 0 .. AddrMod - 2, NEW w \in BOOLEAN, NEW v,
           v[n + 1] \in Bytes, NEW c \in Cursors, NEW d, Done(d, c, a, n, w, v)
    PROVE  Done(ByteAccess(d, Byte(a, n), w, v[n + 1]), c, a, n + 1, w, v)
<1> DEFINE x == Byte(a, n)
           b == v[n + 1]
           e == ByteAccess(d, x, w, b)
<1>1. AddrMod \in Nat /\ n \in Nat /\ n \in 0 .. AddrMod - 1 /\ x \in Address
  BY MemoryAssumption, ByteIsAddress
<1>2. /\ d \in Cursors /\ Faults(d.fault, a, n, w)
      /\ IF w THEN Stores(d.data, c.data, a, n, v) ELSE d.data = c.data
  BY DEF Done
<1>3. /\ e \in Cursors
      /\ e.fault = IF Open(x, w) \/ d.fault # NoFault THEN d.fault ELSE x
      /\ e.data = IF Open(x, w) /\ w THEN [d.data EXCEPT ![x] = b] ELSE d.data
  <2> HIDE DEF x
  <2>1. QED
    BY <1>1, <1>2, ByteByByte
<1>4. Faults(e.fault, a, n + 1, w)
  <2> DEFINE g == e.fault
             f == d.fault
  <2>1. Faults(f, a, n, w) /\ g = IF Open(Byte(a, n), w) \/ f # NoFault THEN f ELSE Byte(a, n)
    BY <1>2, <1>3
  <2> HIDE DEF g, f
  <2>2. Faults(g, a, n + 1, w)
    BY <1>1, <2>1, FaultsNext
  <2>3. QED
    BY <2>2 DEF g
<1>5. CASE w
  <2>1. Stores(e.data, c.data, a, n + 1, v)
    <3> SUFFICES ASSUME NEW y \in Address
                 PROVE  e.data[y] = IF Offset(y, a) < n + 1 /\ Open(y, TRUE)
                                    THEN v[Offset(y, a) + 1] ELSE c.data[y]
      BY DEF Stores
    <3>1. d.data[y] = IF Offset(y, a) < n /\ Open(y, TRUE) THEN v[Offset(y, a) + 1] ELSE c.data[y]
      BY <1>2, <1>5 DEF Stores
    <3>2. d.data \in [Address -> Bytes]
      BY <1>2 DEF Cursors
    <3>3. y = x <=> Offset(y, a) = n
      BY <1>1, OffsetOfByte
    <3>4. Offset(y, a) \in Nat
      <4>1. AddrMod \in Nat \ {0} /\ y - a \in Int
        BY MemoryAssumption DEF Address
      <4>2. (y - a) % AddrMod \in 0 .. AddrMod - 1
        BY <4>1, ModRange
      <4>3. QED
        BY <4>1, <4>2 DEF Offset
    <3>5. e.data[y] = IF y = x /\ Open(x, TRUE) THEN b ELSE d.data[y]
      <4> HIDE DEF x, b, e
      <4>1. QED
        BY <1>1, <1>3, <1>5, <3>2
    <3> HIDE DEF x, e
    <3> DEFINE o == Offset(y, a)
    <3> HIDE DEF o
    <3>6. CASE y = x
      <4>1. o = n /\ ~(o < n) /\ o < n + 1 /\ v[o + 1] = b
        BY <1>1, <3>3, <3>6 DEF o
      <4>2. QED
        BY <3>1, <3>5, <3>6, <4>1 DEF o
    <3>7. CASE y # x
      <4>1. o < n + 1 <=> o < n
        BY <1>1, <3>3, <3>4, <3>7 DEF o
      <4>2. QED
        BY <3>1, <3>5, <3>7, <4>1 DEF o
    <3>8. QED
      BY <3>6, <3>7
  <2>2. QED
    BY <1>3, <1>4, <1>5, <2>1 DEF Done
<1>6. CASE ~w
  <2>1. e.data = c.data
    BY <1>2, <1>3, <1>6
  <2>2. QED
    BY <1>3, <1>4, <1>6, <2>1 DEF Done
<1>7. QED
  BY <1>5, <1>6

\* The slow path.
LEMMA ByBytesDone ==
    ASSUME Laid, NEW c \in Cursors, c.fault = NoFault, NEW a \in Address,
           NEW n \in 0 .. AddrMod - 1, NEW w \in BOOLEAN, NEW v,
           \A k \in 1 .. n : v[k] \in Bytes
    PROVE  Done(ByBytes(c, a, n, w, v), c, a, n, w, v)
<1> DEFINE Next1(k, e) == ByteAccess(e, Byte(a, k - 1), w, v[k])
           Loop(f) == f = [k \in 0 .. n |->
                             IF k = 0 THEN c
                             ELSE ByteAccess(f[k - 1], Byte(a, k - 1), w, v[k])]
           after == CHOOSE f : Loop(f)
           g == [k \in 1 .. n |-> [e \in Cursors |-> Next1(k, e)]]
<1>1. n \in Nat
  BY MemoryAssumption
<1>2. \A k \in 1 .. n : \A e \in Cursors : Next1(k, e) \in Cursors
  <2> SUFFICES ASSUME NEW k \in 1 .. n, NEW e \in Cursors
               PROVE  Next1(k, e) \in Cursors
    OBVIOUS
  <2> DEFINE x == Byte(a, k - 1)
             b == v[k]
  <2>1. x \in Address /\ b \in Bytes
    <3>1. k - 1 \in Nat
      OBVIOUS
    <3>2. QED
      BY <3>1, ByteIsAddress
  <2> HIDE DEF x, b
  <2>2. ByteAccess(e, x, w, b) \in Cursors
    BY <2>1, ByteByByte
  <2>3. QED
    BY <2>2 DEF x, b
<1>3. \E f \in [0 .. n -> Cursors] : Iterates(f, n, c, g)
  <2>1. g \in Steps(n, Cursors)
    <3> HIDE DEF Next1
    <3>1. QED
      BY <1>2 DEF Steps
  <2> HIDE DEF g
  <2>2. QED
    BY <1>1, <2>1, Recursion
<1>4. \E f : Loop(f)
  <2>1. PICK f \in [0 .. n -> Cursors] : Iterates(f, n, c, g)
    BY <1>3
  <2>2. \A k \in 1 .. n : k - 1 \in 0 .. n /\ f[k - 1] \in Cursors
    BY <1>1
  <2>3. f[0] = c /\ \A k \in 1 .. n : f[k] = Next1(k, f[k - 1])
    <3> HIDE DEF Next1
    <3>1. QED
      BY <2>1, <2>2 DEF Iterates
  <2>4. \A k \in 0 .. n : k = 0 \/ k \in 1 .. n
    OBVIOUS
  <2>5. f = [k \in 0 .. n |-> IF k = 0 THEN c ELSE Next1(k, f[k - 1])]
    <3> HIDE DEF Next1
    <3>1. QED
      BY <2>3, <2>4
  <2>6. Loop(f)
    BY <2>5
  <2>7. QED
    <3> HIDE DEF Loop
    <3>1. QED
      BY <2>6
<1>5. Loop(after)
  <2> HIDE DEF Loop
  <2>1. QED
    BY <1>4
<1>6. ByBytes(c, a, n, w, v) = after[n]
  BY DEF ByBytes
<1>7. \A k \in 0 .. n : after[k] = IF k = 0 THEN c ELSE Next1(k, after[k - 1])
  <2> HIDE DEF after
  <2>1. QED
    BY <1>5
<1> HIDE DEF after
<1> DEFINE A == {k \in 0 .. n : Done(after[k], c, a, k, w, v)}
<1>8. 0 \in A
  <2>1. after[0] = c /\ 0 \in 0 .. n
    BY <1>1, <1>7
  <2>2. Faults(c.fault, a, 0, w)
    BY DEF Faults
  <2>3. Stores(c.data, c.data, a, 0, v)
    <3> SUFFICES ASSUME NEW x \in Address
                 PROVE  ~(Offset(x, a) < 0)
      BY DEF Stores
    <3>1. AddrMod \in Nat \ {0} /\ x - a \in Int
      BY MemoryAssumption DEF Address
    <3>2. (x - a) % AddrMod \in 0 .. AddrMod - 1
      BY <3>1, ModRange
    <3>3. QED
      BY <3>1, <3>2 DEF Offset
  <2>4. Done(c, c, a, 0, w, v)
    BY <2>2, <2>3 DEF Done
  <2>5. QED
    BY <2>1, <2>4
<1>9. \A k \in 1 .. n : k - 1 \in A => k \in A
  <2> SUFFICES ASSUME NEW k \in 1 .. n, k - 1 \in A
               PROVE  k \in A
    OBVIOUS
  <2> DEFINE i == k - 1
             d == after[i]
  <2>1. i \in 0 .. AddrMod - 2 /\ i + 1 = k /\ v[k] \in Bytes /\ k \in 0 .. n /\ k # 0
    BY <1>1, MemoryAssumption
  <2>2. Done(d, c, a, i, w, v)
    OBVIOUS
  <2>3. after[k] = ByteAccess(d, Byte(a, i), w, v[i + 1])
    BY <1>7, <2>1
  <2> HIDE DEF i, d
  <2>4. Done(ByteAccess(d, Byte(a, i), w, v[i + 1]), c, a, i + 1, w, v)
    BY <2>1, <2>2, DoneNext
  <2>5. QED
    BY <2>1, <2>3, <2>4
<1>10. n \in A
  <2> HIDE DEF A
  <2>1. \A k \in 0 .. n : k \in A
    BY <1>1, <1>8, <1>9, UpTo
  <2>2. QED
    BY <1>1, <2>1
<1>11. QED
  BY <1>6, <1>10


----------------------------------------------------------------------------
(* Memory: the fast path *)

\* An access that fits in a region finds every byte of it open, and its
\* addresses do not wrap.
LEMMA FitsOpen ==
    ASSUME Laid, NEW h \in Nat \ {0}, NEW a \in Address, NEW n \in 1 .. AddrMod - 1,
           NEW w \in BOOLEAN, Fits(h, a, n, w)
    PROVE  /\ Find_Region(h, a) \in 1 .. MaxRegions
           /\ a + n - 1 < AddrMod
           /\ \A k \in 0 .. n - 1 : Open(Byte(a, k), w)
<1> DEFINE i == Find_Region(h, a)
           r == regions[i]
<1>1. AddrMod \in Nat /\ n \in Nat /\ MaxRegions \in Nat /\ a \in 0 .. AddrMod - 1
  BY MemoryAssumption DEF Address
<1>2. Allows(i, w) /\ i <= Len(regions) /\ a - r.base + (n - 1) < r.size
  BY DEF Fits, Allows
<1>3. i \in DOMAIN regions /\ Inside(r, a)
  <2>1. \/ i \in DOMAIN regions /\ Inside(r, a)
        \/ i = NotFound
    BY SearchFinds
  <2> HIDE DEF i
  <2>2. Len(regions) \in Nat
    BY DEF Laid
  <2>3. i # NotFound
    BY <1>2, <2>2 DEF NotFound
  <2>4. QED
    BY <2>1, <2>3
<1> HIDE DEF i
<1>4. /\ DOMAIN regions = 1 .. Len(regions) /\ Len(regions) \in Nat
      /\ Len(regions) <= MaxRegions
      /\ r.size > 0 /\ AddrMod - 1 - r.base >= r.size - 1
      /\ r \in Regions
  BY <1>3 DEF Laid
<1>5. i \in 1 .. MaxRegions
  BY <1>1, <1>3, <1>4
<1>6. r.base \in 0 .. AddrMod - 1 /\ r.size \in Nat /\ r.base <= a
  BY <1>3, <1>4 DEF Regions, Address, Inside
<1> HIDE DEF r
<1>7. /\ a + n - 1 < AddrMod
      /\ \A k \in 0 .. n - 1 : a + k >= r.base /\ (a + k) - r.base < r.size
  <2> DEFINE base == r.base
             size == r.size
  <2>1. base \in Nat /\ size \in Nat /\ base <= a /\ a \in Nat /\ n \in Nat \ {0}
    BY <1>1, <1>6
  <2>2. (a - base) + (n - 1) < size /\ AddrMod - 1 - base >= size - 1
    BY <1>2, <1>4
  <2> HIDE DEF base, size
  <2>3. /\ a + n - 1 < AddrMod
        /\ \A k \in 0 .. n - 1 : a + k >= base /\ (a + k) - base < size
    BY <1>1, <2>1, <2>2, SpanInside
  <2>4. QED
    BY <2>3 DEF base, size
<1>8. ASSUME NEW k \in 0 .. n - 1
      PROVE  Open(Byte(a, k), w)
  <2> DEFINE x == a + k
  <2>1. x \in 0 .. 2 * AddrMod - 1 /\ x < AddrMod /\ AddrMod \in Nat \ {0}
    BY <1>1, <1>7
  <2>2. x >= r.base /\ x - r.base < r.size
    BY <1>7
  <2> HIDE DEF x
  <2>3. x % AddrMod = x
    BY <2>1, ModWrap
  <2>4. Byte(a, k) = x
    BY <2>3 DEF Byte, x
  <2>5. Inside(regions[i], x)
    BY <2>2 DEF Inside, r
  <2>6. QED
    BY <1>2, <1>3, <2>4, <2>5 DEF Open
<1>9. QED
  BY <1>5, <1>7, <1>8 DEF i

\* An access of up to four bytes, by whichever path it goes.
LEMMA BlockDone ==
    ASSUME Laid, NEW c \in Cursors, c.fault = NoFault, NEW a \in Address,
           NEW n \in 1 .. 4, NEW w \in BOOLEAN, NEW v, \A k \in 1 .. n : v[k] \in Bytes
    PROVE  Done(Block(c, a, n, w, v), c, a, n, w, v)
<1> DEFINE e == Block(c, a, n, w, v)
           i == Find_Region(c.hint, a)
           written == [x \in Address |-> IF x - a \in 0 .. n - 1 THEN v[x - a + 1] ELSE c.data[x]]
<1>1. AddrMod \in Nat \ {0} /\ n \in 0 .. AddrMod - 1 /\ n \in 1 .. AddrMod - 1
  BY MemoryAssumption
<1>2. CASE n > 1 /\ Fits(c.hint, a, n, w)
  <2>1. /\ c.hint \in 1 .. MaxRegions + 1 /\ c.fault \in Address \cup {NoFault}
        /\ c.data \in [Address -> Bytes]
        /\ c = [hint |-> c.hint, fault |-> c.fault, data |-> c.data]
    BY DEF Cursors
  <2>2. c.hint \in Nat \ {0} /\ MaxRegions \in Nat
    BY <2>1, MemoryAssumption
  <2>3. /\ i \in 1 .. MaxRegions
        /\ a + n - 1 < AddrMod
        /\ \A k \in 0 .. n - 1 : Open(Byte(a, k), w)
    <3> DEFINE h == c.hint
    <3>1. h \in Nat \ {0} /\ Fits(h, a, n, w)
      BY <1>2, <2>2
    <3> HIDE DEF h
    <3>2. /\ Find_Region(h, a) \in 1 .. MaxRegions
          /\ a + n - 1 < AddrMod
          /\ \A k \in 0 .. n - 1 : Open(Byte(a, k), w)
      BY <1>1, <3>1, FitsOpen
    <3>3. QED
      BY <3>2 DEF h
  <2>4. e = [c EXCEPT !.hint = i, !.data = IF ~w THEN c.data ELSE written]
    BY <1>2 DEF Block
  <2> HIDE DEF e, i, written
  <2>5. e = [hint |-> i, fault |-> c.fault, data |-> IF ~w THEN c.data ELSE written]
    BY <2>1, <2>4
  <2>6. written \in [Address -> Bytes]
    <3> SUFFICES ASSUME NEW x \in Address
                 PROVE  (IF x - a \in 0 .. n - 1 THEN v[x - a + 1] ELSE c.data[x]) \in Bytes
      BY DEF written
    <3>1. x - a \in 0 .. n - 1 => x - a + 1 \in 1 .. n
      OBVIOUS
    <3>2. QED
      BY <2>1, <3>1
  <2>7. e \in Cursors
    <3>1. i \in 1 .. MaxRegions + 1
      BY <2>2, <2>3
    <3>2. QED
      BY <2>1, <2>5, <2>6, <3>1 DEF Cursors
  <2>8. Faults(e.fault, a, n, w)
    BY <2>3, <2>5 DEF Faults
  <2>9. CASE w
    <3>1. Stores(written, c.data, a, n, v)
      <4> SUFFICES ASSUME NEW x \in Address
                   PROVE  written[x] = IF Offset(x, a) < n /\ Open(x, TRUE)
                                       THEN v[Offset(x, a) + 1] ELSE c.data[x]
        BY DEF Stores
      <4>1. written[x] = IF x - a \in 0 .. n - 1 THEN v[x - a + 1] ELSE c.data[x]
        BY DEF written
      <4>2. a \in 0 .. AddrMod - 1 /\ x \in 0 .. AddrMod - 1
        BY DEF Address
      <4>3. Offset(x, a) = IF a <= x THEN x - a ELSE x - a + AddrMod
        <5> DEFINE m == AddrMod
                   z == x - a
        <5>1. CASE a <= x
          <6>1. z \in 0 .. 2 * m - 1 /\ z < m
            BY <1>1, <4>2, <5>1
          <6> HIDE DEF z
          <6>2. z % m = z
            BY <1>1, <6>1, ModWrap
          <6>3. QED
            BY <5>1, <6>2 DEF z, Offset
        <5>2. CASE x < a
          <6>1. z \in (1 - m) .. -1 /\ ~(a <= x)
            BY <1>1, <4>2, <5>2
          <6> HIDE DEF z
          <6>2. z % m = z + m
            BY <1>1, <6>1, ModBelow
          <6>3. QED
            BY <6>1, <6>2 DEF z, Offset
        <5>3. QED
          BY <4>2, <5>1, <5>2
      <4> DEFINE o == Offset(x, a)
      <4> HIDE DEF o
      <4>4. CASE x - a \in 0 .. n - 1
        <5>1. o = x - a /\ o < n /\ o \in 0 .. AddrMod - 1 /\ o \in 0 .. n - 1
          BY <1>1, <4>2, <4>3, <4>4 DEF o
        <5>2. x = Byte(a, o)
          BY <5>1, OffsetOfByte DEF o
        <5>3. Open(x, w)
          BY <2>3, <5>1, <5>2
        <5>4. Open(x, TRUE)
          BY <2>9, <5>3
        <5>5. QED
          BY <4>1, <4>4, <5>1, <5>4 DEF o
      <4>5. CASE x - a \notin 0 .. n - 1
        <5>1. ~(o < n)
          BY <1>1, <2>3, <4>2, <4>3, <4>5 DEF o
        <5>2. QED
          BY <4>1, <4>5, <5>1 DEF o
      <4>6. QED
        BY <4>4, <4>5
    <3>2. e.data = written
      BY <2>5, <2>9
    <3>3. Stores(e.data, c.data, a, n, v)
      BY <3>1, <3>2
    <3>4. Done(e, c, a, n, w, v)
      BY <2>7, <2>8, <2>9, <3>3 DEF Done
    <3>5. QED
      BY <3>4 DEF e
  <2>10. CASE ~w
    BY <2>5, <2>7, <2>8, <2>10 DEF Done, e
  <2>11. QED
    BY <2>9, <2>10 DEF e
<1>3. CASE ~(n > 1 /\ Fits(c.hint, a, n, w))
  <2>1. e = ByBytes(c, a, n, w, v)
    BY <1>3 DEF Block
  <2>2. Done(ByBytes(c, a, n, w, v), c, a, n, w, v)
    BY <1>1, ByBytesDone
  <2>3. QED
    BY <2>1, <2>2
<1>4. QED
  BY <1>2, <1>3


----------------------------------------------------------------------------
(* Memory: instruction fetch *)

None == <<0, 0, 0, 0>>

Width(a) == IF Compressed(a) THEN 2 ELSE 4

\* Two bytes, and two more behind them.
LEMMA FaultsTwice ==
    ASSUME NEW a \in Address, NEW w \in BOOLEAN, NEW f,
           Faults(NoFault, a, 2, w), Faults(f, Byte(a, 2), 2, w)
    PROVE  Faults(f, a, 4, w)
<1> DEFINE open(k) == Open(Byte(a, k), w)
           byte(k) == Byte(a, k)
<1>1. \A k \in 0 .. 1 : Byte(Byte(a, 2), k) = byte(2 + k)
  <2>1. AddrMod \in Nat /\ AddrMod > 4 /\ a \in 0 .. AddrMod - 1
    BY MemoryAssumption DEF Address
  <2> SUFFICES ASSUME NEW k \in 0 .. 1
               PROVE  (((a + 2) % AddrMod) + k) % AddrMod = (a + (2 + k)) % AddrMod
    BY DEF Byte
  <2> DEFINE m == AddrMod
             x == a + 2
  <2>2. m \in Nat \ {0} /\ x \in 0 .. 2 * m - 1 /\ k \in 0 .. m
    BY <2>1
  <2> HIDE DEF m, x
  <2>3. ((x % m) + k) % m = (x + k) % m
    BY <2>2, ModPlus
  <2>4. x + k = a + (2 + k)
    BY <2>1 DEF x
  <2>5. QED
    BY <2>3, <2>4 DEF m, x
<1>2. \A k \in Nat : byte(k) # NoFault
  BY ByteIsAddress
<1>3. open(0) /\ open(1)
  BY <1>2 DEF Faults
<1>4. \A k \in 0 .. 1 : Open(Byte(Byte(a, 2), k), w) <=> open(2 + k)
  BY <1>1
<1>5. \/ f = NoFault /\ open(2) /\ open(3)
      \/ ~open(2) /\ f = byte(2)
      \/ open(2) /\ ~open(3) /\ f = byte(3)
  <2> DEFINE o(k) == Open(Byte(Byte(a, 2), k), w)
             y(k) == Byte(Byte(a, 2), k)
  <2>1. \/ f = NoFault /\ \A k \in 0 .. 1 : o(k)
        \/ \E k \in 0 .. 1 : ~o(k) /\ f = y(k) /\ \A j \in 0 .. k - 1 : o(j)
    BY DEF Faults
  <2>2. \A k \in 0 .. 1 : (o(k) <=> open(2 + k)) /\ y(k) = byte(2 + k)
    BY <1>1, <1>4
  <2> HIDE DEF o, y, open, byte
  <2>3. (o(0) <=> open(2)) /\ (o(1) <=> open(3)) /\ y(0) = byte(2) /\ y(1) = byte(3)
    BY <2>2
  <2>4. QED
    BY <2>1, <2>3
<1> SUFFICES \/ f = NoFault /\ \A k \in 0 .. 3 : open(k)
             \/ \E k \in 0 .. 3 : ~open(k) /\ f = byte(k) /\ \A j \in 0 .. k - 1 : open(j)
  BY DEF Faults
<1> HIDE DEF open, byte
<1>6. CASE f = NoFault /\ open(2) /\ open(3)
  BY <1>3, <1>6
<1>7. CASE ~open(2) /\ f = byte(2)
  <2>1. 2 \in 0 .. 3 /\ \A j \in 0 .. 2 - 1 : open(j)
    BY <1>3
  <2>2. QED
    BY <1>7, <2>1
<1>8. CASE open(2) /\ ~open(3) /\ f = byte(3)
  <2>1. 3 \in 0 .. 3 /\ \A j \in 0 .. 3 - 1 : open(j)
    BY <1>3, <1>8
  <2>2. QED
    BY <1>8, <2>1
<1>9. QED
  BY <1>5, <1>6, <1>7, <1>8

\* A block read.
LEMMA BlockRead ==
    ASSUME Laid, NEW c \in Cursors, c.fault = NoFault, NEW a \in Address, NEW n \in {2, 4}
    PROVE  LET e == Block(c, a, n, FALSE, None)
           IN  e \in Cursors /\ e.data = c.data /\ Faults(e.fault, a, n, FALSE)
<1> DEFINE w == FALSE
           v == None
           e == Block(c, a, n, w, v)
<1>1. n \in 1 .. 4 /\ w \in BOOLEAN
  OBVIOUS
<1>2. \A k \in 1 .. n : v[k] \in Bytes
  BY MemoryAssumption DEF None
<1> HIDE DEF w, v
<1>3. Done(e, c, a, n, w, v)
  BY <1>1, <1>2, BlockDone
<1> HIDE DEF e
<1>4. e \in Cursors /\ e.data = c.data /\ Faults(e.fault, a, n, w)
  BY <1>3 DEF Done, w
<1>5. QED
  BY <1>4 DEF e, v, w

\* A fetch is an access to as many bytes as the instruction has.
Fetched(c, a) ==
    LET lo == Block(c, a, 2, FALSE, None)
    IN  IF Fits(c.hint, a, 4, FALSE) THEN Block(c, a, 4, FALSE, None)
        ELSE IF lo.fault # NoFault \/ Compressed(a) THEN lo
        ELSE Block(lo, Byte(a, 2), 2, FALSE, None)

LEMMA FetchDone ==
    ASSUME Laid, NEW c \in Cursors, c.fault = NoFault, NEW a \in Address
    PROVE  Done(Fetched(c, a), c, a, Width(a), FALSE, None)
<1> DEFINE lo == Block(c, a, 2, FALSE, None)
           all == Block(c, a, 4, FALSE, None)
           hi == Block(lo, Byte(a, 2), 2, FALSE, None)
           e == Fetched(c, a)
           open(k) == Open(Byte(a, k), FALSE)
<1>1. e = IF Fits(c.hint, a, 4, FALSE) THEN all
          ELSE IF lo.fault # NoFault \/ Compressed(a) THEN lo
          ELSE hi
  BY DEF Fetched
<1>2. all \in Cursors /\ all.data = c.data /\ Faults(all.fault, a, 4, FALSE)
  BY BlockRead
<1>3. lo \in Cursors /\ lo.data = c.data /\ Faults(lo.fault, a, 2, FALSE)
  BY BlockRead
<1>4. Byte(a, 2) \in Address
  BY ByteIsAddress
<1>5. lo.fault = NoFault =>
         hi \in Cursors /\ hi.data = lo.data /\ Faults(hi.fault, Byte(a, 2), 2, FALSE)
  <2> HIDE DEF lo
  <2>1. QED
    BY <1>3, <1>4, BlockRead
<1>6. Width(a) = IF Compressed(a) THEN 2 ELSE 4
  BY DEF Width
<1>7. e \in Cursors /\ e.data = c.data
  <2> HIDE DEF lo, all, hi, e
  <2>1. QED
    BY <1>1, <1>2, <1>3, <1>5
<1>8. CASE Fits(c.hint, a, 4, FALSE)
  <2>1. e = all
    BY <1>1, <1>8
  <2> HIDE DEF e, all
  <2>2. \A k \in 0 .. 3 : open(k)
    <3> DEFINE n == 4
               w == FALSE
    <3>1. c.hint \in Nat \ {0} /\ n \in 1 .. AddrMod - 1 /\ w \in BOOLEAN
      BY MemoryAssumption DEF Cursors
    <3>2. Fits(c.hint, a, n, w)
      BY <1>8
    <3> HIDE DEF n, w
    <3>3. \A k \in 0 .. n - 1 : Open(Byte(a, k), w)
      BY <3>1, <3>2, FitsOpen
    <3>4. \A k \in 0 .. 3 : k \in 0 .. n - 1
      BY DEF n
    <3>5. \A k \in 0 .. 3 : Open(Byte(a, k), w)
      BY <3>3, <3>4, Zenon
    <3>6. QED
      BY <3>5 DEF w
  <2>3. \A k \in 0 .. 4 - 1 : open(k)
    <3> HIDE DEF open
    <3>1. QED
      BY <2>2
  <2>4. \A k \in 0 .. 2 - 1 : open(k)
    <3> HIDE DEF open
    <3>1. QED
      BY <2>2
  <2>5. all.fault = NoFault
    BY <1>2, <2>3 DEF Faults
  <2>6. Faults(all.fault, a, Width(a), FALSE)
    BY <1>6, <2>3, <2>4, <2>5 DEF Faults
  <2>7. QED
    BY <1>7, <2>1, <2>6 DEF Done, e
<1>9. CASE ~Fits(c.hint, a, 4, FALSE) /\ Compressed(a)
  <2>1. e = lo /\ Width(a) = 2
    BY <1>1, <1>6, <1>9
  <2> HIDE DEF e, lo
  <2>2. QED
    BY <1>3, <1>7, <2>1 DEF Done, e
<1>10. CASE ~Fits(c.hint, a, 4, FALSE) /\ ~Compressed(a) /\ lo.fault # NoFault
  <2>1. e = lo /\ Width(a) = 4
    BY <1>1, <1>6, <1>10
  <2> DEFINE f == lo.fault
  <2> HIDE DEF e
  <2>2. Faults(f, a, 4, FALSE)
    <3>1. Faults(f, a, 2, FALSE) /\ f # NoFault
      BY <1>3, <1>10
    <3> HIDE DEF f
    <3>2. PICK k \in 0 .. 2 - 1 : /\ ~open(k) /\ f = Byte(a, k)
                                  /\ \A j \in 0 .. k - 1 : open(j)
      BY <3>1 DEF Faults
    <3>3. k \in 0 .. 4 - 1
      OBVIOUS
    <3>4. QED
      BY <3>2, <3>3 DEF Faults
  <2> HIDE DEF lo
  <2>3. QED
    BY <1>7, <2>1, <2>2 DEF Done, e
<1>11. CASE ~Fits(c.hint, a, 4, FALSE) /\ ~Compressed(a) /\ lo.fault = NoFault
  <2>1. e = hi /\ Width(a) = 4
    BY <1>1, <1>6, <1>11
  <2> HIDE DEF e
  <2>2. Faults(hi.fault, Byte(a, 2), 2, FALSE) /\ Faults(NoFault, a, 2, FALSE)
    BY <1>3, <1>5, <1>11
  <2> DEFINE f == hi.fault
  <2>3. Faults(f, a, 4, FALSE)
    <3>1. Faults(f, Byte(a, 2), 2, FALSE)
      BY <2>2
    <3> HIDE DEF f
    <3>2. QED
      BY <2>2, <3>1, FaultsTwice
  <2> HIDE DEF hi
  <2>4. QED
    BY <1>7, <2>1, <2>3 DEF Done, e
<1>12. QED
  BY <1>8, <1>9, <1>10, <1>11


----------------------------------------------------------------------------
(* Memory: the invariant *)

MemInv ==
    /\ MemTypeOK
    /\ Laid
    /\ last.kind # "none" => running    \* the regions stand once there was an access
    /\ FaultExact
    /\ StoreExact

\* The first shut byte is the least.
LEMMA FaultsAtLeast ==
    ASSUME NEW a \in Address, NEW n \in Nat, NEW w \in BOOLEAN, NEW f, Faults(f, a, n, w)
    PROVE  LET shut == {k \in 0 .. n - 1 : ~Open(Byte(a, k), w)}
           IN  IF shut = {} THEN f = NoFault
               ELSE f = Byte(a, CHOOSE k \in shut : \A j \in shut : k <= j)
<1> DEFINE open(k) == Open(Byte(a, k), w)
           byte(k) == Byte(a, k)
           shut == {k \in 0 .. n - 1 : ~open(k)}
           least == CHOOSE k \in shut : \A j \in shut : k <= j
<1>1. \/ f = NoFault /\ \A k \in 0 .. n - 1 : open(k)
      \/ \E k \in 0 .. n - 1 : ~open(k) /\ f = byte(k) /\ \A j \in 0 .. k - 1 : open(j)
  BY DEF Faults
<1> SUFFICES IF shut = {} THEN f = NoFault ELSE f = byte(least)
  OBVIOUS
<1> HIDE DEF open, byte
<1>2. CASE f = NoFault /\ \A k \in 0 .. n - 1 : open(k)
  BY <1>2
<1>3. CASE \E k \in 0 .. n - 1 : ~open(k) /\ f = byte(k) /\ \A j \in 0 .. k - 1 : open(j)
  <2>1. PICK k \in 0 .. n - 1 : ~open(k) /\ f = byte(k) /\ \A j \in 0 .. k - 1 : open(j)
    BY <1>3
  <2>2. k \in shut /\ \A j \in shut : k <= j
    BY <2>1
  <2>3. \A m \in shut : (\A j \in shut : m <= j) => m = k
    <3> SUFFICES ASSUME NEW m \in shut, \A j \in shut : m <= j
                 PROVE  m = k
      OBVIOUS
    <3>1. m <= k /\ k <= m /\ m \in Int /\ k \in Int
      BY <2>2
    <3>2. QED
      BY <3>1
  <2>4. least = k
    <3> HIDE DEF shut
    <3>1. least \in shut /\ \A j \in shut : least <= j
      BY <2>2
    <3>2. QED
      BY <2>3, <3>1
  <2>5. shut # {}
    BY <2>2
  <2> HIDE DEF least, shut
  <2>6. QED
    BY <2>1, <2>4, <2>5
<1>4. QED
  BY <1>1, <1>2, <1>3

LEMMA MemInitSound == MemInit => MemInv
<1> SUFFICES ASSUME MemInit
             PROVE  MemInv
  OBVIOUS
<1> USE DEF MemInit
<1>1. MaxRegions \in Nat /\ 0 \in Bytes
  BY MemoryAssumption
<1>2. last.kind = "none"
  BY DEF NoAccess
<1>3. regions \in Seq(Candidates) /\ regions \in Seq(Regions) /\ Len(regions) = 0
      /\ DOMAIN regions = {}
  OBVIOUS
<1>4. MemTypeOK
  <2>1. hint \in 1 .. MaxRegions + 1 /\ Len(regions) <= MaxRegions
    BY <1>1, <1>3
  <2>2. data \in [Address -> Bytes]
    BY <1>1
  <2>3. QED
    BY <1>2, <1>3, <2>1, <2>2 DEF MemTypeOK
<1>5. Laid
  BY <1>1, <1>3 DEF Laid
<1>6. FaultExact /\ StoreExact
  BY <1>2 DEF FaultExact, StoreExact
<1>7. QED
  BY <1>2, <1>4, <1>5, <1>6 DEF MemInv

\* What is done as Done says leaves the invariant as it was.
LEMMA AccessKeeps ==
    ASSUME MemInv, running, UNCHANGED <<regions, running, tracking>>,
           NEW kind \in {"load", "store", "fetch"}, NEW a \in Address, NEW n \in 1 .. 4,
           NEW w \in BOOLEAN, w <=> kind = "store", NEW v, NEW value, w => value = v,
           NEW c, Done(c, Cursor, a, n, w, v), Applied(c),
           last' = [kind |-> kind, addr |-> a, size |-> n, value |-> value,
                    fault |-> c.fault, before |-> data]
    PROVE  MemInv'
<1>1. c \in Cursors /\ Faults(c.fault, a, n, w)
      /\ (w => Stores(c.data, data, a, n, v))
  BY DEF Done, Cursor
<1>2. /\ c.hint \in 1 .. MaxRegions + 1 /\ c.fault \in Address \cup {NoFault}
      /\ c.data \in [Address -> Bytes]
      /\ hint' = c.hint /\ fault' = c.fault /\ data' = c.data
  BY <1>1 DEF Cursors, Applied
<1>3. /\ last'.kind = kind /\ last'.addr = a /\ last'.size = n /\ last'.value = value
      /\ last'.fault = c.fault /\ last'.before = data
  OBVIOUS
<1>4. regions' = regions /\ running' = running /\ tracking' = tracking
  OBVIOUS
<1>5. MemTypeOK'
  BY <1>2, <1>3, <1>4 DEF MemInv, MemTypeOK
<1>6. Laid'
  BY <1>4 DEF MemInv, Laid
<1>7. \A x, u : Open(x, u)' <=> Open(x, u)
  BY <1>4 DEF Open, Allows
<1>8. FaultExact'
  <2> DEFINE shut == {k \in 0 .. n - 1 : ~Open(Byte(a, k), w)}
             f == c.fault
  <2>1. IF shut = {} THEN f = NoFault
        ELSE f = Byte(a, CHOOSE k \in shut : \A j \in shut : k <= j)
    <3>1. Faults(f, a, n, w) /\ n \in Nat
      BY <1>1
    <3> HIDE DEF f
    <3>2. QED
      BY <3>1, FaultsAtLeast
  <2>2. Shut' = shut
    BY <1>3, <1>7 DEF Shut
  <2>3. QED
    <3> HIDE DEF shut
    <3>1. QED
      BY <1>3, <2>1, <2>2 DEF FaultExact
<1>9. StoreExact'
  <2> SUFFICES ASSUME kind = "store", NEW x \in Address
               PROVE  data'[x] = IF (x - a) % AddrMod < n /\ Open(x, TRUE)'
                                 THEN value[((x - a) % AddrMod) + 1] ELSE data[x]
    BY <1>3 DEF StoreExact
  <2>1. Stores(c.data, data, a, n, v) /\ value = v
    BY <1>1
  <2>2. c.data[x] = IF Offset(x, a) < n /\ Open(x, TRUE) THEN v[Offset(x, a) + 1] ELSE data[x]
    BY <2>1 DEF Stores
  <2>3. QED
    BY <1>2, <1>7, <2>1, <2>2 DEF Offset
<1>10. QED
  BY <1>4, <1>5, <1>6, <1>8, <1>9 DEF MemInv


LEMMA CursorSound ==
    ASSUME MemInv
    PROVE  Cursor \in Cursors /\ Cursor.fault = NoFault /\ Cursor.data = data /\ Laid
<1>1. hint \in 1 .. MaxRegions + 1 /\ data \in [Address -> Bytes] /\ Laid
  BY DEF MemInv, MemTypeOK
<1>2. Cursor = [hint |-> hint, fault |-> NoFault, data |-> data]
  BY DEF Cursor, FaultCleared
<1>3. QED
  BY <1>1, <1>2 DEF Cursors

LEMMA LoadKeeps ==
    ASSUME MemInv, running, UNCHANGED <<regions, running, tracking>>,
           NEW a \in Address, NEW size \in Sizes, Load(a, size)
    PROVE  MemInv'
<1> DEFINE w == FALSE
           c == Block(Cursor, a, size, w, None)
           value == <<>>
           kind == "load"
<1>1. size \in 1 .. 4 /\ w \in BOOLEAN /\ kind \in {"load", "store", "fetch"}
  BY DEF Sizes
<1>2. \A k \in 1 .. size : None[k] \in Bytes
  BY MemoryAssumption, <1>1 DEF None
<1>3. (w <=> kind = "store") /\ (w => value = None)
  OBVIOUS
<1>4. Applied(c) /\ last' = [kind |-> kind, addr |-> a, size |-> size, value |-> value,
                             fault |-> c.fault, before |-> data]
  BY DEF Load, None
<1> HIDE DEF w, value, kind
<1>5. Done(c, Cursor, a, size, w, None)
  BY <1>1, <1>2, CursorSound, BlockDone
<1> HIDE DEF c
<1>6. QED
  BY <1>1, <1>3, <1>4, <1>5, AccessKeeps

LEMMA StoreKeeps ==
    ASSUME MemInv, running, UNCHANGED <<regions, running, tracking>>,
           NEW a \in Address, NEW size \in Sizes, NEW v \in GuestData, Store(a, size, v)
    PROVE  MemInv'
<1> DEFINE w == TRUE
           c == Block(Cursor, a, size, w, v)
           kind == "store"
<1>1. size \in 1 .. 4 /\ w \in BOOLEAN /\ kind \in {"load", "store", "fetch"}
  BY DEF Sizes
<1>2. \A k \in 1 .. size : v[k] \in Bytes
  <2>1. v \in Seq(Bytes) /\ Len(v) >= 4
    BY MemoryAssumption
  <2>2. QED
    BY <1>1, <2>1
<1>3. (w <=> kind = "store") /\ (w => v = v)
  OBVIOUS
<1>4. Applied(c) /\ last' = [kind |-> kind, addr |-> a, size |-> size, value |-> v,
                             fault |-> c.fault, before |-> data]
  BY DEF Store
<1> HIDE DEF w, kind
<1>5. Done(c, Cursor, a, size, w, v)
  BY <1>1, <1>2, CursorSound, BlockDone
<1> HIDE DEF c
<1>6. QED
  BY <1>1, <1>3, <1>4, <1>5, AccessKeeps

LEMMA FetchKeeps ==
    ASSUME MemInv, running, UNCHANGED <<regions, running, tracking>>,
           NEW a \in Address, Fetch(a)
    PROVE  MemInv'
<1> DEFINE w == FALSE
           c == Fetched(Cursor, a)
           n == Width(a)
           value == <<>>
           kind == "fetch"
<1>1. n \in 1 .. 4 /\ w \in BOOLEAN /\ kind \in {"load", "store", "fetch"}
  BY DEF Width
<1>2. (w <=> kind = "store") /\ (w => value = None)
  OBVIOUS
<1>3. Applied(c) /\ last' = [kind |-> kind, addr |-> a, size |-> n, value |-> value,
                             fault |-> c.fault, before |-> data]
  <2>1. Cursor.hint = hint
    BY DEF Cursor
  <2>2. QED
    BY <2>1 DEF Fetch, Fetched, Width, None
<1>4. Done(c, Cursor, a, n, w, None)
  BY CursorSound, FetchDone
<1> HIDE DEF w, c, n, value, kind
<1>5. QED
  BY <1>1, <1>2, <1>3, <1>4, AccessKeeps

LEMMA DmaKeeps == MemInv /\ DmaAccess => MemInv'
<1> SUFFICES ASSUME MemInv, DmaAccess
             PROVE  MemInv'
  OBVIOUS
<1>1. PICK a \in Address, w \in BOOLEAN, b \in Bytes :
         Applied(ByteAccess([Cursor EXCEPT !.fault = fault], a, w, b))
  BY DEF DmaAccess
<1> DEFINE d == [Cursor EXCEPT !.fault = fault]
           c == ByteAccess(d, a, w, b)
<1>2. hint \in 1 .. MaxRegions + 1 /\ data \in [Address -> Bytes] /\ Laid
      /\ fault \in Address \cup {NoFault}
  BY DEF MemInv, MemTypeOK
<1>3. d \in Cursors
  <2>1. d = [hint |-> hint, fault |-> fault, data |-> data]
    BY DEF Cursor
  <2> HIDE DEF d
  <2>2. QED
    BY <1>2, <2>1 DEF Cursors
<1>4. c \in Cursors
  <2> HIDE DEF d
  <2>1. QED
    BY <1>2, <1>3, ByteByByte
<1>5. hint' = c.hint /\ fault' = c.fault /\ data' = c.data
  BY <1>1 DEF Applied
<1> HIDE DEF c
<1>6. last'.kind = "none" /\ regions' = regions /\ running' = running /\ tracking' = tracking
  BY DEF DmaAccess, NoAccess
<1>7. MemTypeOK'
  BY <1>4, <1>5, <1>6 DEF MemInv, MemTypeOK, Cursors
<1>8. Laid'
  BY <1>2, <1>6 DEF Laid
<1>9. FaultExact' /\ StoreExact'
  BY <1>6 DEF FaultExact, StoreExact
<1>10. QED
  BY <1>6, <1>7, <1>8, <1>9 DEF MemInv

\* A profile's regions are laid down one clear of the other.
LEMMA AddRegionKeeps == MemInv /\ Add_Region => MemInv'
<1> SUFFICES ASSUME MemInv, NEW r \in Candidates,
                    ~running, regions' = IF Acceptable(r) THEN Append(regions, r) ELSE regions,
                    UNCHANGED <<running, data, hint, fault, tracking, last>>
             PROVE  MemInv'
  BY DEF Add_Region
<1>1. /\ regions \in Seq(Candidates) /\ Len(regions) <= MaxRegions
      /\ Laid /\ MemTypeOK /\ last.kind = "none"
  BY DEF MemInv, MemTypeOK
<1>2. r \in Regions
  BY MemoryAssumption
<1>3. last'.kind = "none"
  BY <1>1
<1>4. FaultExact' /\ StoreExact'
  BY <1>3 DEF FaultExact, StoreExact
<1>5. CASE ~Acceptable(r)
  <2>1. regions' = regions
    BY <1>5
  <2>2. MemTypeOK'
    BY <1>1, <2>1 DEF MemTypeOK
  <2>3. Laid'
    BY <1>1, <2>1 DEF Laid
  <2>4. QED
    BY <1>3, <1>4, <2>2, <2>3 DEF MemInv
<1>6. CASE Acceptable(r)
  <2> DEFINE n == Len(regions)
             s == regions'
  <2>1. /\ n \in Nat /\ n + 1 <= MaxRegions /\ r.size > 0
        /\ AddrMod - 1 - r.base >= r.size - 1
        /\ \A i \in 1 .. n : ClearOf(r, regions[i])
    BY <1>1, <1>6, MemoryAssumption DEF Acceptable
  <2>2. s \in Seq(Candidates) /\ s \in Seq(Regions) /\ Len(s) = n + 1
        /\ s[n + 1] = r /\ \A i \in 1 .. n : s[i] = regions[i]
    BY <1>1, <1>2, <1>6, MemoryAssumption DEF Laid
  <2>3. MemTypeOK'
    BY <1>1, <2>1, <2>2 DEF MemTypeOK
  <2> HIDE DEF s
  <2>4. \A i \in 1 .. n : regions[i] \in Regions
    BY <1>1 DEF Laid
  <2>5. ASSUME NEW i \in 1 .. n, NEW a \in Address
        PROVE  ~(Inside(r, a) /\ Inside(regions[i], a))
    BY <1>2, <2>1, <2>4, ClearShareNothing
  <2>6. DOMAIN s = 1 .. n + 1 /\ \A i \in 1 .. n + 1 : i = n + 1 \/ i \in 1 .. n
    BY <2>1, <2>2
  <2>7. \A i \in DOMAIN s : s[i].size > 0 /\ AddrMod - 1 - s[i].base >= s[i].size - 1
    <3> SUFFICES ASSUME NEW i \in 1 .. n + 1
                 PROVE  s[i].size > 0 /\ AddrMod - 1 - s[i].base >= s[i].size - 1
      BY <2>6
    <3>1. CASE i = n + 1
      BY <2>1, <2>2, <3>1
    <3>2. CASE i \in 1 .. n
      BY <1>1, <2>2, <3>2 DEF Laid
    <3>3. QED
      BY <2>6, <3>1, <3>2
  <2>8. \A i, j \in DOMAIN s :
           i # j => \A a \in Address : ~(Inside(s[i], a) /\ Inside(s[j], a))
    <3> SUFFICES ASSUME NEW i \in 1 .. n + 1, NEW j \in 1 .. n + 1, i # j, NEW a \in Address
                 PROVE  ~(Inside(s[i], a) /\ Inside(s[j], a))
      BY <2>6
    <3>1. CASE i \in 1 .. n /\ j \in 1 .. n
      BY <1>1, <2>2, <3>1 DEF Laid
    <3>2. CASE i \in 1 .. n /\ j = n + 1
      BY <2>2, <2>5, <3>2
    <3>3. CASE i = n + 1 /\ j \in 1 .. n
      BY <2>2, <2>5, <3>3
    <3>4. QED
      BY <2>6, <3>1, <3>2, <3>3
  <2>9. Laid'
    BY <2>1, <2>2, <2>7, <2>8 DEF Laid, s
  <2>10. QED
    BY <1>3, <1>4, <2>3, <2>9 DEF MemInv
<1>7. QED
  BY <1>5, <1>6

LEMMA MemStepSound == MemInv /\ [MemNext]_memVars => MemInv'
<1> SUFFICES ASSUME MemInv, [MemNext]_memVars
             PROVE  MemInv'
  OBVIOUS
<1>1. CASE Add_Region
  BY <1>1, AddRegionKeeps
<1>2. CASE Start
  <2>1. last.kind = "none" /\ MemTypeOK /\ Laid
    BY <1>2 DEF MemInv, Start
  <2>2. UNCHANGED <<regions, data, hint, fault, tracking, last>> /\ running' = TRUE
    BY <1>2 DEF Start
  <2>3. FaultExact' /\ StoreExact'
    BY <2>1, <2>2 DEF FaultExact, StoreExact
  <2>4. MemTypeOK'
    BY <2>1, <2>2 DEF MemTypeOK
  <2>5. Laid'
    BY <2>1, <2>2 DEF Laid
  <2>6. QED
    BY <2>2, <2>3, <2>4, <2>5 DEF MemInv
<1>3. CASE CpuAccess
  <2>1. running /\ UNCHANGED <<regions, running, tracking>>
    BY <1>3 DEF CpuAccess
  <2>2. PICK a \in Address :
           \/ Fetch(a)
           \/ \E size \in Sizes : Load(a, size) \/ \E v \in GuestData : Store(a, size, v)
    BY <1>3 DEF CpuAccess
  <2>3. CASE Fetch(a)
    BY <2>1, <2>3, FetchKeeps
  <2>4. CASE \E size \in Sizes : Load(a, size) \/ \E v \in GuestData : Store(a, size, v)
    BY <2>1, <2>4, LoadKeeps, StoreKeeps
  <2>5. QED
    BY <2>2, <2>3, <2>4
<1>4. CASE DmaAccess
  BY <1>4, DmaKeeps
<1>5. CASE Watch \/ UNCHANGED memVars
  <2>1. UNCHANGED <<regions, running, data, hint, fault, last>> /\ tracking' \in BOOLEAN
    BY <1>5 DEF Watch, memVars, MemInv, MemTypeOK
  <2>2. \A x, u : Open(x, u)' <=> Open(x, u)
    BY <2>1 DEF Open, Allows
  <2>3. Shut' = Shut
    BY <2>1, <2>2 DEF Shut
  <2>4. FaultExact'
    BY <2>1, <2>3 DEF MemInv, FaultExact
  <2>5. StoreExact'
    BY <2>1, <2>2 DEF MemInv, StoreExact
  <2>6. MemTypeOK'
    BY <2>1 DEF MemInv, MemTypeOK
  <2>7. Laid'
    BY <2>1 DEF MemInv, Laid
  <2>8. QED
    BY <2>1, <2>4, <2>5, <2>6, <2>7 DEF MemInv
<1>6. QED
  BY <1>1, <1>2, <1>3, <1>4, <1>5 DEF MemNext

LEMMA MemInvariant == MemSpec => []MemInv
<1>1. QED
  BY MemInitSound, MemStepSound, PTL DEF MemSpec

\* The variables of the memory unit keep their types.
THEOREM MemTypeCorrect == MemSpec => []MemTypeOK
<1>1. MemInv => MemTypeOK
  BY DEF MemInv
<1>2. QED
  BY <1>1, MemInvariant, PTL

\* Whatever regions a profile asks for and wherever they lie, an access faults
\* exactly when one of its bytes is shut, at the first such byte.
THEOREM MemFaultExact == MemSpec => []FaultExact
<1>1. MemInv => FaultExact
  BY DEF MemInv
<1>2. QED
  BY <1>1, MemInvariant, PTL

\* And a store writes the open bytes it names and nothing else.
THEOREM MemStoreExact == MemSpec => []StoreExact
<1>1. MemInv => StoreExact
  BY DEF MemInv
<1>2. QED
  BY <1>1, MemInvariant, PTL


----------------------------------------------------------------------------
(* CSR file: the table *)

\* No address has two slots.
Tables ==
    {f \in Seq(Entry) : /\ Len(f) <= Slots
                        /\ \A i, j \in DOMAIN f : f[i].addr = f[j].addr => i = j}

\* A map of registers, and the one a table stands for.
Registers == [Stored -> SUBSET Bits]

Regs(f) == [c \in Stored |-> Lookup(f, c)]

\* The slot of an address is the only one.
LEMMA LookupIs ==
    ASSUME NEW f \in Tables, NEW c \in Stored
    PROVE  /\ At(f, c) \subseteq DOMAIN f
           /\ At(f, c) = {} \/ \E i \in DOMAIN f :
                  /\ At(f, c) = {i} /\ f[i].addr = c /\ Search(f, c) = i /\ Lookup(f, c) = f[i].value
           /\ At(f, c) = {} => Lookup(f, c) = {}
<1>1. At(f, c) \subseteq DOMAIN f
  BY DEF At
<1>2. ASSUME NEW i \in At(f, c)
      PROVE  /\ At(f, c) = {i} /\ f[i].addr = c /\ Search(f, c) = i
             /\ Lookup(f, c) = f[i].value
  <2>1. At(f, c) = {i} /\ f[i].addr = c /\ i \in Nat
    BY DEF At, Tables
  <2>2. Search(f, c) = i
    <3>1. \E k \in At(f, c) : \A j \in At(f, c) : k <= j
      BY <2>1
    <3>2. Search(f, c) \in At(f, c)
      BY <3>1 DEF Search
    <3>3. QED
      BY <2>1, <3>2
  <2>3. QED
    BY <2>1, <2>2 DEF Lookup
<1>3. At(f, c) = {} => Lookup(f, c) = {}
  BY DEF Lookup
<1>4. QED
  BY <1>1, <1>2, <1>3

LEMMA RegsType ==
    ASSUME NEW f \in Tables
    PROVE  Regs(f) \in Registers
<1> SUFFICES ASSUME NEW c \in Stored
             PROVE  Lookup(f, c) \in SUBSET Bits
  BY DEF Regs, Registers
<1>1. \A i \in DOMAIN f : f[i].value \in SUBSET Bits
  <2>1. \A i \in DOMAIN f : f[i] \in Entry
    BY DEF Tables
  <2>2. QED
    BY <2>1 DEF Entry
<1>2. QED
  BY <1>1, LookupIs

\* An address without a slot finds one free.
LEMMA RoomLeft ==
    ASSUME Roomy, NEW f \in Tables, NEW c \in Stored, At(f, c) = {}
    PROVE  Len(f) < Slots
<1> DEFINE n == Len(f)
           rest == Stored \ {c}
           g == [i \in 1 .. n |-> f[i].addr]
<1>1. n \in Nat /\ DOMAIN f = 1 .. n /\ \A i \in 1 .. n : f[i] \in Entry
  BY DEF Tables
<1>2. \A i \in 1 .. n : f[i].addr \in rest
  BY <1>1 DEF At, Entry
<1>3. g \in [1 .. n -> rest] /\ \A i, j \in 1 .. n : g[i] = g[j] => i = j
  BY <1>1, <1>2 DEF Tables
<1>4. g \in Injection(1 .. n, rest)
  <2> HIDE DEF g, rest
  <2>1. QED
    BY <1>3 DEF Injection, IsInjective
<1>5. IsFiniteSet(rest) /\ Cardinality(rest) = Cardinality(Stored) - 1
  BY FS_RemoveElement DEF Roomy
<1>6. Cardinality(1 .. n) = n
  <2>1. 1 \in Int /\ n \in Int
    BY <1>1
  <2>2. Cardinality(1 .. n) = IF 1 > n THEN 0 ELSE n - 1 + 1
    <3> HIDE DEF n
    <3>1. QED
      BY <2>1, FS_Interval
  <2>3. QED
    BY <1>1, <2>2
<1>7. Cardinality(1 .. n) <= Cardinality(rest)
  <2> HIDE DEF g, rest, n
  <2>1. QED
    BY <1>4, <1>5, FS_Injection
<1>8. Cardinality(Stored) \in Nat
  BY FS_CardinalityType DEF Roomy
<1>9. n <= Cardinality(Stored) - 1 /\ Cardinality(Stored) <= Slots /\ Slots \in Nat
  BY <1>5, <1>6, <1>7, CsrAssumption DEF Roomy
<1> HIDE DEF n
<1>10. n < Slots
  BY <1>1, <1>8, <1>9
<1>11. QED
  BY <1>10 DEF n

\* A write changes the register it names and no other.
LEMMA PutIs ==
    ASSUME Roomy, NEW f \in Tables, NEW c \in Stored, NEW v \in SUBSET Bits
    PROVE  /\ Put(f, c, v) \in Tables
           /\ Regs(Put(f, c, v)) = [Regs(f) EXCEPT ![c] = v]
<1> DEFINE g == Put(f, c, v)
<1>1. /\ f \in Seq(Entry) /\ Len(f) <= Slots /\ Len(f) \in Nat /\ DOMAIN f = 1 .. Len(f)
      /\ \A i, j \in DOMAIN f : f[i].addr = f[j].addr => i = j
  BY DEF Tables
<1>2. CASE At(f, c) # {}
  <2>1. PICK i \in DOMAIN f : /\ At(f, c) = {i} /\ f[i].addr = c
                              /\ Search(f, c) = i /\ Lookup(f, c) = f[i].value
    BY <1>2, LookupIs
  <2>2. g = [f EXCEPT ![i].value = v]
    BY <1>2, <2>1 DEF Put
  <2>3. f[i] \in Entry
    BY <1>1
  <2> DEFINE e == [addr |-> f[i].addr, value |-> v]
  <2>4. e \in Entry /\ e.addr = f[i].addr /\ e.value = v
    BY <2>3 DEF Entry
  <2>5. g = [f EXCEPT ![i] = e]
    <3>1. [f[i] EXCEPT !.value = v] = e
      BY <2>3 DEF Entry
    <3>2. g = [f EXCEPT ![i] = [f[i] EXCEPT !.value = v]]
      BY <2>2
    <3> HIDE DEF g, e
    <3>3. QED
      BY <3>1, <3>2
  <2> HIDE DEF g, e
  <2>6. g \in Seq(Entry) /\ Len(g) = Len(f) /\ DOMAIN g = DOMAIN f
    <3>1. g \in [1 .. Len(f) -> Entry]
      BY <1>1, <2>4, <2>5
    <3>2. QED
      BY <1>1, <3>1
  <2>7. \A j \in DOMAIN f : /\ g[j].addr = f[j].addr
                            /\ g[j].value = IF j = i THEN v ELSE f[j].value
    BY <1>1, <2>4, <2>5
  <2>8. g \in Tables
    BY <1>1, <2>6, <2>7 DEF Tables
  <2>9. ASSUME NEW k \in Stored
        PROVE  Lookup(g, k) = IF k = c THEN v ELSE Lookup(f, k)
    <3>1. At(g, k) = At(f, k)
      BY <2>6, <2>7 DEF At
    <3>2. At(f, k) = {} => Lookup(g, k) = {} /\ Lookup(f, k) = {} /\ k # c
      BY <2>1, <3>1 DEF Lookup
    <3>3. ASSUME NEW j \in DOMAIN f, At(f, k) = {j}, f[j].addr = k
          PROVE  /\ Lookup(g, k) = g[j].value /\ Lookup(f, k) = f[j].value
                 /\ j = i <=> k = c
      <4>1. Lookup(f, k) = f[j].value
        BY <3>3, LookupIs
      <4>2. Lookup(g, k) = g[j].value
        BY <2>8, <3>1, <3>3, LookupIs
      <4>3. j = i <=> k = c
        BY <1>1, <2>1, <3>3
      <4>4. QED
        BY <4>1, <4>2, <4>3
    <3>4. At(f, k) = {} \/ \E j \in DOMAIN f : At(f, k) = {j} /\ f[j].addr = k
      BY LookupIs
    <3>5. QED
      BY <2>7, <3>2, <3>3, <3>4
  <2>10. Regs(g) = [Regs(f) EXCEPT ![c] = v]
    BY <2>9 DEF Regs
  <2>11. QED
    BY <2>8, <2>10 DEF g
<1>3. CASE At(f, c) = {}
  <2> DEFINE n == Len(f)
             e == [addr |-> c, value |-> v]
  <2>1. n < Slots
    BY <1>3, RoomLeft
  <2>2. g = Append(f, e)
    BY <1>3, <2>1 DEF Put
  <2>3. e \in Entry /\ e.addr = c /\ e.value = v
    BY DEF Entry
  <2> HIDE DEF g, e
  <2>4. /\ g \in Seq(Entry) /\ Len(g) = n + 1 /\ DOMAIN g = 1 .. n + 1
        /\ g[n + 1] = e /\ \A j \in 1 .. n : g[j] = f[j]
    BY <1>1, <2>2, <2>3
  <2>5. \A j \in 1 .. n : f[j].addr # c
    BY <1>1, <1>3 DEF At
  <2>6. g \in Tables
    <3>1. n + 1 <= Slots
      BY <1>1, <2>1, CsrAssumption
    <3>2. \A i, j \in 1 .. n + 1 : g[i].addr = g[j].addr => i = j
      <4> SUFFICES ASSUME NEW i \in 1 .. n + 1, NEW j \in 1 .. n + 1, g[i].addr = g[j].addr
                   PROVE  i = j
        OBVIOUS
      <4>1. \A k \in 1 .. n + 1 : k = n + 1 \/ k \in 1 .. n
        BY <1>1
      <4>2. QED
        BY <1>1, <2>3, <2>4, <2>5, <4>1
    <3>3. QED
      BY <2>4, <3>1, <3>2 DEF Tables
  <2>7. ASSUME NEW k \in Stored
        PROVE  Lookup(g, k) = IF k = c THEN v ELSE Lookup(f, k)
    <3>1. CASE k = c
      <4>1. n + 1 \in At(g, k)
        BY <1>1, <2>3, <2>4, <3>1 DEF At
      <4>2. Lookup(g, k) = g[n + 1].value
        BY <2>6, <4>1, LookupIs
      <4>3. QED
        BY <2>3, <2>4, <3>1, <4>2
    <3>2. CASE k # c
      <4>1. At(g, k) = At(f, k)
        <5>1. \A j \in 1 .. n + 1 : j \in At(g, k) <=> j \in At(f, k)
          <6> SUFFICES ASSUME NEW j \in 1 .. n + 1
                       PROVE  j \in At(g, k) <=> j \in At(f, k)
            OBVIOUS
          <6>1. CASE j = n + 1
            BY <1>1, <2>3, <2>4, <3>2, <6>1 DEF At
          <6>2. CASE j \in 1 .. n
            BY <1>1, <2>4, <6>2 DEF At
          <6>3. QED
            BY <1>1, <6>1, <6>2
        <5>2. At(g, k) \subseteq 1 .. n + 1 /\ At(f, k) \subseteq 1 .. n + 1
          BY <1>1, <2>4 DEF At
        <5>3. QED
          BY <5>1, <5>2
      <4>2. CASE At(f, k) = {}
        BY <3>2, <4>1, <4>2 DEF Lookup
      <4>3. CASE At(f, k) # {}
        <5>1. PICK j \in DOMAIN f : At(f, k) = {j} /\ Lookup(f, k) = f[j].value
          BY <4>3, LookupIs
        <5>2. Lookup(g, k) = g[j].value
          BY <2>6, <4>1, <5>1, LookupIs
        <5>3. QED
          BY <1>1, <2>4, <3>2, <5>1, <5>2
      <4>4. QED
        BY <4>2, <4>3
    <3>3. QED
      BY <3>1, <3>2
  <2>8. Regs(g) = [Regs(f) EXCEPT ![c] = v]
    BY <2>7 DEF Regs
  <2>9. QED
    BY <2>6, <2>8 DEF g
<1>4. QED
  BY <1>2, <1>3


----------------------------------------------------------------------------
(* CSR file: implements CsrMap *)

LEMMA ReadIs ==
    ASSUME NEW f \in Tables, NEW csr \in Stored \cup Stubs \cup Windows
    PROVE  /\ Read(f, csr) = IF csr \in Stubs THEN {}
                             ELSE IF csr \in Windows
                             THEN Regs(f)[Map!Behind[csr]] \cap WindowBits[csr]
                             ELSE Regs(f)[csr]
           /\ Read(f, csr) \in SUBSET Bits
<1>1. csr \in Windows => Behind[csr] \in Stored /\ Map!Behind[csr] = Behind[csr]
  BY CsrAssumption DEF Windows, Behind, Map!Behind
<1>2. Regs(f) \in Registers
  BY RegsType
<1>3. \A c \in Stored : Regs(f)[c] = Lookup(f, c) /\ Lookup(f, c) \in SUBSET Bits
  BY <1>2 DEF Regs, Registers
<1>4. QED
  BY <1>1, <1>3 DEF Read

\* What goes through a view changes the bits the view may change.
LEMMA WriteIs ==
    ASSUME Roomy, NEW f \in Tables, NEW csr \in Stored \cup Stubs \cup Windows,
           NEW v \in SUBSET Bits
    PROVE  /\ Write(f, csr, v) \in Tables
           /\ Regs(Write(f, csr, v)) =
                IF csr \in Stubs THEN Regs(f)
                ELSE IF csr \in Windows
                THEN [Regs(f) EXCEPT ![Map!Behind[csr]] =
                        {b \in Bits : IF b \in WindowWrite[csr] THEN b \in v ELSE b \in @}]
                ELSE [Regs(f) EXCEPT ![csr] = v]
<1> DEFINE g == Write(f, csr, v)
<1>1. CASE csr \in Stubs
  BY <1>1 DEF Write
<1>2. CASE csr \in Windows /\ csr \notin Stubs
  <2> DEFINE c == Behind[csr]
             old == Lookup(f, c)
             new == {b \in Bits : IF b \in WindowWrite[csr] THEN b \in v ELSE b \in Regs(f)[c]}
  <2>1. c \in Stored /\ Map!Behind[csr] = c /\ WindowWrite[csr] \in SUBSET Bits
    BY <1>2, CsrAssumption DEF Windows, Behind, Map!Behind
  <2>2. Regs(f)[c] = old /\ old \in SUBSET Bits
    BY <2>1, RegsType DEF Regs, Registers
  <2>3. Merged(f, csr, v) = new
    BY <2>1, <2>2 DEF Merged
  <2>4. new \in SUBSET Bits
    OBVIOUS
  <2>5. g = Put(f, c, new)
    BY <1>2, <2>3 DEF Write
  <2> HIDE DEF g, c, new
  <2>6. g \in Tables /\ Regs(g) = [Regs(f) EXCEPT ![c] = new]
    BY <2>1, <2>4, <2>5, PutIs
  <2>7. QED
    BY <1>2, <2>1, <2>6 DEF g, new
<1>3. CASE csr \notin Stubs /\ csr \notin Windows
  <2>1. g = Put(f, csr, v) /\ csr \in Stored
    BY <1>3 DEF Write
  <2> HIDE DEF g
  <2>2. g \in Tables /\ Regs(g) = [Regs(f) EXCEPT ![csr] = v]
    BY <2>1, PutIs
  <2>3. QED
    BY <1>3, <2>2 DEF g
<1>4. QED
  BY <1>1, <1>2, <1>3

\* Whatever order a trap writes its registers in, it leaves one value in each
\* and the others alone.
LEMMA TrappedIs ==
    ASSUME Roomy, NEW f \in Tables, NEW w \in TrapWrites, NEW v \in [DOMAIN w -> TrapValues]
    PROVE  /\ Trapped(f, w, v) \in Tables
           /\ \E saved \in [ToSet(w) -> TrapValues] :
                 Regs(Trapped(f, w, v))
                   = [c \in Stored |-> IF c \in ToSet(w) THEN saved[c] ELSE Regs(f)[c]]
<1> DEFINE n == Len(w)
           Loop(h) == h = [k \in 0 .. n |-> IF k = 0 THEN f ELSE Put(h[k - 1], w[k], v[k])]
           after == CHOOSE h : Loop(h)
           Next1(k, t) == Put(t, w[k], v[k])
           g == [k \in 1 .. n |-> [t \in Tables |-> Next1(k, t)]]
<1>1. /\ w \in Seq(Stored) /\ n \in Nat /\ DOMAIN w = 1 .. n
      /\ TrapValues \subseteq SUBSET Bits
  BY CsrAssumption
<1>2. \A k \in 1 .. n : w[k] \in Stored /\ v[k] \in SUBSET Bits /\ v[k] \in TrapValues
  BY <1>1
<1>3. \A k \in 1 .. n : \A t \in Tables :
         Next1(k, t) \in Tables /\ Regs(Next1(k, t)) = [Regs(t) EXCEPT ![w[k]] = v[k]]
  BY <1>2, PutIs
<1>4. \E h \in [0 .. n -> Tables] : Iterates(h, n, f, g)
  <2>1. g \in Steps(n, Tables)
    <3> HIDE DEF Next1, n
    <3>1. QED
      BY <1>3 DEF Steps
  <2> HIDE DEF g, n
  <2>2. QED
    BY <1>1, <2>1, Recursion
<1>5. \E h : Loop(h)
  <2>1. PICK h \in [0 .. n -> Tables] : Iterates(h, n, f, g)
    BY <1>4
  <2>2. \A k \in 1 .. n : k - 1 \in 0 .. n /\ h[k - 1] \in Tables
    BY <1>1
  <2>3. h[0] = f /\ \A k \in 1 .. n : h[k] = Next1(k, h[k - 1])
    <3> HIDE DEF Next1, n
    <3>1. QED
      BY <2>1, <2>2 DEF Iterates
  <2>4. \A k \in 0 .. n : k = 0 \/ k \in 1 .. n
    OBVIOUS
  <2>5. h = [k \in 0 .. n |-> IF k = 0 THEN f ELSE Next1(k, h[k - 1])]
    <3> HIDE DEF Next1, n
    <3>1. QED
      BY <2>3, <2>4
  <2>6. Loop(h)
    BY <2>5
  <2>7. QED
    <3> HIDE DEF Loop
    <3>1. QED
      BY <2>6
<1>6. Loop(after)
  <2> HIDE DEF Loop
  <2>1. QED
    BY <1>5
<1>7. Trapped(f, w, v) = after[n]
  BY DEF Trapped
<1>8. \A k \in 0 .. n : after[k] = IF k = 0 THEN f ELSE Next1(k, after[k - 1])
  <2> HIDE DEF after, n
  <2>1. QED
    BY <1>6
<1> HIDE DEF after, Next1, n
<1> DEFINE written(k) == {w[j] : j \in 1 .. k}
           Good(k, t) == /\ t \in Tables
                         /\ \A c \in Stored : IF c \in written(k) THEN Regs(t)[c] \in TrapValues
                                              ELSE Regs(t)[c] = Regs(f)[c]
           A == {k \in 0 .. n : Good(k, after[k])}
<1>9. 0 \in A
  <2>1. after[0] = f /\ 0 \in 0 .. n
    BY <1>1, <1>8
  <2>2. QED
    BY <2>1
<1>10. \A k \in 1 .. n : k - 1 \in A => k \in A
  <2> SUFFICES ASSUME NEW k \in 1 .. n, k - 1 \in A
               PROVE  k \in A
    OBVIOUS
  <2> DEFINE t == after[k - 1]
             u == after[k]
  <2>1. k \in 0 .. n /\ k # 0 /\ k \in Nat
    BY <1>1
  <2>2. Good(k - 1, t)
    OBVIOUS
  <2>3. u = Next1(k, t)
    BY <1>8, <2>1
  <2> HIDE DEF t, u
  <2>4. u \in Tables /\ Regs(u) = [Regs(t) EXCEPT ![w[k]] = v[k]]
    BY <1>3, <2>2, <2>3
  <2>5. written(k) = written(k - 1) \cup {w[k]}
    <3>1. 1 .. k = (1 .. k - 1) \cup {k}
      BY <2>1
    <3>2. QED
      BY <3>1
  <2>6. ASSUME NEW c \in Stored
        PROVE  IF c \in written(k) THEN Regs(u)[c] \in TrapValues ELSE Regs(u)[c] = Regs(f)[c]
    <3>1. Regs(u)[c] = IF c = w[k] THEN v[k] ELSE Regs(t)[c]
      BY <2>4 DEF Regs
    <3>2. IF c \in written(k - 1) THEN Regs(t)[c] \in TrapValues ELSE Regs(t)[c] = Regs(f)[c]
      BY <2>2
    <3> HIDE DEF written
    <3>3. QED
      BY <1>2, <2>5, <3>1, <3>2
  <2> HIDE DEF written
  <2>7. Good(k, u)
    BY <2>4, <2>6
  <2>8. QED
    BY <2>1, <2>7 DEF u
<1>11. Good(n, after[n])
  <2> HIDE DEF A
  <2>1. \A k \in 0 .. n : k \in A
    BY <1>1, <1>9, <1>10, UpTo
  <2>2. n \in A
    BY <1>1, <2>1
  <2>3. QED
    BY <2>2 DEF A
<1>12. written(n) = ToSet(w)
  BY <1>1 DEF ToSet
<1> DEFINE t == after[n]
           F == ToSet(w)
           saved == [c \in F |-> Regs(t)[c]]
<1>13. F \subseteq Stored
  BY <1>1 DEF ToSet
<1>14. \A c \in Stored : IF c \in F THEN Regs(t)[c] \in TrapValues ELSE Regs(t)[c] = Regs(f)[c]
  <2> HIDE DEF written
  <2>1. QED
    BY <1>11, <1>12
<1>15. t \in Tables
  BY <1>11
<1> HIDE DEF written, F, t
<1>16. saved \in [F -> TrapValues]
  BY <1>13, <1>14
<1>17. Regs(t) = [c \in Stored |-> IF c \in F THEN saved[c] ELSE Regs(f)[c]]
  <2>1. \A c \in Stored : Regs(t)[c] = IF c \in F THEN saved[c] ELSE Regs(f)[c]
    BY <1>14
  <2> HIDE DEF saved
  <2>2. QED
    BY <2>1 DEF Regs
<1> HIDE DEF saved
<1>18. QED
  BY <1>7, <1>15, <1>16, <1>17 DEF t, F


CsrInv == file \in Tables /\ rd \in SUBSET Bits

LEMMA CsrInitSound ==
    ASSUME Init
    PROVE  CsrInv /\ Map!Init
<1> DEFINE n == Len(Preset)
<1>1. n \in Nat /\ n <= Slots /\ DOMAIN Preset = 1 .. n /\ ToSet(Preset) \subseteq Stored
      /\ \A i, j \in 1 .. n : Preset[i] = Preset[j] => i = j
  BY CsrAssumption
<1>2. \A i \in 1 .. n : Preset[i] \in Stored /\ Reset[Preset[i]] \in SUBSET Bits
  BY <1>1, CsrAssumption DEF ToSet
<1>3. DOMAIN file = 1 .. n /\ \A i \in 1 .. n :
         file[i].addr = Preset[i] /\ file[i].value = Reset[Preset[i]] /\ file[i] \in Entry
  BY <1>1, <1>2 DEF Init, Entry
<1>4. file \in Seq(Entry) /\ Len(file) = n
  <2>1. file \in [1 .. n -> Entry]
    BY <1>1, <1>2 DEF Init, Entry
  <2>2. QED
    BY <1>1, <2>1
<1>5. file \in Tables
  <2> HIDE DEF n
  <2>1. QED
    BY <1>1, <1>3, <1>4 DEF Tables
<1>6. ASSUME NEW c \in Stored
      PROVE  Lookup(file, c) = Reset[c]
  <2>1. CASE At(file, c) = {}
    <3>1. c \notin ToSet(Preset)
      BY <1>1, <1>3, <2>1 DEF At, ToSet
    <3>2. Reset[c] = {}
      BY <3>1, CsrAssumption
    <3>3. QED
      BY <2>1, <3>2 DEF Lookup
  <2>2. CASE At(file, c) # {}
    <3>1. PICK i \in DOMAIN file : file[i].addr = c /\ Lookup(file, c) = file[i].value
      BY <1>5, <2>2, LookupIs
    <3>2. QED
      BY <1>3, <3>1
  <2>3. QED
    BY <2>1, <2>2
<1>7. [c \in Stored |-> Lookup(file, c)] = Reset
  BY <1>6, CsrAssumption
<1>8. QED
  BY <1>5, <1>7 DEF Init, CsrInv, Map!Init

LEMMA RecordImplements ==
    ASSUME Roomy, CsrInv, Record
    PROVE  file' \in Tables /\ Map!Record
<1>1. PICK w \in TrapWrites : \E v \in [DOMAIN w -> TrapValues] : file' = Trapped(file, w, v)
  BY DEF Record
<1>2. PICK v \in [DOMAIN w -> TrapValues] : file' = Trapped(file, w, v)
  BY <1>1
<1> DEFINE f == file
           g == Trapped(f, w, v)
<1>3. f \in Tables
  BY DEF CsrInv
<1> HIDE DEF f
<1>4. /\ g \in Tables
      /\ \E saved \in [ToSet(w) -> TrapValues] :
            Regs(g) = [c \in Stored |-> IF c \in ToSet(w) THEN saved[c] ELSE Regs(f)[c]]
  BY <1>3, TrappedIs
<1> HIDE DEF g
<1>5. file' = g
  BY <1>2 DEF f, g
<1>6. \E F \in {ToSet(u) : u \in TrapWrites} : \E saved \in [F -> TrapValues] :
         Regs(g) = [c \in Stored |-> IF c \in F THEN saved[c] ELSE Regs(f)[c]]
  BY <1>4
<1>7. Regs(f) = [c \in Stored |-> Lookup(file, c)]
      /\ Regs(g) = [c \in Stored |-> Lookup(file', c)]
  BY <1>5 DEF Regs, f
<1>8. \E F \in {ToSet(u) : u \in TrapWrites} : \E saved \in [F -> TrapValues] :
         [c \in Stored |-> Lookup(file', c)]
           = [c \in Stored |-> IF c \in F THEN saved[c]
                               ELSE [d \in Stored |-> Lookup(file, d)][c]]
  BY <1>6, <1>7
<1>9. QED
  BY <1>4, <1>5, <1>8 DEF Map!Record

LEMMA New_ValType ==
    ASSUME NEW op \in Ops \ {"read"}, NEW old \in SUBSET Bits, NEW v \in SUBSET Bits
    PROVE  New_Val(op, old, v) \in SUBSET Bits /\ Map!Result(op, old, v) = New_Val(op, old, v)
<1>1. op = "rw" \/ op = "rs" \/ op = "rc"
  BY DEF Ops
<1>2. CASE op = "rw"
  BY <1>2 DEF New_Val, Map!Result
<1>3. CASE op = "rs"
  BY <1>3 DEF New_Val, Map!Result
<1>4. CASE op = "rc"
  BY <1>4 DEF New_Val, Map!Result
<1>5. QED
  BY <1>1, <1>2, <1>3, <1>4

\* What a CSR instruction reads is what the map shows.
LEMMA ReadShows ==
    ASSUME CsrInv, NEW csr \in Stored \cup Stubs \cup Windows
    PROVE  Read(file, csr) = Map!Shown(csr) /\ Read(file, csr) \in SUBSET Bits
<1>1. file \in Tables
  BY DEF CsrInv
<1>2. Map!Windows = Windows
  BY DEF Windows, Map!Windows
<1>3. QED
  BY <1>1, <1>2, ReadIs DEF Map!Shown, Regs

LEMMA WriteImplements ==
    ASSUME Roomy, CsrInv, NEW csr \in Stored \cup Stubs \cup Windows, NEW op \in Ops,
           NEW v \in Values, WriteInsn(csr, op, v)
    PROVE  CsrInv' /\ Map!Write(csr, op, v)
<1>1. file \in Tables /\ op # "read" /\ rd' = Read(file, csr) /\ v \in SUBSET Bits
  BY CsrAssumption DEF CsrInv, WriteInsn
<1>2. Read(file, csr) = Map!Shown(csr) /\ Read(file, csr) \in SUBSET Bits
  BY ReadShows
<1> DEFINE old == Read(file, csr)
           new == New_Val(op, old, v)
<1>3. new \in SUBSET Bits /\ Map!Result(op, Map!Shown(csr), v) = new
  <2>1. op \in Ops \ {"read"}
    BY <1>1
  <2> HIDE DEF old
  <2>2. New_Val(op, old, v) \in SUBSET Bits /\ Map!Result(op, old, v) = New_Val(op, old, v)
    BY <1>1, <1>2, <2>1, New_ValType DEF old
  <2>3. QED
    BY <1>2, <2>2 DEF old
<1>4. Map!Access(csr)
  BY <1>1, <1>2 DEF Map!Access
<1>5. rd' \in SUBSET Bits
  BY <1>1, <1>2
<1>6. CASE csr \in ReadOnly /\ Record
  <2>1. file' \in Tables /\ Map!Record
    BY <1>6, RecordImplements
  <2>2. QED
    BY <1>1, <1>4, <1>5, <1>6, <2>1 DEF CsrInv, Map!Write
<1>7. CASE csr \notin ReadOnly /\ file' = Write(file, csr, new)
  <2> DEFINE f == file
             g == Write(f, csr, new)
  <2>1. f \in Tables
    BY <1>1
  <2> HIDE DEF f, new
  <2>2. /\ g \in Tables
        /\ Regs(g) =
             IF csr \in Stubs THEN Regs(f)
             ELSE IF csr \in Windows
             THEN [Regs(f) EXCEPT ![Map!Behind[csr]] =
                     {b \in Bits : IF b \in WindowWrite[csr] THEN b \in new ELSE b \in @}]
             ELSE [Regs(f) EXCEPT ![csr] = new]
    BY <1>3, <2>1, WriteIs
  <2> HIDE DEF g
  <2>3. file' = g
    BY <1>7 DEF f, g
  <2>4. Regs(f) = [c \in Stored |-> Lookup(file, c)]
        /\ Regs(g) = [c \in Stored |-> Lookup(file', c)]
    BY <2>3 DEF Regs, f
  <2>5. Map!Windows = Windows
    BY DEF Windows, Map!Windows
  <2>6. CASE csr \in Stubs
    <3>1. Regs(g) = Regs(f)
      BY <2>2, <2>6
    <3>2. QED
      BY <1>1, <1>3, <1>4, <1>5, <2>2, <2>3, <2>4, <2>6, <3>1 DEF CsrInv, Map!Write
  <2>7. CASE csr \in Windows /\ csr \notin Stubs
    <3>1. Regs(g) = [Regs(f) EXCEPT ![Map!Behind[csr]] =
                       {b \in Bits : IF b \in WindowWrite[csr] THEN b \in new ELSE b \in @}]
      BY <2>2, <2>7
    <3>2. Map!Through(csr, new)
      BY <2>4, <3>1 DEF Map!Through
    <3>3. QED
      BY <1>1, <1>3, <1>4, <1>5, <2>2, <2>3, <2>5, <2>7, <3>2 DEF CsrInv, Map!Write
  <2>8. CASE csr \notin Windows /\ csr \notin Stubs
    <3>1. Regs(g) = [Regs(f) EXCEPT ![csr] = new]
      BY <2>2, <2>8
    <3>2. csr \in Stored \ ReadOnly
      BY <1>7, <2>8
    <3>3. QED
      BY <1>1, <1>3, <1>4, <1>5, <2>2, <2>3, <2>4, <3>1, <3>2 DEF CsrInv, Map!Write
  <2>9. QED
    BY <2>6, <2>7, <2>8
<1>8. QED
  BY <1>6, <1>7 DEF WriteInsn

LEMMA SampleImplements ==
    ASSUME Roomy, CsrInv, Sample
    PROVE  CsrInv' /\ Map!Sample
<1>1. PICK on \in SUBSET LineBits :
         file' = Write(file, "mip", (Read(file, "mip") \ LineBits) \cup on)
  BY DEF Sample
<1>2. UNCHANGED rd /\ file \in Tables /\ rd \in SUBSET Bits
  BY DEF Sample, CsrInv
<1> DEFINE c == "mip"
           f == file
           old == Read(f, c)
           new == (old \ LineBits) \cup on
           g == Write(f, c, new)
<1>3. c \in Stored /\ c \notin Stubs /\ c \notin Windows /\ LineBits \in SUBSET Bits
      /\ c \in Stored \cup Stubs \cup Windows
  BY CsrAssumption
<1>4. old = Regs(f)[c] /\ old \in SUBSET Bits
  <2>1. f \in Tables
    BY <1>2
  <2> HIDE DEF f, c
  <2>2. QED
    BY <1>3, <2>1, ReadIs
<1>5. new \in SUBSET Bits
  BY <1>3, <1>4
<1>6. g \in Tables /\ Regs(g) = [Regs(f) EXCEPT ![c] = new]
  <2>1. f \in Tables
    BY <1>2
  <2> HIDE DEF f, c, new
  <2>2. QED
    BY <1>3, <1>5, <2>1, WriteIs
<1>7. new = {b \in Bits : IF b \in LineBits THEN b \in on ELSE b \in Regs(f)[c]}
  BY <1>3, <1>4
<1>8. file' = g
  BY <1>1
<1> HIDE DEF g, new
<1>9. Regs(f) = [d \in Stored |-> Lookup(file, d)]
      /\ Regs(g) = [d \in Stored |-> Lookup(file', d)]
  BY <1>8 DEF Regs
<1>10. Regs(g) = [Regs(f) EXCEPT ![c] =
                    {b \in Bits : IF b \in LineBits THEN b \in on ELSE b \in @}]
  BY <1>6, <1>7
<1>11. Map!Sample
  BY <1>2, <1>9, <1>10 DEF Map!Sample
<1>12. QED
  BY <1>2, <1>6, <1>8, <1>11 DEF CsrInv

\* Every step of the file is one of the map, or leaves it alone.
LEMMA CsrStepImplements ==
    ASSUME Roomy, CsrInv, [Next]_vars
    PROVE  CsrInv' /\ [Map!Next]_(Map!vars)
<1>1. CASE Instruction
  <2>1. PICK csr \in Stored \cup Stubs \cup Windows :
           ReadInsn(csr) \/ \E op \in Ops, v \in Values : WriteInsn(csr, op, v)
    BY <1>1 DEF Instruction
  <2>2. Map!Windows = Windows /\ Map!Ops = Ops
    BY DEF Windows, Map!Windows, Ops, Map!Ops
  <2>3. CASE ReadInsn(csr)
    <3>1. Read(file, csr) = Map!Shown(csr) /\ Read(file, csr) \in SUBSET Bits
      BY ReadShows
    <3>2. Map!Look(csr)
      BY <2>3, <3>1 DEF ReadInsn, Map!Look, Map!Access
    <3>3. Map!Next
      BY <2>2, <3>2 DEF Map!Next
    <3>4. QED
      BY <2>3, <3>1, <3>3 DEF ReadInsn, CsrInv
  <2>4. CASE \E op \in Ops, v \in Values : WriteInsn(csr, op, v)
    <3>1. PICK op \in Ops, v \in Values : WriteInsn(csr, op, v)
      BY <2>4
    <3>2. CsrInv' /\ Map!Write(csr, op, v)
      BY <3>1, WriteImplements
    <3>3. Map!Next
      BY <2>2, <3>2 DEF Map!Next
    <3>4. QED
      BY <3>2, <3>3
  <2>5. QED
    BY <2>1, <2>3, <2>4
<1>2. CASE Trap
  <2>1. Record /\ UNCHANGED rd
    BY <1>2 DEF Trap
  <2>2. file' \in Tables /\ Map!Record
    BY <2>1, RecordImplements
  <2>3. Map!Next
    BY <2>1, <2>2 DEF Map!Trap, Map!Next
  <2>4. QED
    BY <2>1, <2>2, <2>3 DEF CsrInv
<1>3. CASE Sample
  <2>1. CsrInv' /\ Map!Sample
    BY <1>3, SampleImplements
  <2>2. QED
    BY <2>1 DEF Map!Next
<1>4. CASE UNCHANGED vars
  <2>1. file' = file /\ rd' = rd
    BY <1>4 DEF vars
  <2>2. QED
    BY <2>1 DEF CsrInv, Map!vars
<1>5. QED
  BY <1>1, <1>2, <1>3, <1>4 DEF Next

LEMMA CsrInvariant == ASSUME Roomy PROVE Spec => []CsrInv
<1>1. Init => CsrInv
  BY CsrInitSound
<1>2. CsrInv /\ [Next]_vars => CsrInv'
  BY CsrStepImplements
<1>3. QED
  BY <1>1, <1>2, PTL DEF Spec

\* For every set of addresses the file has room for, and whatever order a trap
\* writes in: the file is a map of independent registers with windows on three
\* of them, and loses no write.
THEOREM CsrFileIsMap == ASSUME Roomy PROVE Spec => MapSpec
<1>1. Init => Map!Init
  BY CsrInitSound
<1>2. CsrInv /\ [Next]_vars => [Map!Next]_(Map!vars)
  BY CsrStepImplements
<1>3. QED
  BY <1>1, <1>2, CsrInvariant, PTL DEF Spec, MapSpec, Map!Spec
=============================================================================
