----------------------------- MODULE FatProofs ------------------------------
(***************************************************************************)
(* What the FAT12 library promises its caller, for disks, directories,     *)
(* sectors and files of any size and writes and reads of any length.       *)
(*                                                                         *)
(* A chain is what the links lead through, to an end mark (IsChain), and   *)
(* the recursive Chain is the only one there is (ChainIs).  What is kept   *)
(* (FatInv): the chains of the files, closed or being written, are         *)
(* disjoint and cover every cluster that is not free, but for the lost     *)
(* ones (Held); no two files start at one cluster (HeadsDiffer); the FAT   *)
(* on flash lags the cached one only in files being written (CopiesAgree); *)
(* and a writer stands in the last cluster of its chain (AtTheEnd).  The   *)
(* rounds of one write are followed by Follows, those of one read by       *)
(* TakenAs.                                                                *)
(*                                                                         *)
(* The data (DataInv): a file's units lie in the sectors of its chain, one *)
(* after the other (Stands), and a reader has got the first of them and    *)
(* stands in the sector with the next (ReaderAt).  fat12_write keeps this  *)
(* only if no call goes on where one ended on a sector boundary: that is   *)
(* the hypothesis NoSplits, and the run MCFat12Append shows what happens   *)
(* without it.                                                             *)
(***************************************************************************)
EXTENDS Fat12, Facts

----------------------------------------------------------------------------
(* FAT12: chains *)

\* s is the chain that links lead through from c on, to an end mark.
IsChain(links, c, s) ==
    /\ s \in Seq(Clusters)
    /\ c \notin Clusters <=> s = <<>>
    /\ s # <<>> => s[1] = c /\ links[s[Len(s)]] = EOC
    /\ \A i \in 1 .. Len(s) - 1 : links[s[i]] = s[i + 1]
    /\ \A i, j \in 1 .. Len(s) : s[i] = s[j] => i = j

Fats == [Clusters -> Links]

\* The clusters of the file that starts at a.
Body(links, a) == ToSet(Chain(links, a))

\* The files that start at heads share no cluster, and each cluster that is not
\* free is in one of them, or is lost.
Held(links, heads, lost) ==
    /\ links \in Fats /\ heads \subseteq Clusters /\ lost \subseteq Clusters
    /\ \A a \in heads : IsChain(links, a, Chain(links, a)) /\ Body(links, a) \cap lost = {}
    /\ \A a, b \in heads : a # b => Body(links, a) \cap Body(links, b) = {}
    /\ \A c \in Clusters :
          links[c] # FREE <=> c \in lost \/ \E a \in heads : c \in Body(links, a)

LEMMA ClustersCount == Cardinality(Clusters) = NumClusters /\ IsFiniteSet(Clusters)
<1>1. 2 \in Int /\ NumClusters + 1 \in Int /\ ~(2 > NumClusters + 1)
  BY Fat12Assumption
<1>2. QED
  BY <1>1, FS_Interval, Fat12Assumption DEF Clusters

\* A chain visits no cluster twice, so it is no longer than the disk.
LEMMA ChainLength ==
    ASSUME NEW links, NEW c, NEW s, IsChain(links, c, s)
    PROVE  Len(s) \in 0 .. NumClusters
<1>1. Len(s) \in Nat /\ s \in [1 .. Len(s) -> Clusters]
  BY DEF IsChain
<1>2. s \in Injection(1 .. Len(s), Clusters)
  BY <1>1 DEF IsChain, Injection, IsInjective
<1>3. Cardinality(1 .. Len(s)) <= NumClusters
  BY <1>2, ClustersCount, FS_Injection
<1>4. Cardinality(1 .. Len(s)) = Len(s)
  BY <1>1, FS_Interval
<1>5. QED
  BY <1>1, <1>3, <1>4, Fat12Assumption

\* Following the links gives the chain.
LEMMA ChainIs ==
    ASSUME NEW links \in [Clusters -> Links], NEW c, NEW s, IsChain(links, c, s)
    PROVE  Chain(links, c) = s
<1> DEFINE N == NumClusters
           next(e, k) == IF k = 1 THEN c ELSE links[e[k - 1]]
           grow(e, k) == IF Len(e) = k - 1 /\ next(e, k) \in Clusters
                         THEN Append(e, next(e, k)) ELSE e
           Rule(f, k) == IF k = 0 THEN <<>> ELSE grow(f[k - 1], k)
           Loop(f) == f = [k \in 0 .. N |-> Rule(f, k)]
           chain == CHOOSE f : Loop(f)
           P == Seq(Clusters)
           g == [k \in 1 .. N |-> [e \in P |-> grow(e, k)]]
<1>1. N \in Nat /\ <<>> \in P
  BY Fat12Assumption
<1>2. \A k \in 1 .. N : \A e \in P : grow(e, k) \in P
  OBVIOUS
<1>3. g \in Steps(N, P)
  <2> HIDE DEF grow, P
  <2>1. QED
    BY <1>2 DEF Steps
<1>4. PICK f \in [0 .. N -> P] : Iterates(f, N, <<>>, g)
  <2> HIDE DEF g, P, N
  <2>1. QED
    BY <1>1, <1>3, Recursion
<1>5. f[0] = <<>> /\ \A k \in 1 .. N : f[k] = grow(f[k - 1], k)
  <2>1. \A k \in 1 .. N : k - 1 \in 0 .. N
    BY <1>1
  <2> HIDE DEF grow, P
  <2>2. QED
    BY <1>4, <2>1 DEF Iterates
<1>6. Loop(f)
  <2>1. \A k \in 0 .. N : k = 0 \/ k \in 1 .. N
    BY <1>1
  <2> HIDE DEF grow, P
  <2>2. QED
    BY <1>5, <2>1
<1>7. Loop(chain)
  <2> HIDE DEF Loop
  <2>1. QED
    BY <1>6
<1>8. Chain(links, c) = chain[N]
  BY ClustersCount DEF Chain
<1> HIDE DEF chain
<1>9. chain[0] = <<>> /\ \A k \in 1 .. N : chain[k] = grow(chain[k - 1], k)
  <2>1. \A k \in 0 .. N : chain[k] = Rule(chain, k)
    <3> HIDE DEF Rule
    <3>1. QED
      BY <1>7
  <2> HIDE DEF grow
  <2>2. QED
    BY <1>1, <2>1
<1> DEFINE L == Len(s)
           upto(k) == IF k <= L THEN k ELSE L
           prefix(k) == [i \in 1 .. upto(k) |-> s[i]]
           A == {k \in 0 .. N : chain[k] = prefix(k)}
<1>10. L \in 0 .. N /\ s \in [1 .. L -> Clusters] /\ s \in Seq(Clusters)
  <2>1. s \in Seq(Clusters) /\ L \in 0 .. N
    BY ChainLength DEF IsChain
  <2>2. QED
    BY <2>1
<1>11. 0 \in A
  BY <1>1, <1>9, <1>10
<1>12. ASSUME NEW k \in 1 .. N, k - 1 \in A
       PROVE  k \in A
  <2> DEFINE e == chain[k - 1]
  <2>1. e = prefix(k - 1) /\ chain[k] = grow(e, k)
    BY <1>9, <1>12
  <2> HIDE DEF L
  <2>2. e \in Seq(Clusters) /\ Len(e) = upto(k - 1)
    <3> DEFINE u == upto(k - 1)
    <3>1. u \in 0 .. L /\ e = [i \in 1 .. u |-> s[i]]
      BY <1>10, <2>1
    <3> HIDE DEF u, e
    <3>2. e \in [1 .. u -> Clusters]
      BY <1>10, <3>1
    <3>3. u \in Nat
      BY <1>10, <3>1
    <3>4. e \in Seq(Clusters) /\ Len(e) = u
      BY <3>2, <3>3
    <3>5. QED
      BY <3>4 DEF u
  <2> SUFFICES chain[k] = prefix(k)
    BY <1>1
  <2> HIDE DEF e
  <2>3. CASE k - 1 > L
    <3>1. Len(e) # k - 1
      BY <1>10, <2>2, <2>3
    <3>2. prefix(k) = prefix(k - 1)
      BY <1>10, <2>3
    <3> HIDE DEF next, prefix
    <3>3. QED
      BY <2>1, <3>1, <3>2
  <2>4. CASE k - 1 = L
    <3>1. next(e, k) \notin Clusters
      <4>1. CASE k = 1
        BY <2>4, <4>1, <1>10 DEF IsChain, L
      <4>2. CASE k # 1
        <5>1. k - 1 \in 1 .. L /\ e[k - 1] = s[L] /\ s # <<>>
          BY <1>10, <2>1, <2>4, <4>2 DEF L
        <5>2. links[s[L]] = EOC
          BY <5>1 DEF IsChain, L
        <5>3. QED
          BY <4>2, <5>1, <5>2 DEF Clusters, EOC
      <4>3. QED
        BY <4>1, <4>2
    <3>2. prefix(k) = prefix(k - 1)
      BY <1>10, <2>4
    <3> HIDE DEF next, prefix
    <3>3. QED
      BY <2>1, <3>1, <3>2
  <2>5. CASE k - 1 < L
    <3>1. k \in 1 .. L /\ s[k] \in Clusters
      BY <1>10, <2>5
    <3>2. next(e, k) = s[k]
      <4>1. CASE k = 1
        BY <3>1, <4>1, <1>10 DEF IsChain, L
      <4>2. CASE k # 1
        <5>1. k - 1 \in 1 .. L - 1 /\ e[k - 1] = s[k - 1]
          BY <1>10, <2>1, <3>1, <4>2
        <5>2. links[s[k - 1]] = s[k - 1 + 1] /\ k - 1 + 1 = k
          BY <5>1 DEF IsChain, L
        <5>3. QED
          BY <4>2, <5>1, <5>2
      <4>3. QED
        BY <4>1, <4>2
    <3>3. Len(e) = k - 1
      BY <1>10, <2>2, <2>5
    <3> HIDE DEF next
    <3>4. chain[k] = Append(e, s[k])
      BY <2>1, <3>1, <3>2, <3>3
    <3>5. Append(e, s[k]) = prefix(k)
      <4>1. e = [i \in 1 .. k - 1 |-> s[i]]
        BY <1>10, <2>1, <3>1
      <4>2. Append(e, s[k]) = [i \in 1 .. k |-> IF i = k THEN s[k] ELSE e[i]]
        BY <2>2, <3>1, <3>3
      <4>3. QED
        BY <1>10, <3>1, <4>1, <4>2
    <3>6. QED
      BY <3>4, <3>5
  <2>6. QED
    BY <1>10, <2>3, <2>4, <2>5
<1>13. \A k \in 0 .. N : k \in A
  <2> HIDE DEF A
  <2>1. QED
    BY <1>1, <1>11, <1>12, UpTo
<1>14. chain[N] = prefix(N)
  BY <1>1, <1>13
<1>15. prefix(N) = s
  BY <1>1, <1>10
<1>16. QED
  BY <1>8, <1>14, <1>15

LEMMA ChainEmpty ==
    ASSUME NEW links \in [Clusters -> Links], NEW c, c \notin Clusters
    PROVE  Chain(links, c) = <<>> /\ Body(links, c) = {}
<1>1. IsChain(links, c, <<>>)
  BY DEF IsChain
<1>2. Chain(links, c) = <<>>
  BY <1>1, ChainIs
<1>3. QED
  BY <1>2 DEF Body, ToSet

\* A chain is what its own clusters' links make it.
LEMMA ChainFrame ==
    ASSUME NEW links \in [Clusters -> Links], NEW new \in [Clusters -> Links], NEW c, NEW s,
           IsChain(links, c, s), \A x \in ToSet(s) : new[x] = links[x]
    PROVE  IsChain(new, c, s) /\ Chain(new, c) = s
<1>1. s \in Seq(Clusters)
  BY DEF IsChain
<1>2. \A i \in 1 .. Len(s) : new[s[i]] = links[s[i]]
  BY <1>1 DEF ToSet
<1>3. s # <<>> => Len(s) \in 1 .. Len(s)
  BY <1>1
<1>4. \A i \in 1 .. Len(s) - 1 : i \in 1 .. Len(s)
  BY <1>1
<1>5. IsChain(new, c, s)
  BY <1>2, <1>3, <1>4 DEF IsChain
<1>6. QED
  BY <1>5, ChainIs

LEMMA ChainStart ==
    ASSUME NEW links \in [Clusters -> Links], NEW d \in Clusters, links[d] = EOC
    PROVE  IsChain(links, d, <<d>>) /\ Chain(links, d) = <<d>>
<1>1. IsChain(links, d, <<d>>)
  <2> DEFINE s == <<d>>
  <2>1. s \in Seq(Clusters) /\ Len(s) = 1 /\ s[1] = d /\ s # <<>>
    OBVIOUS
  <2> HIDE DEF s
  <2>2. IsChain(links, d, s)
    BY <2>1 DEF IsChain
  <2>3. QED
    BY <2>2 DEF s
<1>2. QED
  BY <1>1, ChainIs

\* One cluster more behind the last one.
LEMMA ChainAppend ==
    ASSUME NEW links \in [Clusters -> Links], NEW c, NEW s, IsChain(links, c, s), s # <<>>,
           NEW d \in Clusters, d \notin ToSet(s)
    PROVE  LET new == Linked(links, s[Len(s)], d)
           IN  /\ new \in [Clusters -> Links]
               /\ IsChain(new, c, Append(s, d)) /\ Chain(new, c) = Append(s, d)
<1> DEFINE n == Len(s)
           last1 == s[n]
           new == Linked(links, last1, d)
           t == Append(s, d)
<1>1. s \in Seq(Clusters) /\ n \in Nat \ {0} /\ c \in Clusters
  BY DEF IsChain
<1>2. last1 \in Clusters /\ \A i \in 1 .. n : s[i] \in Clusters /\ s[i] # d
  BY <1>1 DEF ToSet
<1>3. /\ t \in Seq(Clusters) /\ Len(t) = n + 1 /\ t[n + 1] = d
      /\ \A i \in 1 .. n : t[i] = s[i]
  BY <1>1
<1>4. new \in [Clusters -> Links] /\ new[last1] = d /\ new[d] = EOC
      /\ \A x \in Clusters : x # d /\ x # last1 => new[x] = links[x]
  <2>1. d \in Links /\ EOC \in Links
    BY DEF Links
  <2>2. last1 # d
    BY <1>1, <1>2
  <2> HIDE DEF last1
  <2>3. QED
    BY <1>2, <2>1, <2>2 DEF Linked
<1> HIDE DEF new, t
<1>5. \A i \in 1 .. n - 1 : new[s[i]] = s[i + 1]
  <2> SUFFICES ASSUME NEW i \in 1 .. n - 1
               PROVE  new[s[i]] = s[i + 1]
    OBVIOUS
  <2>1. i \in 1 .. n /\ n \in 1 .. n /\ i # n
    BY <1>1
  <2>2. s[i] # last1 /\ links[s[i]] = s[i + 1]
    BY <2>1 DEF IsChain
  <2>3. QED
    BY <1>2, <1>4, <2>1, <2>2
<1>6. \A i \in 1 .. n : new[t[i]] = t[i + 1]
  <2> SUFFICES ASSUME NEW i \in 1 .. n
               PROVE  new[t[i]] = t[i + 1]
    OBVIOUS
  <2>1. CASE i = n
    BY <1>3, <1>4, <2>1
  <2>2. CASE i # n
    <3>1. i \in 1 .. n - 1 /\ i + 1 \in 1 .. n
      BY <1>1, <2>2
    <3>2. QED
      BY <1>3, <1>5, <3>1
  <2>3. QED
    BY <2>1, <2>2
<1>7. \A i, j \in 1 .. n + 1 : t[i] = t[j] => i = j
  <2> SUFFICES ASSUME NEW i \in 1 .. n + 1, NEW j \in 1 .. n + 1, t[i] = t[j]
               PROVE  i = j
    OBVIOUS
  <2>1. \A k \in 1 .. n + 1 : k = n + 1 \/ k \in 1 .. n
    BY <1>1
  <2>2. CASE i \in 1 .. n /\ j \in 1 .. n
    BY <1>3, <2>2 DEF IsChain
  <2>3. QED
    BY <1>2, <1>3, <2>1, <2>2
<1>8. t[1] = c /\ t # <<>> /\ new[t[n + 1]] = EOC
  <2>1. s[1] = c /\ 1 \in 1 .. n
    BY <1>1 DEF IsChain
  <2>2. t # <<>>
    BY <1>1, <1>3
  <2>3. QED
    BY <1>3, <1>4, <2>1, <2>2
<1>9. IsChain(new, c, t)
  <2>1. Len(t) - 1 = n
    BY <1>1, <1>3
  <2>2. QED
    BY <1>1, <1>3, <1>6, <1>7, <1>8, <2>1 DEF IsChain
<1>10. QED
  BY <1>4, <1>9, ChainIs DEF new, t

----------------------------------------------------------------------------
(* FAT12: who has which cluster *)

LEMMA HeldBody ==
    ASSUME NEW links, NEW heads, NEW lost,
           Held(links, heads, lost), NEW a \in heads
    PROVE  /\ IsChain(links, a, Chain(links, a)) /\ Chain(links, a) # <<>>
           /\ Body(links, a) \subseteq Clusters /\ a \in Body(links, a)
           /\ \A c \in Body(links, a) : links[c] # FREE /\ c \notin lost
<1>0. links \in Fats /\ heads \subseteq Clusters /\ lost \subseteq Clusters
  BY DEF Held
<1> DEFINE s == Chain(links, a)
<1>1. IsChain(links, a, s) /\ a \in Clusters /\ Body(links, a) \cap lost = {}
  BY DEF Held
<1> HIDE DEF s
<1>2. s \in Seq(Clusters) /\ s # <<>> /\ s[1] = a /\ 1 \in 1 .. Len(s)
  BY <1>1 DEF IsChain
<1>3. \A i \in 1 .. Len(s) : s[i] \in Clusters
  BY <1>2
<1>4. ToSet(s) \subseteq Clusters /\ a \in ToSet(s)
  BY <1>2, <1>3 DEF ToSet
<1>5. \A c \in Clusters : c \in Body(links, a) => links[c] # FREE
  BY DEF Held
<1>6. QED
  BY <1>1, <1>2, <1>4, <1>5 DEF Body, s

\* A file none of whose links change.
LEMMA HeldFrame ==
    ASSUME NEW links, NEW heads, NEW lost,
           Held(links, heads, lost), NEW a \in heads,
           NEW new \in Fats, \A c \in Body(links, a) : new[c] = links[c]
    PROVE  /\ Chain(new, a) = Chain(links, a) /\ Body(new, a) = Body(links, a)
           /\ IsChain(new, a, Chain(new, a))
<1>0. links \in Fats /\ heads \subseteq Clusters /\ lost \subseteq Clusters
  BY DEF Held
<1>1. IsChain(links, a, Chain(links, a))
  BY DEF Held
<1>2. Chain(new, a) = Chain(links, a) /\ IsChain(new, a, Chain(links, a))
  BY <1>0, <1>1, ChainFrame DEF Body, Fats
<1>3. QED
  BY <1>2 DEF Body

\* A file is freed.
Without(links, clusters) == [c \in Clusters |-> IF c \in clusters THEN FREE ELSE links[c]]

LEMMA HeldFreed ==
    ASSUME NEW links, NEW heads, NEW lost,
           Held(links, heads, lost), NEW a \in heads
    PROVE  LET new == Without(links, Body(links, a))
           IN  /\ Held(new, heads \ {a}, lost)
               /\ \A b \in heads \ {a} : Chain(new, b) = Chain(links, b)
<1> DEFINE new == Without(links, Body(links, a))
<1>0. links \in Fats /\ heads \subseteq Clusters /\ lost \subseteq Clusters
  BY DEF Held
<1>1. new \in Fats
  BY <1>0 DEF Fats, Links, Without
<1>2. \A c \in Clusters : new[c] = IF c \in Body(links, a) THEN FREE ELSE links[c]
  BY DEF Without
<1> HIDE DEF new
<1>3. \A b \in heads : Body(links, b) \subseteq Clusters
  BY HeldBody
<1>4. ASSUME NEW b \in heads \ {a}
      PROVE  \A c \in Body(links, b) : new[c] = links[c]
  <2>1. Body(links, a) \cap Body(links, b) = {}
    BY DEF Held
  <2>2. QED
    BY <1>2, <1>3, <2>1
<1>5. ASSUME NEW b \in heads \ {a}
      PROVE  /\ Chain(new, b) = Chain(links, b) /\ Body(new, b) = Body(links, b)
             /\ IsChain(new, b, Chain(new, b))
  BY <1>1, <1>4, HeldFrame
<1>6. ASSUME NEW c \in Clusters
      PROVE  new[c] # FREE <=> c \in lost \/ \E b \in heads \ {a} : c \in Body(new, b)
  <2>1. CASE c \in Body(links, a)
    <3>1. new[c] = FREE /\ c \notin lost
      BY <1>2, <2>1, HeldBody
    <3>2. \A b \in heads \ {a} : c \notin Body(links, b)
      BY <2>1 DEF Held
    <3>3. QED
      BY <1>5, <3>1, <3>2
  <2>2. CASE c \notin Body(links, a)
    <3>1. new[c] = links[c]
      BY <1>2, <2>2
    <3>2. links[c] # FREE <=> c \in lost \/ \E b \in heads : c \in Body(links, b)
      BY DEF Held
    <3>3. QED
      BY <1>5, <2>2, <3>1, <3>2
  <2>3. QED
    BY <2>1, <2>2
<1>7. \A b, e \in heads \ {a} : b # e => Body(new, b) \cap Body(new, e) = {}
  BY <1>5 DEF Held
<1>8. \A b \in heads \ {a} : Body(new, b) \cap lost = {}
  BY <1>5 DEF Held
<1>9. Held(new, heads \ {a}, lost)
  BY <1>0, <1>1, <1>5, <1>6, <1>7, <1>8 DEF Held
<1>10. QED
  BY <1>5, <1>9 DEF new

\* A free cluster is the first of a new file.
Started(links, d) == [links EXCEPT ![d] = EOC]

LEMMA StartedChains ==
    ASSUME NEW links, NEW heads, NEW lost,
           Held(links, heads, lost), NEW d \in Clusters, links[d] = FREE
    PROVE  LET new == Started(links, d)
           IN  /\ new \in Fats /\ new[d] = EOC
               /\ \A c \in Clusters : c # d => new[c] = links[c]
               /\ d \notin heads /\ d \notin lost
               /\ Chain(new, d) = <<d>> /\ Body(new, d) = {d} /\ IsChain(new, d, Chain(new, d))
               /\ \A b \in heads : /\ Chain(new, b) = Chain(links, b)
                                   /\ Body(new, b) = Body(links, b) /\ d \notin Body(links, b)
                                   /\ IsChain(new, b, Chain(new, b))
<1> DEFINE new == Started(links, d)
<1>0. links \in Fats /\ heads \subseteq Clusters /\ lost \subseteq Clusters
  BY DEF Held
<1>1. new \in Fats /\ new[d] = EOC /\ \A c \in Clusters : c # d => new[c] = links[c]
  BY <1>0 DEF Fats, Links, Started
<1> HIDE DEF new
<1>2. \A b \in heads : Body(links, b) \subseteq Clusters /\ d \notin Body(links, b)
  BY HeldBody
<1>3. d \notin heads /\ d \notin lost
  BY HeldBody DEF Held
<1>4. ASSUME NEW b \in heads
      PROVE  /\ Chain(new, b) = Chain(links, b) /\ Body(new, b) = Body(links, b)
             /\ IsChain(new, b, Chain(new, b))
  <2>1. \A c \in Body(links, b) : new[c] = links[c]
    BY <1>1, <1>2
  <2>2. QED
    BY <1>1, <2>1, HeldFrame
<1>5. Chain(new, d) = <<d>> /\ IsChain(new, d, Chain(new, d))
  BY <1>1, ChainStart DEF Fats
<1>6. Body(new, d) = {d}
  BY <1>5 DEF Body, ToSet
<1>7. QED
  BY <1>1, <1>2, <1>3, <1>4, <1>5, <1>6 DEF new

LEMMA HeldStarted ==
    ASSUME NEW links, NEW heads, NEW lost,
           Held(links, heads, lost), NEW d \in Clusters, links[d] = FREE
    PROVE  Held(Started(links, d), heads \cup {d}, lost)
<1> DEFINE new == Started(links, d)
<1>0. links \in Fats /\ heads \subseteq Clusters /\ lost \subseteq Clusters
  BY DEF Held
<1>1. /\ new \in Fats /\ new[d] = EOC
      /\ \A c \in Clusters : c # d => new[c] = links[c]
      /\ d \notin lost
      /\ Body(new, d) = {d} /\ IsChain(new, d, Chain(new, d))
      /\ \A b \in heads : /\ Body(new, b) = Body(links, b) /\ d \notin Body(links, b)
                          /\ IsChain(new, b, Chain(new, b))
  BY StartedChains
<1> HIDE DEF new
<1>2. \A b, e \in heads : b # e => Body(links, b) \cap Body(links, e) = {}
  BY DEF Held
<1>3. \A b \in heads : Body(links, b) \cap lost = {}
  BY DEF Held
<1>4. ASSUME NEW c \in Clusters
      PROVE  new[c] # FREE <=> c \in lost \/ \E b \in heads \cup {d} : c \in Body(new, b)
  <2>1. links[c] # FREE <=> c \in lost \/ \E b \in heads : c \in Body(links, b)
    BY DEF Held
  <2>2. EOC # FREE
    BY DEF EOC, FREE
  <2>3. CASE c = d
    BY <1>1, <2>2, <2>3
  <2>4. CASE c # d
    BY <1>1, <2>1, <2>4
  <2>5. QED
    BY <2>3, <2>4
<1>5. ASSUME NEW b \in heads \cup {d}, NEW e \in heads \cup {d}, b # e
      PROVE  Body(new, b) \cap Body(new, e) = {}
  <2>1. CASE b \in heads /\ e \in heads
    BY <1>1, <1>2, <1>5, <2>1
  <2>2. CASE b = d /\ e \in heads
    BY <1>1, <2>2
  <2>3. CASE b \in heads /\ e = d
    BY <1>1, <2>3
  <2>4. QED
    BY <1>5, <2>1, <2>2, <2>3
<1>6. \A b \in heads \cup {d} : Body(new, b) \cap lost = {}
  BY <1>1, <1>3
<1>7. Held(new, heads \cup {d}, lost)
  BY <1>0, <1>1, <1>4, <1>5, <1>6 DEF Held
<1>8. QED
  BY <1>7 DEF new

\* A free cluster is linked behind the last one of file a.
LEMMA HeldLonger ==
    ASSUME NEW links, NEW heads, NEW lost,
           Held(links, heads, lost), NEW a \in heads, NEW d \in Clusters, links[d] = FREE
    PROVE  LET s == Chain(links, a)
               new == Linked(links, s[Len(s)], d)
           IN  /\ new \in Fats /\ Held(new, heads, lost)
               /\ Chain(new, a) = Append(s, d) /\ Body(new, a) = Body(links, a) \cup {d}
               /\ \A b \in heads \ {a} : /\ Chain(new, b) = Chain(links, b)
                                         /\ Body(new, b) = Body(links, b)
               /\ \A c \in Clusters : c \notin Body(new, a) => new[c] = links[c]
<1> SUFFICES ASSUME NEW s, s = Chain(links, a), NEW new, new = Linked(links, s[Len(s)], d)
             PROVE  /\ new \in Fats /\ Held(new, heads, lost)
                    /\ Chain(new, a) = Append(s, d) /\ Body(new, a) = Body(links, a) \cup {d}
                    /\ \A b \in heads \ {a} : /\ Chain(new, b) = Chain(links, b)
                                              /\ Body(new, b) = Body(links, b)
                    /\ \A c \in Clusters : c \notin Body(new, a) => new[c] = links[c]
  OBVIOUS
<1>0. links \in Fats /\ heads \subseteq Clusters /\ lost \subseteq Clusters
  BY DEF Held
<1>1. IsChain(links, a, s) /\ s # <<>> /\ ToSet(s) = Body(links, a)
  BY HeldBody DEF Body
<1>2. \A b \in heads : Body(links, b) \subseteq Clusters /\ d \notin Body(links, b)
  BY HeldBody
<1>3. d \notin ToSet(s) /\ d \notin lost
  BY <1>1, <1>2 DEF Held
<1>4. new \in Fats /\ IsChain(new, a, Append(s, d)) /\ Chain(new, a) = Append(s, d)
  BY <1>0, <1>1, <1>3, ChainAppend DEF Fats
<1>5. s \in Seq(Clusters) /\ Len(s) \in Nat \ {0} /\ s[Len(s)] \in ToSet(s)
  BY <1>1 DEF IsChain, ToSet
<1>6. ToSet(Append(s, d)) = ToSet(s) \cup {d}
  <2>1. Len(Append(s, d)) = Len(s) + 1 /\ DOMAIN Append(s, d) = 1 .. Len(s) + 1
    BY <1>5
  <2>2. \A i \in 1 .. Len(s) + 1 : Append(s, d)[i] = IF i = Len(s) + 1 THEN d ELSE s[i]
    BY <1>5
  <2>3. DOMAIN s = 1 .. Len(s)
    BY <1>5
  <2>4. \A i \in 1 .. Len(s) + 1 : i = Len(s) + 1 \/ i \in 1 .. Len(s)
    BY <1>5
  <2>5. /\ Len(s) + 1 \in 1 .. Len(s) + 1
        /\ \A i \in 1 .. Len(s) : i \in 1 .. Len(s) + 1 /\ i # Len(s) + 1
    BY <1>5
  <2>6. QED
    BY <2>1, <2>2, <2>3, <2>4, <2>5 DEF ToSet
<1>7. Body(new, a) = Body(links, a) \cup {d}
  BY <1>1, <1>4, <1>6 DEF Body
<1>8. \A c \in Clusters : c # d /\ c # s[Len(s)] => new[c] = links[c]
  BY <1>0 DEF Linked, Fats
<1>9. ASSUME NEW b \in heads \ {a}
      PROVE  /\ Chain(new, b) = Chain(links, b) /\ Body(new, b) = Body(links, b)
             /\ IsChain(new, b, Chain(new, b))
  <2>1. Body(links, a) \cap Body(links, b) = {}
    BY DEF Held
  <2>2. \A c \in Body(links, b) : new[c] = links[c]
    BY <1>1, <1>2, <1>5, <1>8, <2>1
  <2>3. QED
    BY <1>4, <2>2, HeldFrame
<1>10. IsChain(new, a, Chain(new, a))
  BY <1>4
<1>11. new[d] # FREE /\ new[s[Len(s)]] # FREE
  <2>1. \A c \in {d, s[Len(s)]} : c \in Clusters /\ new[c] \in {d, EOC}
    BY <1>0, <1>1, <1>2, <1>5 DEF Linked, Fats
  <2>2. d # FREE /\ EOC # FREE
    BY DEF FREE, EOC, Clusters
  <2>3. QED
    BY <2>1, <2>2
<1>12. ASSUME NEW c \in Clusters
       PROVE  new[c] # FREE <=> c \in lost \/ \E b \in heads : c \in Body(new, b)
  <2>1. links[c] # FREE <=> c \in lost \/ \E b \in heads : c \in Body(links, b)
    BY DEF Held
  <2>2. c \in Body(new, a) <=> c \in Body(links, a) \/ c = d
    BY <1>7
  <2>3. (\E b \in heads : c \in Body(new, b)) <=> c = d \/ \E b \in heads : c \in Body(links, b)
    BY <1>9, <2>2
  <2>4. CASE c = d \/ c = s[Len(s)]
    <3>1. c \in Body(new, a)
      BY <1>1, <1>5, <2>2, <2>4
    <3>2. QED
      BY <1>11, <2>4, <3>1
  <2>5. CASE c # d /\ c # s[Len(s)]
    BY <1>8, <2>1, <2>3, <2>5
  <2>6. QED
    BY <2>4, <2>5
<1>13. \A b, e \in heads : b # e => Body(new, b) \cap Body(new, e) = {}
  <2>1. \A b, e \in heads : b # e => Body(links, b) \cap Body(links, e) = {}
    BY DEF Held
  <2>2. \A b \in heads : Body(new, b) \subseteq Body(links, b) \cup (IF b = a THEN {d} ELSE {})
    BY <1>7, <1>9
  <2>3. QED
    BY <1>2, <2>1, <2>2
<1>14. \A b \in heads : Body(new, b) \cap lost = {}
  <2>1. \A b \in heads : Body(links, b) \cap lost = {}
    BY DEF Held
  <2>2. QED
    BY <1>3, <1>7, <1>9, <2>1
<1>15. \A c \in Clusters : c \notin Body(new, a) => new[c] = links[c]
  BY <1>1, <1>5, <1>7, <1>8
<1>16. QED
  BY <1>4, <1>7, <1>9, <1>10, <1>12, <1>13, <1>14, <1>15 DEF Held

\* The copy on flash, which lacks what the files gone were given since: the
\* clusters of theirs that it does have are lost.
Ahead(links, flash, files) ==
    \A c \in Clusters : flash[c] # links[c] => \E a \in files : c \in Body(links, a)
Left(links, flash, files) ==
    {c \in Clusters : flash[c] # FREE /\ \E a \in files : c \in Body(links, a)}

LEMMA HeldOnFlash ==
    ASSUME NEW links, NEW heads, NEW lost, Held(links, heads, lost),
           NEW flash \in Fats, NEW stay \in SUBSET heads, Ahead(links, flash, heads \ stay)
    PROVE  /\ Held(flash, stay, lost \cup Left(links, flash, heads \ stay))
           /\ \A b \in stay : Chain(flash, b) = Chain(links, b) /\ Body(flash, b) = Body(links, b)
<1> DEFINE gone == Left(links, flash, heads \ stay)
<1>a. /\ \A c \in Clusters : flash[c] # links[c] => \E a \in heads \ stay : c \in Body(links, a)
      /\ gone = {c \in Clusters : flash[c] # FREE /\ \E a \in heads \ stay : c \in Body(links, a)}
  BY DEF Ahead, Left
<1> HIDE DEF gone
<1>0. links \in Fats /\ heads \subseteq Clusters /\ lost \subseteq Clusters
  BY DEF Held
<1>1. \A a, b \in heads : a # b => Body(links, a) \cap Body(links, b) = {}
  BY DEF Held
<1>2. \A b \in heads : Body(links, b) \subseteq Clusters /\ Body(links, b) \cap lost = {}
  <2>1. \A b \in heads : Body(links, b) \subseteq Clusters
    BY HeldBody
  <2>2. \A b \in heads : Body(links, b) \cap lost = {}
    BY DEF Held
  <2>3. QED
    BY <2>1, <2>2
<1>3. ASSUME NEW b \in stay
      PROVE  /\ Chain(flash, b) = Chain(links, b) /\ Body(flash, b) = Body(links, b)
             /\ IsChain(flash, b, Chain(flash, b))
  <2>1. \A a \in heads \ stay : a # b /\ b \in heads
    OBVIOUS
  <2>2. \A c \in Body(links, b) : flash[c] = links[c]
    BY <1>a, <1>1, <1>2, <2>1
  <2>3. QED
    BY <2>2, HeldFrame
<1>4. \A b, e \in stay : b # e => Body(flash, b) \cap Body(flash, e) = {}
  BY <1>1, <1>3
<1>5. \A b \in stay : Body(flash, b) \cap (lost \cup gone) = {}
  <2> SUFFICES ASSUME NEW b \in stay, NEW c \in Body(links, b), c \in gone
               PROVE  FALSE
    BY <1>2, <1>3
  <2>1. PICK a \in heads \ stay : c \in Body(links, a)
    BY <1>a
  <2>2. QED
    BY <1>1, <2>1
<1>6. ASSUME NEW c \in Clusters
      PROVE  flash[c] # FREE <=> c \in lost \cup gone \/ \E b \in stay : c \in Body(flash, b)
  <2>1. links[c] # FREE <=> c \in lost \/ \E b \in heads : c \in Body(links, b)
    BY DEF Held
  <2>2. CASE \E a \in heads \ stay : c \in Body(links, a)
    <3>1. c \notin lost /\ \A b \in stay : c \notin Body(flash, b)
      BY <1>1, <1>2, <1>3, <2>2
    <3>2. QED
      BY <1>a, <2>2, <3>1
  <2>3. CASE ~ \E a \in heads \ stay : c \in Body(links, a)
    <3>1. flash[c] = links[c] /\ c \notin gone
      BY <1>a, <2>3
    <3>2. (\E b \in heads : c \in Body(links, b)) <=> \E b \in stay : c \in Body(flash, b)
      BY <1>3, <2>3
    <3>3. QED
      BY <2>1, <3>1, <3>2
  <2>4. QED
    BY <2>2, <2>3
<1>7. QED
  BY <1>3, <1>4, <1>5, <1>6 DEF Held, gone, Left

----------------------------------------------------------------------------
(* FAT12: the invariant *)

Named == {s \in Slots : dir[s].name \in Names}
Writers == {h \in Handles : Writes(h)}

DirHeads == {dir[s].first : s \in Named} \cap Clusters
WriterHeads == {file[h].first : h \in Writers} \cap Clusters

\* No two files start at the same cluster.
HeadsDiffer ==
    /\ \A s, r \in Named : dir[s].first = dir[r].first => s = r \/ dir[s].first = 0
    /\ \A h, g \in Writers : file[h].first = file[g].first => h = g \/ file[h].first = 0
    /\ \A s \in Named, h \in Writers : dir[s].first = file[h].first => dir[s].first = 0

\* The copies on flash agree, and the cached one is ahead of them only in files
\* that are being written.
CopiesAgree ==
    /\ fat[1] = fat[2]
    /\ dirty => loaded
    /\ ~dirty => Fat = fat[1]
    /\ \A c \in Clusters :
          fat[1][c] # Fat[c] => \E h \in Writers : c \in Body(Fat, file[h].first)

\* The directory is used from its start.
UsedFirst == \A s, r \in Slots : dir[s].name # End /\ r <= s => dir[r].name # End

\* A handle stands at the end of the last cluster of what it has written, for
\* an entry of its own that says nothing yet.
AtTheEnd(links, f) ==
    \/ f.first = 0 /\ f.cur = 0
    \/ LET s == Chain(links, f.first) IN f.first \in Clusters /\ f.cur = s[Len(s)]

WritersApart ==
    /\ \A h \in Writers :
          /\ file[h].slot \in Named
          /\ dir[file[h].slot].first = 0 /\ dir[file[h].slot].size = 0
          /\ stored[file[h].slot] = <<>>
          /\ AtTheEnd(Fat, file[h])
          /\ file[h].size = file[h].pos /\ Len(moved[h]) = file[h].pos
    /\ \A h, g \in Writers : file[h].slot = file[g].slot => h = g

HistoryOK == stored \in [Slots -> Seq(Units)] /\ moved \in [Handles -> Seq(Units)]

ReadersFind == \A h \in Handles : file[h].mode = "reads" => file[h].slot \in Named

FatInv ==
    /\ FatTypeOK /\ HistoryOK
    /\ Held(Fat, DirHeads \cup WriterHeads, orphans) /\ HeadsDiffer
    /\ CopiesAgree /\ UsedFirst
    /\ WritersApart /\ ReadersFind

----------------------------------------------------------------------------
(* FAT12: one round of a write *)

LEMMA MinOf ==
    ASSUME NEW A \in SUBSET Nat, A # {}
    PROVE  Min(A) \in A /\ \A k \in A : Min(A) <= k
<1>1. \E m \in A : \A k \in A : m <= k
  BY LeastNumber
<1>2. QED
  BY <1>1 DEF Min

Sectors == [Clusters -> [0 .. SectorSize - 1 -> Units]]

Rounds == [file : Handle, len : Nat, links : Fats, dirty : BOOLEAN, sector : Sectors,
           put : Seq(Units), full : BOOLEAN]

\* What the rounds of a write that started as v have made of it, while the other
\* files start at others.
Follows(w, v, others, lost) ==
    /\ w \in Rounds
    /\ w.file.mode = v.file.mode /\ w.file.slot = v.file.slot
    /\ Held(w.links, others \cup ({w.file.first} \cap Clusters), lost)
    /\ w.file.first \notin others
    /\ \A b \in others : Chain(w.links, b) = Chain(v.links, b)
    /\ AtTheEnd(w.links, w.file)
    /\ v.dirty => w.dirty
    /\ \A c \in Clusters :
          w.links[c] # v.links[c] => w.dirty /\ c \in Body(w.links, w.file.first)
    /\ Body(v.links, v.file.first) \subseteq Body(w.links, w.file.first)
    /\ \A c \in Clusters : c \notin Body(w.links, w.file.first) => w.sector[c] = v.sector[c]
    /\ w.file.size = w.file.pos /\ Len(w.put) = w.file.pos

\* The first free cluster, if there is one.
LEMMA FirstFree ==
    ASSUME NEW links \in Fats, FreeIn(links) # {}
    PROVE  Min(FreeIn(links)) \in Clusters /\ links[Min(FreeIn(links))] = FREE
<1>1. FreeIn(links) \in SUBSET Nat
  BY Fat12Assumption DEF FreeIn, Clusters
<1>2. Min(FreeIn(links)) \in FreeIn(links)
  BY <1>1, MinOf
<1>3. QED
  BY <1>2 DEF FreeIn

LEMMA AllocateFields ==
    ASSUME NEW w \in Rounds, FreeIn(w.links) # {}
    PROVE  LET d == Min(FreeIn(w.links))
               x == Allocate(w)
           IN  /\ x \in Rounds
               /\ x.len = w.len /\ x.sector = w.sector /\ x.put = w.put /\ x.full = w.full
               /\ x.dirty = TRUE
               /\ x.file = [w.file EXCEPT !.first = IF w.file.cur = 0 THEN d ELSE @, !.cur = d]
               /\ x.links = IF w.file.cur = 0 THEN [w.links EXCEPT ![d] = EOC]
                            ELSE Linked(w.links, w.file.cur, d)
<1> DEFINE d == Min(FreeIn(w.links))
           x == Allocate(w)
<1>1. d \in Clusters
  BY FirstFree DEF Rounds
<1> HIDE DEF d
<1>2. CASE w.file.cur = 0
  <2>1. x = [w EXCEPT !.links[d] = EOC, !.dirty = TRUE, !.file.first = d, !.file.cur = d]
    BY <1>2 DEF Allocate, d
  <2>2. /\ x.len = w.len /\ x.sector = w.sector /\ x.put = w.put /\ x.full = w.full
        /\ x.dirty = TRUE
        /\ x.links = [w.links EXCEPT ![d] = EOC]
        /\ x.file = [w.file EXCEPT !.first = d, !.cur = d]
    BY <2>1 DEF Rounds, Handle
  <2>3. x.links \in Fats
    BY <1>1, <2>2 DEF Rounds, Fats, Links
  <2>4. x.file \in Handle
    BY <1>1, <2>2 DEF Rounds, Handle
  <2>5. x \in Rounds
    <3> HIDE DEF x
    <3>1. x = [file |-> x.file, len |-> x.len, links |-> x.links, dirty |-> x.dirty,
               sector |-> x.sector, put |-> x.put, full |-> x.full]
      BY <2>1 DEF Rounds
    <3>2. QED
      BY <2>2, <2>3, <2>4, <3>1 DEF Rounds
  <2>6. QED
    BY <1>2, <2>2, <2>5 DEF d
<1>3. CASE w.file.cur # 0
  <2>1. x = [w EXCEPT !.links = Linked(w.links, w.file.cur, d), !.dirty = TRUE, !.file.cur = d]
    BY <1>3 DEF Allocate, d
  <2>2. /\ x.len = w.len /\ x.sector = w.sector /\ x.put = w.put /\ x.full = w.full
        /\ x.dirty = TRUE
        /\ x.links = Linked(w.links, w.file.cur, d)
        /\ x.file = [w.file EXCEPT !.cur = d]
    BY <2>1 DEF Rounds, Handle
  <2>3. x.links \in Fats
    <3>1. w.links \in Fats /\ d \in Links /\ EOC \in Links
      BY <1>1 DEF Rounds, Links
    <3>2. QED
      BY <2>2, <3>1 DEF Fats, Linked
  <2>4. x.file \in Handle
    BY <1>1, <2>2 DEF Rounds, Handle
  <2>5. x \in Rounds
    <3> HIDE DEF x
    <3>1. x = [file |-> x.file, len |-> x.len, links |-> x.links, dirty |-> x.dirty,
               sector |-> x.sector, put |-> x.put, full |-> x.full]
      BY <2>1 DEF Rounds
    <3>2. QED
      BY <2>2, <2>3, <2>4, <3>1 DEF Rounds
  <2>6. x.file = [w.file EXCEPT !.first = IF w.file.cur = 0 THEN d ELSE @, !.cur = d]
    BY <1>3, <2>2 DEF Rounds, Handle
  <2>7. QED
    BY <1>3, <2>2, <2>5, <2>6 DEF d
<1>4. QED
  BY <1>2, <1>3

\* A handle that is not at the start of an empty file is at the last cluster.
LEMMA EndOfChain ==
    ASSUME NEW links, NEW heads, NEW lost,
           Held(links, heads, lost), NEW f \in Handle, AtTheEnd(links, f),
           f.first \in Clusters => f.first \in heads
    PROVE  /\ f.cur = 0 => f.first = 0
           /\ f.cur # 0 => /\ f.first \in Clusters /\ f.cur \in Body(links, f.first)
                           /\ LET s == Chain(links, f.first)
                              IN  /\ s \in Seq(Clusters) /\ Len(s) \in Nat \ {0}
                                  /\ f.cur = s[Len(s)]
<1>1. CASE f.first = 0 /\ f.cur = 0
  BY <1>1
<1>2. CASE f.first \in Clusters /\ f.cur = Chain(links, f.first)[Len(Chain(links, f.first))]
  <2> DEFINE a == f.first
             s == Chain(links, a)
  <2>1. a \in heads
    BY <1>2
  <2> HIDE DEF a
  <2>2. IsChain(links, a, s) /\ s # <<>> /\ ToSet(s) \subseteq Clusters
    BY <2>1, HeldBody DEF Body
  <2>3. f.cur = s[Len(s)]
    BY <1>2 DEF a
  <2> HIDE DEF s
  <2>4. s \in Seq(Clusters) /\ Len(s) \in Nat \ {0} /\ s[Len(s)] \in ToSet(s)
    BY <2>2 DEF IsChain, ToSet
  <2>5. f.cur \in Clusters /\ f.cur \in ToSet(s) /\ f.cur # 0
    BY <2>2, <2>3, <2>4 DEF Clusters
  <2>6. QED
    BY <1>2, <2>3, <2>4, <2>5 DEF Body, s, a
<1>3. QED
  BY <1>1, <1>2 DEF AtTheEnd

LEMMA AllocateFollows ==
    ASSUME NEW w, NEW v \in Rounds, NEW others, NEW lost, Follows(w, v, others, lost)
    PROVE  Follows(Allocate(w), v, others, lost)
<1> DEFINE x == Allocate(w)
           f == w.file
           links == w.links
           d == Min(FreeIn(links))
           a == f.first
           heads == others \cup ({a} \cap Clusters)
<1>1. w \in Rounds /\ f \in Handle /\ links \in Fats /\ others \subseteq Clusters
      /\ Held(links, heads, lost) /\ AtTheEnd(links, f)
  BY DEF Follows, Rounds, Held
<1>2. CASE FreeIn(links) = {}
  <2>1. x = [w EXCEPT !.full = TRUE]
    BY <1>2 DEF Allocate
  <2>2. /\ x \in Rounds /\ x.file = w.file /\ x.links = w.links /\ x.dirty = w.dirty
        /\ x.sector = w.sector /\ x.put = w.put
    BY <1>1, <2>1 DEF Rounds
  <2> HIDE DEF x
  <2>3. QED
    BY <2>2 DEF Follows, x
<1>3. CASE FreeIn(links) # {}
  <2>1. /\ x \in Rounds
        /\ x.sector = w.sector /\ x.put = w.put /\ x.dirty = TRUE
        /\ x.file = [f EXCEPT !.first = IF f.cur = 0 THEN d ELSE @, !.cur = d]
        /\ x.links = IF f.cur = 0 THEN [links EXCEPT ![d] = EOC] ELSE Linked(links, f.cur, d)
    BY <1>1, <1>3, AllocateFields
  <2>2. d \in Clusters /\ links[d] = FREE
    BY <1>1, <1>3, FirstFree
  <2> HIDE DEF d, x
  <2>3. /\ x.file.mode = v.file.mode /\ x.file.slot = v.file.slot
        /\ x.file.size = x.file.pos /\ Len(x.put) = x.file.pos /\ x.file.cur = d
        /\ x.file.first = IF f.cur = 0 THEN d ELSE a
    BY <1>1, <2>1 DEF Follows, Handle
  <2>4. /\ a \notin others
        /\ \A b \in others : Chain(links, b) = Chain(v.links, b)
        /\ \A c \in Clusters : links[c] # v.links[c] => c \in Body(links, a)
        /\ Body(v.links, v.file.first) \subseteq Body(links, a)
        /\ \A c \in Clusters : c \notin Body(links, a) => x.sector[c] = v.sector[c]
    BY <2>1 DEF Follows
  <2> HIDE DEF links, f
  <2>5. /\ f.cur = 0 => a = 0
        /\ f.cur # 0 => a \in Clusters /\ f.cur = Chain(links, a)[Len(Chain(links, a))]
                        /\ Chain(links, a) \in Seq(Clusters)
    <3>1. f.first \in Clusters => f.first \in heads
      OBVIOUS
    <3> HIDE DEF heads
    <3>2. QED
      BY <1>1, <3>1, EndOfChain
  <2>6. CASE f.cur = 0
    <3>1. a = 0 /\ a \notin Clusters /\ heads = others
      <4>1. a = 0
        BY <2>5, <2>6
      <4> HIDE DEF a
      <4>2. QED
        BY <4>1 DEF Clusters
    <3>2. Body(links, a) = {}
      <4> HIDE DEF a
      <4>1. QED
        BY <1>1, <3>1, ChainEmpty DEF Fats
    <3>3. /\ x.links \in Fats /\ Held(x.links, others \cup {d}, lost)
          /\ d \notin others /\ Chain(x.links, d) = <<d>> /\ Body(x.links, d) = {d}
          /\ \A b \in others : Chain(x.links, b) = Chain(links, b)
      <4> DEFINE new == Started(links, d)
      <4>1. new = x.links
        BY <2>1, <2>6 DEF Started
      <4>2. Held(links, others, lost)
        BY <1>1, <3>1
      <4> HIDE DEF heads, a
      <4>3. Held(new, others \cup {d}, lost)
        BY <2>2, <4>2, HeldStarted
      <4>4. /\ new \in Fats /\ d \notin others /\ Chain(new, d) = <<d>> /\ Body(new, d) = {d}
            /\ \A b \in others : Chain(new, b) = Chain(links, b)
        BY <2>2, <4>2, StartedChains
      <4> HIDE DEF new
      <4>5. QED
        BY <4>1, <4>3, <4>4
    <3>4. x.file.first = d /\ others \cup ({d} \cap Clusters) = others \cup {d}
      BY <2>2, <2>3, <2>6
    <3>5. AtTheEnd(x.links, x.file)
      <4>1. Len(<<d>>) = 1 /\ <<d>>[1] = d
        OBVIOUS
      <4>2. QED
        BY <2>2, <2>3, <3>3, <3>4, <4>1 DEF AtTheEnd
    <3>6. \A c \in Clusters : x.links[c] # v.links[c] => c \in Body(x.links, d)
      <4>1. \A c \in Clusters : c # d => x.links[c] = links[c]
        BY <1>1, <2>1, <2>6 DEF Fats
      <4>2. QED
        BY <2>4, <3>2, <3>3, <4>1
    <3>7. Body(v.links, v.file.first) \subseteq Body(x.links, d)
      BY <2>4, <3>2
    <3>8. \A c \in Clusters : c \notin Body(x.links, d) => x.sector[c] = v.sector[c]
      BY <2>4, <3>2
    <3>9. \A b \in others : Chain(x.links, b) = Chain(v.links, b)
      BY <2>4, <3>3
    <3>10. QED
      BY <2>1, <2>3, <3>3, <3>4, <3>5, <3>6, <3>7, <3>8, <3>9, Zenon DEF Follows, x
  <2>7. CASE f.cur # 0
    <3> DEFINE s == Chain(links, a)
    <3> HIDE DEF a
    <3>1. a \in Clusters /\ f.cur = s[Len(s)] /\ s \in Seq(Clusters)
      BY <2>5, <2>7
    <3>2. heads = others \cup {a} /\ a \in heads /\ others \subseteq heads \ {a}
          /\ {a} \cap Clusters = {a}
      BY <2>4, <3>1
    <3>3. /\ x.links \in Fats /\ Held(x.links, heads, lost)
          /\ Chain(x.links, a) = Append(s, d) /\ Body(x.links, a) = Body(links, a) \cup {d}
          /\ \A b \in heads \ {a} : Chain(x.links, b) = Chain(links, b)
          /\ \A c \in Clusters : c \notin Body(x.links, a) => x.links[c] = links[c]
      <4> DEFINE new == Linked(links, s[Len(s)], d)
      <4>1. new = x.links
        BY <2>1, <2>7, <3>1, <3>2
      <4> HIDE DEF heads
      <4>2. /\ new \in Fats /\ Held(new, heads, lost)
            /\ Chain(new, a) = Append(s, d) /\ Body(new, a) = Body(links, a) \cup {d}
            /\ \A b \in heads \ {a} : Chain(new, b) = Chain(links, b)
            /\ \A c \in Clusters : c \notin Body(new, a) => new[c] = links[c]
        BY <1>1, <2>2, <3>2, HeldLonger
      <4> HIDE DEF new
      <4>3. QED
        BY <4>1, <4>2
    <3>4. x.file.first = a
      BY <2>3, <2>7
    <3>5. AtTheEnd(x.links, x.file)
      <4>1. Len(Append(s, d)) = Len(s) + 1 /\ Append(s, d)[Len(s) + 1] = d
        BY <3>1
      <4>2. QED
        BY <2>3, <3>1, <3>3, <3>4, <4>1 DEF AtTheEnd
    <3>6. \A b \in others : Chain(x.links, b) = Chain(v.links, b)
      BY <2>4, <3>2, <3>3
    <3>7. \A c \in Clusters : x.links[c] # v.links[c] => c \in Body(x.links, a)
      BY <2>4, <3>3
    <3>8. Body(v.links, v.file.first) \subseteq Body(x.links, a)
      BY <2>4, <3>3
    <3>9. \A c \in Clusters : c \notin Body(x.links, a) => x.sector[c] = v.sector[c]
      BY <2>4, <3>3
    <3>10. Held(x.links, others \cup ({a} \cap Clusters), lost)
      BY <3>3
    <3> HIDE DEF s
    <3>11. QED
      BY <2>1, <2>3, <2>4, <3>4, <3>5, <3>6, <3>7, <3>8, <3>9, <3>10, Zenon DEF Follows, x
  <2>8. QED
    BY <2>6, <2>7 DEF x
<1>4. QED
  BY <1>2, <1>3

\* The units a round writes for name, behind those put there before.
NewUnits(name, w, n) == [i \in 1 .. n |-> <<name, Len(w.put) + i - 1>>]

\* x is w with n more units of name in the sector it stands in.
FilledAs(x, w, name, n) ==
    LET off == w.file.pos % SectorSize
    IN  /\ x \in Rounds
        /\ x.links = w.links /\ x.dirty = w.dirty /\ x.full = w.full
        /\ x.len = w.len - n /\ x.put = w.put \o NewUnits(name, w, n)
        /\ x.file = [w.file EXCEPT !.pos = @ + n,
                                   !.size = IF w.file.pos + n > @ THEN w.file.pos + n ELSE @]
        /\ \A c \in Clusters : c # w.file.cur => x.sector[c] = w.sector[c]
        /\ \A i \in 0 .. SectorSize - 1 :
              x.sector[w.file.cur][i]
                = IF i \in off .. off + n - 1 THEN <<name, Len(w.put) + (i - off)>>
                  ELSE w.sector[w.file.cur][i]

LEMMA FilledFields ==
    ASSUME NEW w \in Rounds, w.file.cur \in Clusters, NEW name \in Names, NEW n \in 1 .. w.len,
           n <= SectorSize - (w.file.pos % SectorSize)
    PROVE  FilledAs(Filled(w, name, n), w, name, n)
<1> DEFINE x == Filled(w, name, n)
           off == w.file.pos % SectorSize
           cur == w.file.cur
           sec == [i \in 0 .. SectorSize - 1 |->
                     IF i \in off .. off + n - 1 THEN <<name, Len(w.put) + i - off>>
                     ELSE w.sector[cur][i]]
<1>1. off \in 0 .. SectorSize - 1 /\ w.file \in Handle /\ w.len \in Nat /\ w.file.pos \in Nat
      /\ w.sector \in Sectors /\ w.put \in Seq(Units) /\ w.file.size \in Nat
  <2>1. w.file \in Handle /\ w.len \in Nat /\ w.file.pos \in Nat /\ w.file.size \in Nat
        /\ w.sector \in Sectors /\ w.put \in Seq(Units)
    BY DEF Rounds, Handle
  <2>2. off \in 0 .. SectorSize - 1
    <3> DEFINE p == w.file.pos
    <3>1. p \in Int
      BY <2>1
    <3> HIDE DEF p
    <3>2. p % SectorSize \in 0 .. SectorSize - 1
      BY <3>1, ModRange, Fat12Assumption
    <3>3. QED
      BY <3>2 DEF p
  <2>3. QED
    BY <2>1, <2>2
<1>2. x = [w EXCEPT !.sector[cur] = sec, !.put = @ \o NewUnits(name, w, n),
                    !.file.pos = @ + n,
                    !.file.size = IF w.file.pos + n > @ THEN w.file.pos + n ELSE @,
                    !.len = @ - n]
  BY DEF Filled, NewUnits
<1> HIDE DEF off
<1>3. sec \in [0 .. SectorSize - 1 -> Units]
  <2> SUFFICES ASSUME NEW i \in 0 .. SectorSize - 1
               PROVE  sec[i] \in Units
    OBVIOUS
  <2>1. w.sector[cur][i] \in Units
    BY <1>1 DEF Sectors
  <2>2. Len(w.put) \in Nat /\ n \in Nat
    BY <1>1
  <2>3. CASE i \in off .. off + n - 1
    <3>1. Len(w.put) + i - off \in Nat
      BY <1>1, <2>2, <2>3
    <3>2. QED
      BY <2>3, <3>1 DEF Units
  <2>4. QED
    BY <2>1, <2>3
<1>4. NewUnits(name, w, n) \in Seq(Units)
  <2>1. \A i \in 1 .. n : Len(w.put) + i - 1 \in Nat
    BY <1>1
  <2>2. \A i \in 1 .. n : NewUnits(name, w, n)[i] \in Units
    BY <2>1 DEF NewUnits, Units
  <2>3. n \in Nat /\ NewUnits(name, w, n) = [i \in 1 .. n |-> NewUnits(name, w, n)[i]]
    BY <1>1 DEF NewUnits
  <2>4. QED
    BY <2>2, <2>3
<1>5. w.put \o NewUnits(name, w, n) \in Seq(Units)
  BY <1>1, <1>4
<1>6. /\ x.links = w.links /\ x.dirty = w.dirty /\ x.full = w.full
      /\ x.len = w.len - n /\ x.put = w.put \o NewUnits(name, w, n)
      /\ x.sector = [w.sector EXCEPT ![cur] = sec]
      /\ x.file = [w.file EXCEPT !.pos = @ + n,
                                 !.size = IF w.file.pos + n > @ THEN w.file.pos + n ELSE @]
  <2> HIDE DEF sec, x
  <2>1. QED
    BY <1>1, <1>2 DEF Rounds, Handle
<1>7. x.sector \in Sectors
  <2> HIDE DEF sec, x
  <2>1. QED
    BY <1>1, <1>3, <1>6 DEF Sectors
<1>8. x.file \in Handle
  <2>1. w.file.pos + n \in Nat
    BY <1>1
  <2> HIDE DEF x
  <2>2. QED
    BY <1>1, <1>6, <2>1 DEF Handle
<1>9. x.len \in Nat
  BY <1>1, <1>6
<1>10. x \in Rounds
  <2> HIDE DEF sec
  <2>1. x = [file |-> x.file, len |-> x.len, links |-> x.links, dirty |-> x.dirty,
             sector |-> x.sector, put |-> x.put, full |-> x.full]
    BY <1>2 DEF Rounds
  <2> HIDE DEF x
  <2>2. QED
    BY <1>5, <1>6, <1>7, <1>8, <1>9, <2>1 DEF Rounds
<1>11. \A c \in Clusters : c # cur => x.sector[c] = w.sector[c]
  <2> HIDE DEF sec, x
  <2>1. QED
    BY <1>1, <1>6 DEF Sectors
<1>12. x.sector[cur] = sec
  <2> HIDE DEF sec, x
  <2>1. QED
    BY <1>1, <1>6 DEF Sectors
<1>13. \A i \in 0 .. SectorSize - 1 :
          x.sector[cur][i] = IF i \in off .. off + n - 1 THEN <<name, Len(w.put) + (i - off)>>
                             ELSE w.sector[cur][i]
  <2>1. \A i \in Int : Len(w.put) + i - off = Len(w.put) + (i - off)
    BY <1>1
  <2> HIDE DEF x
  <2>2. QED
    BY <1>12, <2>1
<1> HIDE DEF x
<1>14. QED
  BY <1>6, <1>10, <1>11, <1>13 DEF FilledAs, off, x

LEMMA FilledFollows ==
    ASSUME NEW w, NEW v \in Rounds, NEW others, NEW lost, Follows(w, v, others, lost),
           w.file.cur # 0, NEW name \in Names, NEW n \in 1 .. w.len,
           n <= SectorSize - (w.file.pos % SectorSize)
    PROVE  Follows(Filled(w, name, n), v, others, lost)
<1> DEFINE x == Filled(w, name, n)
           f == w.file
           links == w.links
           a == f.first
           heads == others \cup ({a} \cap Clusters)
<1>1. w \in Rounds /\ f \in Handle /\ Held(links, heads, lost) /\ AtTheEnd(links, f)
  BY DEF Follows, Rounds
<1>2. f.cur \in Clusters
  BY <1>1 DEF Handle
<1>3. /\ x \in Rounds
      /\ x.links = links /\ x.dirty = w.dirty
      /\ x.put = w.put \o NewUnits(name, w, n)
      /\ x.file = [f EXCEPT !.pos = @ + n, !.size = IF f.pos + n > @ THEN f.pos + n ELSE @]
      /\ \A c \in Clusters : c # f.cur => x.sector[c] = w.sector[c]
  <2>1. FilledAs(x, w, name, n)
    BY <1>1, <1>2, FilledFields
  <2> HIDE DEF x
  <2>2. QED
    BY <2>1 DEF FilledAs
<1> HIDE DEF x
<1>4. f.cur \in Body(links, a)
  <2>1. f.first \in Clusters => f.first \in heads
    OBVIOUS
  <2> HIDE DEF heads, links, f
  <2>2. f.cur # 0
    BY DEF f
  <2>3. f.cur \in Body(links, f.first)
    BY <1>1, <2>1, <2>2, EndOfChain
  <2>4. QED
    BY <2>3
<1>5. /\ f.pos \in Nat /\ f.size = f.pos /\ Len(w.put) = f.pos
      /\ w.put \in Seq(Units) /\ n \in Nat \ {0}
      /\ w.len \in Nat
  BY <1>1 DEF Follows, Handle, Rounds
<1>6. x.file = [f EXCEPT !.pos = f.pos + n, !.size = f.pos + n]
  <2>1. f.pos + n > f.size
    BY <1>5
  <2> HIDE DEF f
  <2>2. QED
    BY <1>1, <1>3, <2>1 DEF Handle
<1>7. /\ x.file.first = a /\ x.file.cur = f.cur /\ x.file.mode = f.mode /\ x.file.slot = f.slot
      /\ x.file.pos = f.pos + n /\ x.file.size = f.pos + n
  <2> HIDE DEF f
  <2>1. QED
    BY <1>1, <1>6 DEF Handle
<1>8. Len(x.put) = f.pos + n
  <2>1. NewUnits(name, w, n) \in Seq(Units) /\ Len(NewUnits(name, w, n)) = n
    <3>1. \A i \in 1 .. n : Len(w.put) + i - 1 \in Nat
      BY <1>5
    <3>2. NewUnits(name, w, n) \in [1 .. n -> Units]
      BY <3>1 DEF NewUnits, Units
    <3>3. QED
      BY <1>5, <3>2
  <2>2. QED
    BY <1>3, <1>5, <2>1
<1>9. \A c \in Clusters : c \notin Body(links, a) => x.sector[c] = v.sector[c]
  BY <1>3, <1>4 DEF Follows
<1>10. AtTheEnd(x.links, x.file)
  <2> HIDE DEF f, links
  <2>1. QED
    BY <1>1, <1>3, <1>7 DEF AtTheEnd
<1>11. QED
  BY <1>3, <1>7, <1>8, <1>9, <1>10 DEF Follows, x

\* The sector has room, and so has the round.
LEMMA RoundSize ==
    ASSUME NEW p \in Nat, NEW len \in Nat \ {0}
    PROVE  LET n == Min({SectorSize - (p % SectorSize), len})
           IN  /\ n \in 1 .. len /\ n <= SectorSize - (p % SectorSize)
               /\ n = len \/ n = SectorSize - (p % SectorSize)
<1> DEFINE r == SectorSize - (p % SectorSize)
<1>1. p % SectorSize \in 0 .. SectorSize - 1
  BY ModRange, Fat12Assumption
<1>2. r \in Nat \ {0}
  <2> DEFINE q == p % SectorSize
  <2>1. q \in 0 .. SectorSize - 1
    BY <1>1
  <2> HIDE DEF q
  <2>2. SectorSize - q \in Nat \ {0}
    BY <2>1, Fat12Assumption
  <2>3. QED
    BY <2>2 DEF q
<1> HIDE DEF r
<1>3. Min({r, len}) \in {r, len} /\ \A k \in {r, len} : Min({r, len}) <= k
  BY <1>2, MinOf
<1> DEFINE n == Min({r, len})
<1>4. (n = r \/ n = len) /\ n <= r /\ n <= len
  BY <1>3
<1> HIDE DEF n
<1>5. n \in 1 .. len
  BY <1>2, <1>4
<1>6. QED
  BY <1>4, <1>5 DEF n, r

LEMMA WriteRoundFollows ==
    ASSUME NEW w, NEW v \in Rounds, NEW others, NEW lost, Follows(w, v, others, lost),
           NEW name \in Names, w.len > 0, ~w.full
    PROVE  Follows(WriteRound(w, name), v, others, lost)
<1> DEFINE ready == IF w.file.cur = 0 THEN Allocate(w) ELSE w
           n == Min({SectorSize - (ready.file.pos % SectorSize), ready.len})
           filled == Filled(ready, name, n)
<1>1. w \in Rounds /\ w.len \in Nat \ {0}
  BY DEF Follows, Rounds
<1>2. Follows(ready, v, others, lost)
  BY AllocateFollows
<1>3. ready \in Rounds
  BY <1>2 DEF Follows
<1>4. ready.full \/ (ready.file.cur # 0 /\ ready.len = w.len)
  <2>1. CASE w.file.cur # 0
    BY <2>1
  <2>2. CASE w.file.cur = 0 /\ FreeIn(w.links) = {}
    BY <1>1, <2>2 DEF Allocate, Rounds
  <2>3. CASE w.file.cur = 0 /\ FreeIn(w.links) # {}
    <3> DEFINE d == Min(FreeIn(w.links))
    <3>1. /\ Allocate(w).len = w.len
          /\ Allocate(w).file = [w.file EXCEPT !.first = IF w.file.cur = 0 THEN d ELSE @, !.cur = d]
      BY <1>1, <2>3, AllocateFields
    <3>2. w.links \in Fats /\ w.file \in Handle
      BY <1>1 DEF Rounds
    <3>3. d \in Clusters
      BY <2>3, <3>2, FirstFree
    <3>4. d # 0
      <4> HIDE DEF d
      <4>1. QED
        BY <3>3 DEF Clusters
    <3>5. Allocate(w).file.cur = d
      BY <3>1, <3>2 DEF Handle
    <3>6. QED
      BY <2>3, <3>1, <3>4, <3>5
  <2>4. QED
    BY <2>1, <2>2, <2>3
<1> HIDE DEF ready
<1>5. CASE ready.full
  BY <1>2, <1>5 DEF WriteRound, ready
<1>6. CASE ~ready.full
  <2>1. ready.file.pos \in Nat /\ ready.len \in Nat \ {0} /\ ready.file.cur # 0
    BY <1>1, <1>3, <1>4, <1>6 DEF Rounds, Handle
  <2>2. n \in 1 .. ready.len /\ n <= SectorSize - (ready.file.pos % SectorSize)
    BY <2>1, RoundSize
  <2> HIDE DEF n
  <2>3. Follows(filled, v, others, lost)
    BY <1>2, <2>1, <2>2, FilledFollows
  <2>4. Follows(Allocate(filled), v, others, lost)
    BY <2>3, AllocateFollows
  <2>5. QED
    BY <1>6, <2>3, <2>4 DEF WriteRound, ready, n
<1>7. QED
  BY <1>5, <1>6

\* The rounds of a write, from a start in S with S closed under a round.
LEMMA WrittenRounds ==
    ASSUME NEW S, NEW start \in S, start.len \in Nat, NEW name,
           \A w \in S : w.len > 0 /\ ~w.full => WriteRound(w, name) \in S
    PROVE  \E after \in [0 .. start.len -> S] :
              /\ after[0] = start
              /\ \A k \in 1 .. start.len :
                    after[k] = IF after[k - 1].len > 0 /\ ~after[k - 1].full
                               THEN WriteRound(after[k - 1], name) ELSE after[k - 1]
              /\ Written(start, name) = after[start.len]
<1> DEFINE n == start.len
           round(w) == IF w.len > 0 /\ ~w.full THEN WriteRound(w, name) ELSE w
           Loop(f) == f = [k \in 0 .. n |-> IF k = 0 THEN start ELSE round(f[k - 1])]
           after == CHOOSE f : Loop(f)
           g == [k \in 1 .. n |-> [w \in S |-> round(w)]]
<1>1. \A w \in S : round(w) \in S
  OBVIOUS
<1>2. n \in Nat
  OBVIOUS
<1> HIDE DEF n, round
<1>3. g \in Steps(n, S)
  BY <1>1 DEF Steps
<1>4. PICK f \in [0 .. n -> S] : Iterates(f, n, start, g)
  <2> HIDE DEF g
  <2>1. QED
    BY <1>2, <1>3, Recursion
<1>5. f[0] = start /\ \A k \in 1 .. n : f[k] = round(f[k - 1])
  <2>1. \A k \in 1 .. n : k - 1 \in 0 .. n
    BY <1>2
  <2>2. QED
    BY <1>4, <2>1 DEF Iterates
<1>6. Loop(f)
  <2>1. \A k \in 0 .. n : k = 0 \/ k \in 1 .. n
    BY <1>2
  <2>2. QED
    BY <1>5, <2>1
<1>7. Loop(after)
  <2> HIDE DEF Loop
  <2>1. QED
    BY <1>6
<1>8. Written(start, name) = after[n]
  BY DEF Written, round, n
<1> HIDE DEF after
<1>9. after[0] = start /\ \A k \in 1 .. n : after[k] = round(after[k - 1])
  <2>1. \A k \in 0 .. n : after[k] = IF k = 0 THEN start ELSE round(after[k - 1])
    BY <1>7
  <2>2. QED
    BY <1>2, <2>1
<1> DEFINE A == {k \in 0 .. n : after[k] \in S}
<1>10. 0 \in A /\ \A k \in 1 .. n : k - 1 \in A => k \in A
  BY <1>1, <1>2, <1>9
<1>11. \A k \in 0 .. n : k \in A
  <2> HIDE DEF A
  <2>1. QED
    BY <1>2, <1>10, UpTo
<1>12. after \in [0 .. n -> S]
  <2>1. after = [k \in 0 .. n |-> after[k]]
    BY <1>7
  <2>2. QED
    BY <1>11, <2>1
<1>13. QED
  BY <1>8, <1>9, <1>12 DEF n, round

LEMMA WrittenStays ==
    ASSUME NEW S, NEW start \in S, start.len \in Nat, NEW name,
           \A w \in S : w.len > 0 /\ ~w.full => WriteRound(w, name) \in S
    PROVE  Written(start, name) \in S
<1> DEFINE n == start.len
<1>1. PICK after \in [0 .. n -> S] :
              /\ after[0] = start
              /\ \A k \in 1 .. n :
                    after[k] = IF after[k - 1].len > 0 /\ ~after[k - 1].full
                               THEN WriteRound(after[k - 1], name) ELSE after[k - 1]
              /\ Written(start, name) = after[n]
  BY WrittenRounds
<1>2. n \in 0 .. n
  OBVIOUS
<1> HIDE DEF n
<1>3. QED
  BY <1>1, <1>2

----------------------------------------------------------------------------
(* FAT12: each call keeps the invariant *)

\* Where the files other than h's start.
Others(h) == DirHeads \cup ({file[g].first : g \in Writers \ {h}} \cap Clusters)

LEMMA FatType == ASSUME FatInv PROVE Fat \in Fats
  BY DEF FatInv, FatTypeOK, Fat, Fats

LEMMA HeadsSplit ==
    ASSUME FatInv, NEW h \in Writers
    PROVE  /\ DirHeads \cup WriterHeads = Others(h) \cup ({file[h].first} \cap Clusters)
           /\ file[h].first \notin Others(h)
           /\ \A s \in Named : dir[s].first \in Clusters => dir[s].first \in Others(h)
           /\ \A g \in Writers \ {h} : file[g].first \in Clusters => file[g].first \in Others(h)
<1>1. DirHeads \cup WriterHeads = Others(h) \cup ({file[h].first} \cap Clusters)
  BY DEF Others, WriterHeads
<1>2. 0 \notin Clusters
  BY DEF Clusters
<1>3. file[h].first \notin Others(h)
  BY <1>2 DEF FatInv, HeadsDiffer, Others, DirHeads
<1>4. QED
  BY <1>1, <1>3 DEF Others, DirHeads

\* What fat12_write starts its rounds from.
WriteFrom(h, len) ==
    [file |-> file[h], len |-> len, links |-> Fat, dirty |-> dirty,
     sector |-> sector, put |-> moved[h], full |-> FALSE]

LEMMA WriteStarts ==
    ASSUME FatInv, NEW h \in Writers, NEW len \in Nat
    PROVE  LET v == WriteFrom(h, len)
           IN  v \in Rounds /\ Follows(v, v, Others(h), orphans)
<1> DEFINE v == WriteFrom(h, len)
<1>1. /\ v.file = file[h] /\ v.len = len /\ v.links = Fat /\ v.dirty = dirty
      /\ v.sector = sector /\ v.put = moved[h] /\ v.full = FALSE
  BY DEF WriteFrom
<1>2. v \in Rounds
  <2>1. file[h] \in Handle /\ dirty \in BOOLEAN /\ sector \in Sectors /\ moved[h] \in Seq(Units)
    BY DEF FatInv, FatTypeOK, HistoryOK, Writers, Sectors
  <2>2. Fat \in Fats
    BY FatType
  <2>3. QED
    BY <2>1, <2>2 DEF Rounds, WriteFrom
<1> HIDE DEF v
<1>3. Held(Fat, Others(h) \cup ({file[h].first} \cap Clusters), orphans)
      /\ file[h].first \notin Others(h)
  BY HeadsSplit DEF FatInv
<1>4. AtTheEnd(Fat, file[h]) /\ file[h].size = file[h].pos /\ Len(moved[h]) = file[h].pos
  BY DEF FatInv, WritersApart
<1>5. Follows(v, v, Others(h), orphans)
  BY <1>1, <1>2, <1>3, <1>4 DEF Follows
<1>6. QED
  BY <1>2, <1>5 DEF v

LEMMA WriteEnds ==
    ASSUME FatInv, NEW h \in Writers, NEW len \in Nat, NEW name \in Names
    PROVE  LET v == WriteFrom(h, len)
           IN  Follows(Written(v, name), v, Others(h), orphans)
<1> DEFINE v == WriteFrom(h, len)
           S == {w \in Rounds : Follows(w, v, Others(h), orphans)}
<1>1. v \in Rounds /\ v \in S /\ v.len = len
  <2>1. v \in Rounds /\ Follows(v, v, Others(h), orphans)
    BY WriteStarts
  <2>2. v.len = len
    BY DEF WriteFrom
  <2>3. QED
    BY <2>1, <2>2
<1> HIDE DEF v
<1>2. \A w \in S : w.len > 0 /\ ~w.full => WriteRound(w, name) \in S
  <2> SUFFICES ASSUME NEW w \in S, w.len > 0, ~w.full
               PROVE  WriteRound(w, name) \in S
    OBVIOUS
  <2> DEFINE x == WriteRound(w, name)
  <2>1. Follows(w, v, Others(h), orphans)
    OBVIOUS
  <2>2. Follows(x, v, Others(h), orphans)
    BY <1>1, <2>1, WriteRoundFollows
  <2> HIDE DEF x
  <2>3. x \in Rounds
    BY <2>2 DEF Follows
  <2>4. QED
    BY <2>2, <2>3 DEF x
<1> HIDE DEF S
<1>3. Written(v, name) \in S
  BY <1>1, <1>2, WrittenStays
<1>4. QED
  BY <1>3 DEF S, v

\* What a write has done, with the round w it ended in.
WriteDone(h, w) ==
    /\ Follows(w, WriteFrom(h, w.len), Others(h), orphans)
    /\ file' = [file EXCEPT ![h] = w.file]
    /\ sector' = w.sector /\ cache' = w.links /\ loaded' = TRUE /\ dirty' = w.dirty
    /\ moved' = [moved EXCEPT ![h] = w.put]
    /\ UNCHANGED <<fat, dir, stored, orphans>>

LEMMA WriteIsDone ==
    ASSUME FatInv, NEW h \in Handles, fat12_write(h)
    PROVE  h \in Writers /\ \E len \in Lengths :
              WriteDone(h, Written(WriteFrom(h, len), dir[file[h].slot].name))
<1>1. h \in Writers
  BY DEF fat12_write, Writers, Writes
<1>2. dir[file[h].slot].name \in Names
  BY <1>1 DEF FatInv, WritersApart, Named
<1> DEFINE name == dir[file[h].slot].name
           e(len) == Written(WriteFrom(h, len), name)
<1>3. PICK len \in Lengths :
            /\ file' = [file EXCEPT ![h] = e(len).file]
            /\ sector' = e(len).sector
            /\ cache' = e(len).links /\ loaded' = TRUE /\ dirty' = e(len).dirty
            /\ moved' = [moved EXCEPT ![h] = e(len).put]
            /\ UNCHANGED <<fat, dir, stored, orphans>>
  <2> HIDE DEF name
  <2>1. QED
    BY DEF fat12_write, WriteFrom, name
<1>4. len \in Nat
  BY Fat12Assumption
<1> DEFINE w == e(len)
           v == WriteFrom(h, len)
<1>5. Follows(w, v, Others(h), orphans)
  <2> HIDE DEF name
  <2>1. QED
    BY <1>1, <1>2, <1>4, WriteEnds DEF name
<1>6. Follows(w, WriteFrom(h, w.len), Others(h), orphans)
  <2> DEFINE u == WriteFrom(h, w.len)
  <2>1. /\ u.file = v.file /\ u.dirty = v.dirty /\ u.links = v.links /\ u.sector = v.sector
    BY DEF WriteFrom
  <2> HIDE DEF u, v, w
  <2>2. QED
    BY <1>5, <2>1 DEF Follows, u
<1> HIDE DEF w
<1>7. QED
  BY <1>1, <1>3, <1>6 DEF WriteDone, w

LEMMA WriteKeeps ==
    ASSUME FatInv, NEW h \in Writers, NEW w, WriteDone(h, w)
    PROVE  FatInv'
<1> DEFINE v == WriteFrom(h, w.len)
           a == w.file.first
           others == Others(h)
<1>1. v.file = file[h] /\ v.links = Fat /\ v.dirty = dirty /\ v.sector = sector
  BY DEF WriteFrom
<1>2. Follows(w, v, others, orphans) /\ h \in Handles
  BY DEF WriteDone, Writers
<1>3. w \in Rounds /\ w.file \in Handle /\ w.file.mode = "writes" /\ w.file.slot = file[h].slot
  BY <1>1, <1>2 DEF Follows, Rounds, Writers, Writes
<1>4. /\ Fat' = w.links /\ file' = [file EXCEPT ![h] = w.file] /\ dirty' = w.dirty
      /\ UNCHANGED <<fat, dir, stored, orphans>>
      /\ moved' = [moved EXCEPT ![h] = w.put] /\ sector' = w.sector
      /\ cache' = w.links /\ loaded' = TRUE
  BY DEF WriteDone, Fat
<1>5. file \in [Handles -> Handle] /\ moved \in [Handles -> Seq(Units)]
  BY DEF FatInv, FatTypeOK, HistoryOK
<1>6. file'[h] = w.file /\ moved'[h] = w.put
      /\ \A g \in Handles : g # h => file'[g] = file[g] /\ moved'[g] = moved[g]
  BY <1>2, <1>4, <1>5
<1> HIDE DEF v, others
<1>7. Writers' = Writers /\ Named' = Named /\ DirHeads' = DirHeads
  <2>1. Writers' = Writers
    BY <1>2, <1>3, <1>6 DEF Writers, Writes
  <2>2. QED
    BY <1>4, <2>1 DEF Named, DirHeads
<1>8. (DirHeads \cup WriterHeads)' = others \cup ({a} \cap Clusters)
  <2>1. WriterHeads' = ({file[g].first : g \in Writers \ {h}} \cap Clusters)
                         \cup ({a} \cap Clusters)
    BY <1>6, <1>7 DEF WriterHeads, Writers
  <2>2. QED
    BY <1>7, <2>1 DEF Others, others
<1>9. FatTypeOK'
  <2>1. w.links \in [Clusters -> Links] /\ w.dirty \in BOOLEAN
        /\ w.sector \in [Clusters -> [0 .. SectorSize - 1 -> Units]]
    BY <1>3 DEF Rounds, Fats, Sectors
  <2>2. file' \in [Handles -> Handle]
    BY <1>3, <1>4, <1>5
  <2>3. QED
    BY <1>4, <2>1, <2>2 DEF FatInv, FatTypeOK
<1>10. HistoryOK'
  BY <1>3, <1>4 DEF FatInv, HistoryOK, Rounds
<1>11. Held(Fat, DirHeads \cup WriterHeads, orphans)'
  BY <1>2, <1>4, <1>8 DEF Follows
<1>12. /\ \A s \in Named : dir[s].first \in Clusters => dir[s].first \in others
       /\ \A g \in Writers \ {h} : file[g].first \in Clusters => file[g].first \in others
  BY HeadsSplit DEF others
<1>13. a \notin others /\ a \in Clusters \cup {0}
  BY <1>2, <1>3 DEF Follows, Handle
<1>14. HeadsDiffer'
  <2>1. HeadsDiffer /\ Writers \subseteq Handles
    BY DEF FatInv, Writers
  <2> HIDE DEF a
  <2>2. file'[h].first = a
    BY <1>6 DEF a
  <2>3. QED
    BY <1>4, <1>6, <1>7, <1>12, <1>13, <2>1, <2>2 DEF HeadsDiffer
<1>15. ASSUME NEW g \in Writers \ {h}
       PROVE  Chain(Fat', file[g].first) = Chain(Fat, file[g].first)
  <2>1. file[g].first \in Clusters => file[g].first \in others
    BY <1>12
  <2>2. Fat' \in Fats /\ Fat \in Fats
    BY <1>3, <1>4, FatType DEF Rounds
  <2>3. CASE file[g].first \in Clusters
    BY <1>1, <1>2, <1>4, <2>1, <2>3 DEF Follows
  <2>4. CASE file[g].first \notin Clusters
    BY <2>2, <2>4, ChainEmpty DEF Fats
  <2>5. QED
    BY <2>3, <2>4
<1>16. CopiesAgree'
  <2>1. CopiesAgree
    BY DEF FatInv
  <2>2. (fat[1] = fat[2])' /\ (dirty => loaded)'
    BY <1>4, <2>1 DEF CopiesAgree
  <2>3. \A c \in Clusters : Fat'[c] # Fat[c] => w.dirty /\ c \in Body(Fat', a)
    BY <1>1, <1>2, <1>4 DEF Follows
  <2>4. (~dirty => Fat = fat[1])'
    <3>1. Fat' \in Fats /\ Fat \in Fats
      BY <1>3, <1>4, FatType DEF Rounds
    <3>2. ~w.dirty => Fat' = Fat
      BY <2>3, <3>1 DEF Fats
    <3>3. dirty => w.dirty
      BY <1>1, <1>2 DEF Follows
    <3>4. QED
      BY <1>4, <2>1, <3>2, <3>3 DEF CopiesAgree
  <2>5. ASSUME NEW c \in Clusters, fat[1][c] # Fat'[c]
        PROVE  \E g \in Writers : c \in Body(Fat', file'[g].first)
    <3>1. CASE Fat'[c] # Fat[c]
      BY <1>6, <2>3, <3>1
    <3>2. CASE Fat'[c] = Fat[c]
      <4>1. PICK g \in Writers : c \in Body(Fat, file[g].first)
        BY <2>1, <2>5, <3>2 DEF CopiesAgree
      <4>2. CASE g = h
        <5>1. Body(Fat, file[h].first) \subseteq Body(Fat', a)
          BY <1>1, <1>2, <1>4 DEF Follows
        <5>2. QED
          BY <1>6, <4>1, <4>2, <5>1
      <4>3. CASE g # h
        BY <1>6, <1>15, <4>1, <4>3 DEF Body, Writers
      <4>4. QED
        BY <4>2, <4>3
    <3>3. QED
      BY <3>1, <3>2
  <2>6. QED
    BY <1>4, <1>7, <2>2, <2>4, <2>5 DEF CopiesAgree
<1>17. UsedFirst'
  BY <1>4 DEF FatInv, UsedFirst
<1>18. WritersApart'
  <2>1. WritersApart
    BY DEF FatInv
  <2>2. \A g \in Writers : file'[g].slot = file[g].slot
    BY <1>3, <1>6 DEF Writers
  <2>3. ASSUME NEW g \in Writers
        PROVE  AtTheEnd(Fat', file'[g]) /\ file'[g].size = file'[g].pos
               /\ Len(moved'[g]) = file'[g].pos
    <3>1. CASE g = h
      BY <1>2, <1>4, <1>6, <3>1 DEF Follows
    <3>2. CASE g # h
      <4>1. file'[g] = file[g] /\ moved'[g] = moved[g] /\ AtTheEnd(Fat, file[g])
        BY <1>6, <2>1, <3>2 DEF WritersApart, Writers
      <4>2. AtTheEnd(Fat', file[g])
        BY <1>15, <3>2, <4>1 DEF AtTheEnd
      <4>3. QED
        BY <2>1, <4>1, <4>2 DEF WritersApart
    <3>3. QED
      BY <3>1, <3>2
  <2>4. QED
    BY <1>4, <1>7, <2>1, <2>2, <2>3 DEF WritersApart
<1>19. ReadersFind'
  BY <1>3, <1>6, <1>7 DEF FatInv, ReadersFind
<1>20. QED
  BY <1>9, <1>10, <1>11, <1>14, <1>16, <1>17, <1>18, <1>19 DEF FatInv

----------------------------------------------------------------------------
(* FAT12: one round of a read *)

Readings == [file : Handle, len : Nat, got : Seq(Units), more : BOOLEAN, loaded : BOOLEAN]

\* What keeps fat12_read's loop going.
GoesOn(r) == r.len > 0 /\ r.file.pos < r.file.size /\ r.file.cur >= 2 /\ r.more

\* The n units a reader takes from the sector it stands in, and the cluster it
\* goes on to.
Taken(r, n) == [i \in 1 .. n |-> sector[r.file.cur][(r.file.pos % SectorSize) + i - 1]]
Onward(r, n) == IF (r.file.pos + n) % SectorSize = 0 THEN Fat[r.file.cur] ELSE r.file.cur

\* x is r with n more units.
TakenAs(x, r, n) ==
    /\ x \in Readings
    /\ n \in 1 .. r.len /\ n <= SectorSize - (r.file.pos % SectorSize)
    /\ n <= r.file.size - r.file.pos
    /\ x.len = r.len - n /\ x.got = r.got \o Taken(r, n) /\ Taken(r, n) \in Seq(Units)
    /\ Len(Taken(r, n)) = n
    /\ x.file.mode = r.file.mode /\ x.file.first = r.file.first
    /\ x.file.size = r.file.size /\ x.file.slot = r.file.slot
    /\ x.file.pos = r.file.pos + n
    /\ x.file.cur = IF Onward(r, n) \in Clusters THEN Onward(r, n) ELSE r.file.cur
    /\ x.more = (Onward(r, n) \in Clusters)
    /\ r.loaded => x.loaded

LEMMA LeastOfThree ==
    ASSUME NEW a \in Nat \ {0}, NEW b \in Nat \ {0}, NEW c \in Nat \ {0}
    PROVE  Min({a, b, c}) \in Nat \ {0} /\ Min({a, b, c}) <= a /\ Min({a, b, c}) <= b
           /\ Min({a, b, c}) <= c
<1> DEFINE A == {a, b, c}
<1>1. A \in SUBSET Nat /\ A # {} /\ a \in A /\ b \in A /\ c \in A /\ A \subseteq Nat \ {0}
  OBVIOUS
<1> HIDE DEF A
<1>2. Min(A) \in A /\ \A k \in A : Min(A) <= k
  BY <1>1, MinOf
<1>3. QED
  BY <1>1, <1>2 DEF A

LEMMA ReadFields ==
    ASSUME FatInv, NEW r \in Readings, GoesOn(r)
    PROVE  \E n : TakenAs(ReadRound(r), r, n)
<1> DEFINE f == r.file
           off == f.pos % SectorSize
           n == Min({SectorSize - off, f.size - f.pos, r.len})
           next == Onward(r, n)
           x == ReadRound(r)
<1>1. f \in Handle /\ f.pos \in Nat /\ f.size \in Nat /\ r.len \in Nat \ {0} /\ f.pos < f.size
      /\ f.cur \in Clusters
  BY DEF Readings, Handle, GoesOn
<1>2. off \in 0 .. SectorSize - 1
  <2> DEFINE p == f.pos
  <2>1. p \in Int
    BY <1>1
  <2> HIDE DEF p
  <2>2. p % SectorSize \in 0 .. SectorSize - 1
    BY <2>1, ModRange, Fat12Assumption
  <2>3. QED
    BY <2>2 DEF p
<1>3. x = [file |-> [f EXCEPT !.pos = @ + n, !.cur = IF next \in Clusters THEN next ELSE @],
           len |-> r.len - n, got |-> r.got \o Taken(r, n), more |-> next \in Clusters,
           loaded |-> r.loaded \/ (f.pos + n) % SectorSize = 0]
  BY DEF ReadRound, Taken, Onward
<1>4. n \in 1 .. r.len /\ n <= SectorSize - off /\ n <= f.size - f.pos
  <2> DEFINE a == SectorSize - off
             b == f.size - f.pos
             c == r.len
             m == Min({a, b, c})
  <2>1. a \in Nat \ {0} /\ b \in Nat \ {0} /\ c \in Nat \ {0}
    <3> HIDE DEF off
    <3>1. QED
      BY <1>1, <1>2, Fat12Assumption
  <2>2. m = n
    OBVIOUS
  <2> HIDE DEF a, b, c
  <2>3. m \in Nat \ {0} /\ m <= a /\ m <= b /\ m <= c
    BY <2>1, LeastOfThree
  <2> HIDE DEF m, n
  <2>4. n \in Nat \ {0} /\ n <= a /\ n <= b /\ n <= c
    BY <2>2, <2>3
  <2>5. n \in 1 .. c
    BY <2>1, <2>4
  <2>6. QED
    BY <2>4, <2>5 DEF a, b, c
<1> HIDE DEF n
<1>5. Taken(r, n) \in Seq(Units) /\ Len(Taken(r, n)) = n
  <2>1. sector[f.cur] \in [0 .. SectorSize - 1 -> Units]
    BY <1>1 DEF FatInv, FatTypeOK
  <2>2. \A i \in 1 .. n : off + i - 1 \in 0 .. SectorSize - 1
    <3> HIDE DEF off
    <3>1. n \in Nat
      BY <1>1, <1>4
    <3> HIDE DEF f
    <3>2. QED
      BY <1>2, <1>4, <3>1, Fat12Assumption
  <2>3. Taken(r, n) \in [1 .. n -> Units]
    BY <2>1, <2>2 DEF Taken
  <2>4. QED
    BY <1>4, <2>3
<1> HIDE DEF off
<1>6. next \in Links /\ (next \in Clusters => next \in Clusters \cup {0})
  BY <1>1, FatType DEF Onward, Fats, Links
<1> HIDE DEF next
<1>7. x.file \in Handle
  <2>1. f.pos + n \in Nat
    BY <1>1, <1>4
  <2>2. x.file = [f EXCEPT !.pos = f.pos + n, !.cur = IF next \in Clusters THEN next ELSE f.cur]
    BY <1>1, <1>3 DEF Handle
  <2> HIDE DEF f, x
  <2>3. QED
    BY <1>1, <2>1, <2>2 DEF Handle
<1>8. r.got \o Taken(r, n) \in Seq(Units)
  BY <1>5 DEF Readings
<1>9. r.len - n \in Nat
  BY <1>1, <1>4
<1> DEFINE more == next \in Clusters
           known == r.loaded \/ (f.pos + n) % SectorSize = 0
<1>10. more \in BOOLEAN /\ known \in BOOLEAN /\ (r.loaded => known)
  OBVIOUS
<1>11. /\ x.len = r.len - n /\ x.got = r.got \o Taken(r, n) /\ x.more = more /\ x.loaded = known
       /\ x.file = [f EXCEPT !.pos = f.pos + n, !.cur = IF next \in Clusters THEN next ELSE f.cur]
       /\ x = [file |-> x.file, len |-> x.len, got |-> x.got, more |-> x.more,
               loaded |-> x.loaded]
  BY <1>1, <1>3 DEF Handle
<1> HIDE DEF x, more, known
<1>12. x \in Readings
  BY <1>7, <1>8, <1>9, <1>10, <1>11 DEF Readings
<1>13. r.loaded => x.loaded
  BY <1>10, <1>11
<1>14. /\ x.file.mode = f.mode /\ x.file.first = f.first
       /\ x.file.size = f.size /\ x.file.slot = f.slot
       /\ x.file.pos = f.pos + n
       /\ x.file.cur = IF next \in Clusters THEN next ELSE f.cur
  <2> HIDE DEF f
  <2>1. QED
    BY <1>1, <1>11 DEF Handle
<1>15. TakenAs(x, r, n)
  BY <1>4, <1>5, <1>11, <1>14, <1>12, <1>13 DEF TakenAs, next, off, more
<1>16. QED
  BY <1>15 DEF x

\* The rounds of a read, from a start in S with S closed under a round.
LEMMA ReadRounds ==
    ASSUME NEW S, NEW start \in S, start.len \in Nat,
           \A r \in S : GoesOn(r) => ReadRound(r) \in S
    PROVE  \E after \in [0 .. start.len -> S] :
              /\ after[0] = start
              /\ \A k \in 1 .. start.len :
                    after[k] = IF GoesOn(after[k - 1]) THEN ReadRound(after[k - 1])
                               ELSE after[k - 1]
              /\ ReadOf(start) = after[start.len]
<1> DEFINE n == start.len
           round(r) == IF GoesOn(r) THEN ReadRound(r) ELSE r
           Loop(f) == f = [k \in 0 .. n |-> IF k = 0 THEN start ELSE round(f[k - 1])]
           after == CHOOSE f : Loop(f)
           g == [k \in 1 .. n |-> [r \in S |-> round(r)]]
<1>1. \A r \in S : round(r) \in S
  OBVIOUS
<1>2. n \in Nat
  OBVIOUS
<1> HIDE DEF n, round
<1>3. g \in Steps(n, S)
  BY <1>1 DEF Steps
<1>4. PICK f \in [0 .. n -> S] : Iterates(f, n, start, g)
  <2> HIDE DEF g
  <2>1. QED
    BY <1>2, <1>3, Recursion
<1>5. f[0] = start /\ \A k \in 1 .. n : f[k] = round(f[k - 1])
  <2>1. \A k \in 1 .. n : k - 1 \in 0 .. n
    BY <1>2
  <2>2. QED
    BY <1>4, <2>1 DEF Iterates
<1>6. Loop(f)
  <2>1. \A k \in 0 .. n : k = 0 \/ k \in 1 .. n
    BY <1>2
  <2>2. QED
    BY <1>5, <2>1
<1>7. Loop(after)
  <2> HIDE DEF Loop
  <2>1. QED
    BY <1>6
<1>8. ReadOf(start) = after[n]
  BY DEF ReadOf, round, n, GoesOn
<1> HIDE DEF after
<1>9. after[0] = start /\ \A k \in 1 .. n : after[k] = round(after[k - 1])
  <2>1. \A k \in 0 .. n : after[k] = IF k = 0 THEN start ELSE round(after[k - 1])
    BY <1>7
  <2>2. QED
    BY <1>2, <2>1
<1> DEFINE A == {k \in 0 .. n : after[k] \in S}
<1>10. 0 \in A /\ \A k \in 1 .. n : k - 1 \in A => k \in A
  BY <1>1, <1>2, <1>9
<1>11. \A k \in 0 .. n : k \in A
  <2> HIDE DEF A
  <2>1. QED
    BY <1>2, <1>10, UpTo
<1>12. after \in [0 .. n -> S]
  <2>1. after = [k \in 0 .. n |-> after[k]]
    BY <1>7
  <2>2. QED
    BY <1>11, <2>1
<1>13. QED
  BY <1>8, <1>9, <1>12 DEF n, round

LEMMA ReadStays ==
    ASSUME NEW S, NEW start \in S, start.len \in Nat,
           \A r \in S : GoesOn(r) => ReadRound(r) \in S
    PROVE  ReadOf(start) \in S
<1> DEFINE n == start.len
<1>1. PICK after \in [0 .. n -> S] :
              /\ after[0] = start
              /\ \A k \in 1 .. n :
                    after[k] = IF GoesOn(after[k - 1]) THEN ReadRound(after[k - 1])
                               ELSE after[k - 1]
              /\ ReadOf(start) = after[n]
  BY ReadRounds
<1>2. n \in 0 .. n
  OBVIOUS
<1> HIDE DEF n
<1>3. QED
  BY <1>1, <1>2

\* A read that can go on moves on.
LEMMA ReadMoves ==
    ASSUME NEW S, NEW start \in S, start.len \in Nat \ {0}, GoesOn(start),
           \A r \in S : r.file.pos \in Nat,
           \A r \in S : GoesOn(r) =>
                          LET x == ReadRound(r) IN x \in S /\ x.file.pos > r.file.pos
    PROVE  ReadOf(start).file.pos > start.file.pos
<1> DEFINE n == start.len
           p == start.file.pos
<1>1. start.len \in Nat /\ \A r \in S : GoesOn(r) => ReadRound(r) \in S
  OBVIOUS
<1>2. PICK after \in [0 .. n -> S] :
              /\ after[0] = start
              /\ \A k \in 1 .. n :
                    after[k] = IF GoesOn(after[k - 1]) THEN ReadRound(after[k - 1])
                               ELSE after[k - 1]
              /\ ReadOf(start) = after[n]
  BY <1>1, ReadRounds
<1>3. n \in Nat \ {0} /\ p \in Nat
  OBVIOUS
<1> HIDE DEF n
<1> DEFINE at(k) == after[k].file.pos
<1>4. ASSUME NEW k \in 1 .. n
      PROVE  /\ k - 1 \in 0 .. n /\ k \in 0 .. n /\ after[k - 1] \in S /\ after[k] \in S
             /\ at(k - 1) \in Nat /\ at(k) \in Nat
             /\ GoesOn(after[k - 1]) => at(k) > at(k - 1)
             /\ ~GoesOn(after[k - 1]) => at(k) = at(k - 1)
  <2> DEFINE x == after[k - 1]
             y == after[k]
  <2>1. k - 1 \in 0 .. n /\ k \in 0 .. n
    BY <1>3
  <2>2. x \in S /\ y \in S /\ y = IF GoesOn(x) THEN ReadRound(x) ELSE x
    BY <1>2, <2>1
  <2> HIDE DEF x, y
  <2>3. x.file.pos \in Nat /\ y.file.pos \in Nat
    BY <2>2
  <2>4. GoesOn(x) => y.file.pos > x.file.pos
    BY <2>2
  <2>5. ~GoesOn(x) => y.file.pos = x.file.pos
    BY <2>2
  <2>6. QED
    BY <2>1, <2>2, <2>3, <2>4, <2>5 DEF x, y
<1>5. at(0) = p /\ GoesOn(after[0])
  BY <1>2
<1> HIDE DEF p
<1>6. ReadOf(start).file.pos = at(n)
  BY <1>2
<1> HIDE DEF at
<1> DEFINE A == {k \in 0 .. n : k = 0 \/ at(k) > p}
<1>7. 0 \in A
  BY <1>3
<1>8. ASSUME NEW k \in 1 .. n, k - 1 \in A
      PROVE  k \in A
  <2>1. /\ k \in 0 .. n /\ at(k - 1) \in Nat /\ at(k) \in Nat
        /\ GoesOn(after[k - 1]) => at(k) > at(k - 1)
        /\ ~GoesOn(after[k - 1]) => at(k) = at(k - 1)
    BY <1>4, Zenon
  <2>2. CASE k = 1
    <3>1. k - 1 = 0
      BY <2>2
    <3>2. QED
      BY <1>3, <1>5, <2>1, <3>1
  <2>3. CASE k # 1
    <3>1. at(k - 1) > p
      BY <1>8, <2>3
    <3>2. QED
      BY <1>3, <2>1, <3>1
  <2>4. QED
    BY <2>2, <2>3
<1>9. n \in A
  <2> HIDE DEF A
  <2>1. n \in Nat /\ n \in 0 .. n
    BY <1>3
  <2>2. \A k \in 0 .. n : k \in A
    BY <1>7, <1>8, <2>1, UpTo
  <2>3. QED
    BY <2>1, <2>2
<1>10. at(n) > p
  BY <1>3, <1>9
<1>11. QED
  BY <1>6, <1>10 DEF p

\* A read from h that is about to begin.
ReadFrom(h, len) ==
    [file |-> file[h], len |-> len, got |-> <<>>, more |-> TRUE, loaded |-> loaded]

\* What a read by h has done, with the round r it ended in.
SameReader(r, h) ==
    /\ r \in Readings
    /\ r.file.mode = file[h].mode /\ r.file.first = file[h].first
    /\ r.file.size = file[h].size /\ r.file.slot = file[h].slot
    /\ loaded => r.loaded

ReadDone(h, r) ==
    /\ SameReader(r, h)
    /\ file' = [file EXCEPT ![h] = r.file] /\ moved' = [moved EXCEPT ![h] = @ \o r.got]
    /\ loaded' = r.loaded /\ cache' = IF r.loaded THEN Fat ELSE cache
    /\ UNCHANGED <<fat, dir, sector, dirty, stored, orphans>>

LEMMA ReadIsDone ==
    ASSUME FatInv, NEW h \in Handles, fat12_read(h)
    PROVE  file[h].mode = "reads" /\ \E len \in Lengths : ReadDone(h, ReadOf(ReadFrom(h, len)))
<1> DEFINE v(len) == ReadFrom(h, len)
           e(len) == ReadOf(v(len))
<1>1. PICK len \in Lengths :
            /\ file' = [file EXCEPT ![h] = e(len).file]
            /\ moved' = [moved EXCEPT ![h] = @ \o e(len).got]
            /\ loaded' = e(len).loaded /\ cache' = IF e(len).loaded THEN Fat ELSE cache
            /\ UNCHANGED <<fat, dir, sector, dirty, stored, orphans>>
  BY DEF fat12_read, ReadFrom, onFlash
<1> DEFINE S == {r \in Readings : SameReader(r, h)}
           start == v(len)
<1>2. start \in S /\ start.len = len /\ len \in Nat
  <2>1. len \in Nat /\ file[h] \in Handle /\ loaded \in BOOLEAN /\ <<>> \in Seq(Units)
        /\ TRUE \in BOOLEAN
    BY Fat12Assumption DEF FatInv, FatTypeOK
  <2>2. start = [file |-> file[h], len |-> len, got |-> <<>>, more |-> TRUE, loaded |-> loaded]
    BY DEF ReadFrom
  <2> HIDE DEF start
  <2>3. start \in Readings
    BY <2>1, <2>2 DEF Readings
  <2>4. QED
    BY <2>1, <2>2, <2>3 DEF SameReader
<1> HIDE DEF start
<1>3. \A r \in S : GoesOn(r) => ReadRound(r) \in S
  <2> SUFFICES ASSUME NEW r \in S, GoesOn(r)
               PROVE  ReadRound(r) \in S
    OBVIOUS
  <2> DEFINE x == ReadRound(r)
  <2>1. PICK n : TakenAs(x, r, n)
    BY ReadFields
  <2> HIDE DEF x
  <2>2. SameReader(x, h)
    BY <2>1 DEF TakenAs, SameReader
  <2>3. QED
    BY <2>2 DEF SameReader, x
<1> HIDE DEF S
<1>4. ReadOf(start) \in S
  BY <1>2, <1>3, ReadStays
<1>5. QED
  BY <1>1, <1>4 DEF ReadDone, S, start, fat12_read

\* A handle that writes no file, before or after.
LEMMA OneHandle ==
    ASSUME FatInv, NEW h \in Handles, h \notin Writers,
           NEW f \in Handle, f.mode # "writes", f.mode = "reads" => f.slot \in Named,
           NEW u \in Seq(Units),
           file' = [file EXCEPT ![h] = f], moved' = [moved EXCEPT ![h] = u],
           Fat' = Fat, loaded => loaded', loaded' \in BOOLEAN, cache' \in Fats,
           UNCHANGED <<fat, dir, sector, dirty, stored, orphans>>
    PROVE  FatInv'
<1>1. file \in [Handles -> Handle] /\ moved \in [Handles -> Seq(Units)]
  BY DEF FatInv, FatTypeOK, HistoryOK
<1>2. file' \in [Handles -> Handle] /\ moved' \in [Handles -> Seq(Units)]
  BY <1>1
<1>3. file'[h] = f /\ \A g \in Handles : g # h => file'[g] = file[g] /\ moved'[g] = moved[g]
  BY <1>1
<1>4. Writers' = Writers /\ Writers \subseteq Handles
  BY <1>3 DEF Writers, Writes
<1>5. \A g \in Writers : file'[g] = file[g] /\ moved'[g] = moved[g]
  BY <1>3, <1>4
<1>6. Named' = Named /\ DirHeads' = DirHeads /\ WriterHeads' = WriterHeads
  BY <1>4, <1>5 DEF Named, DirHeads, WriterHeads
<1>7. FatTypeOK'
  BY <1>2 DEF FatInv, FatTypeOK, Fats
<1>8. HistoryOK'
  BY <1>2 DEF FatInv, HistoryOK
<1>9. Held(Fat, DirHeads \cup WriterHeads, orphans)'
  BY <1>6 DEF FatInv
<1>10. HeadsDiffer'
  BY <1>4, <1>5, <1>6 DEF FatInv, HeadsDiffer
<1>11. CopiesAgree'
  <2>1. CopiesAgree
    BY DEF FatInv
  <2>2. QED
    BY <1>4, <1>5, <2>1 DEF CopiesAgree
<1>12. UsedFirst'
  BY DEF FatInv, UsedFirst
<1>13. WritersApart'
  BY <1>4, <1>5, <1>6 DEF FatInv, WritersApart
<1>14. ReadersFind'
  BY <1>3, <1>6 DEF FatInv, ReadersFind
<1>15. QED
  BY <1>7, <1>8, <1>9, <1>10, <1>11, <1>12, <1>13, <1>14 DEF FatInv

LEMMA ReadKeeps ==
    ASSUME FatInv, NEW h \in Handles, file[h].mode = "reads", NEW r, ReadDone(h, r)
    PROVE  FatInv' /\ Fat' = Fat
<1>1. r \in Readings /\ r.file \in Handle /\ r.got \in Seq(Units) /\ r.loaded \in BOOLEAN
      /\ r.file.mode = "reads" /\ r.file.slot = file[h].slot /\ (loaded => r.loaded)
  BY DEF ReadDone, SameReader, Readings
<1>2. loaded \in BOOLEAN /\ moved[h] \in Seq(Units) /\ cache \in Fats
  BY DEF FatInv, FatTypeOK, HistoryOK, Fats
<1>3. Fat' = Fat
  BY <1>1, <1>2 DEF ReadDone, Fat
<1> DEFINE u == moved[h] \o r.got
<1>4. u \in Seq(Units)
  BY <1>1, <1>2
<1>5. /\ file' = [file EXCEPT ![h] = r.file] /\ moved' = [moved EXCEPT ![h] = u]
      /\ loaded' = r.loaded /\ cache' = IF r.loaded THEN Fat ELSE cache
      /\ UNCHANGED <<fat, dir, sector, dirty, stored, orphans>>
  BY DEF ReadDone
<1> HIDE DEF u
<1>6. h \notin Writers /\ r.file.slot \in Named
  BY <1>1 DEF Writers, Writes, FatInv, ReadersFind
<1>7. FatInv'
  <2>1. cache' \in Fats /\ loaded' \in BOOLEAN /\ (loaded => loaded')
    BY <1>1, <1>2, <1>5, FatType
  <2> DEFINE f == r.file
  <2>2. f \in Handle /\ f.mode # "writes" /\ (f.mode = "reads" => f.slot \in Named)
        /\ file' = [file EXCEPT ![h] = f]
    BY <1>1, <1>5, <1>6
  <2> HIDE DEF f
  <2>3. QED
    BY <1>3, <1>4, <1>5, <1>6, <2>1, <2>2, OneHandle
<1>8. QED
  BY <1>3, <1>7

LEMMA OpenKeeps ==
    ASSUME FatInv, NEW h \in Handles, NEW name \in Names, fat12_open(h, name)
    PROVE  FatInv'
<1>1. PICK s \in Slots : Found(name, s) /\ Opened(h, "reads", s, dir[s])
  BY DEF fat12_open
<1>2. UNCHANGED <<fat, dir, sector, cache, loaded, dirty, stored, orphans>>
      /\ file[h].mode = "closed"
  BY DEF fat12_open, onFlash, fatCache
<1> DEFINE f == [mode |-> "reads", first |-> dir[s].first, cur |-> dir[s].first,
                 size |-> dir[s].size, pos |-> 0, slot |-> s]
<1>3. dir[s].first \in Clusters \cup {0} /\ dir[s].size \in Nat /\ s \in Named
  BY <1>1 DEF FatInv, FatTypeOK, Found, Named
<1>4. f \in Handle /\ f.mode = "reads" /\ f.slot = s
  BY <1>3 DEF Handle
<1>5. file' = [file EXCEPT ![h] = f] /\ moved' = [moved EXCEPT ![h] = <<>>]
  BY <1>1 DEF Opened
<1> HIDE DEF f
<1>6. h \notin Writers /\ <<>> \in Seq(Units)
  BY <1>2 DEF Writers, Writes
<1>7. Fat' = Fat /\ cache' \in Fats /\ loaded' \in BOOLEAN /\ (loaded => loaded')
  BY <1>2 DEF Fat, FatInv, FatTypeOK, Fats
<1>8. f.mode # "writes" /\ (f.mode = "reads" => f.slot \in Named)
  BY <1>3, <1>4
<1>9. QED
  BY <1>2, <1>4, <1>5, <1>6, <1>7, <1>8, OneHandle

LEMMA ClosedType == ASSUME 0 \in Slots PROVE Closed \in Handle /\ Closed.mode = "closed"
  BY DEF Closed, Handle

LEMMA CloseReaderKeeps ==
    ASSUME FatInv, NEW h \in Handles, fat12_close(h), file[h].mode = "reads"
    PROVE  FatInv'
<1>1. 0 \in Slots
  BY Fat12Assumption DEF Slots
<1>2. UNCHANGED <<fat, dir, sector, cache, loaded, dirty, stored, orphans>>
  BY DEF fat12_close, onFlash
<1>3. file' = [file EXCEPT ![h] = Closed] /\ moved' = [moved EXCEPT ![h] = <<>>]
  BY DEF fat12_close
<1>4. h \notin Writers /\ <<>> \in Seq(Units)
  BY DEF Writers, Writes
<1>5. Fat' = Fat /\ cache' \in Fats /\ loaded' \in BOOLEAN /\ (loaded => loaded')
  BY <1>2 DEF Fat, FatInv, FatTypeOK, Fats
<1>6. Closed \in Handle /\ Closed.mode # "writes"
      /\ (Closed.mode = "reads" => Closed.slot \in Named)
  BY <1>1, ClosedType
<1>7. QED
  BY <1>2, <1>3, <1>4, <1>5, <1>6, OneHandle

LEMMA SlotTaken ==
    ASSUME FreeSlots # {}
    PROVE  Min(FreeSlots) \in FreeSlots /\ \A r \in FreeSlots : Min(FreeSlots) <= r
<1>1. FreeSlots \in SUBSET Nat
  BY Fat12Assumption DEF FreeSlots, Slots
<1>2. QED
  BY <1>1, MinOf

\* What fat12_create leaves behind: a writer at the start of an empty file.
Created(h, name, s) ==
    /\ s \in FreeSlots /\ \A r \in FreeSlots : s <= r
    /\ file[h].mode = "closed"
    /\ dir' = [dir EXCEPT ![s] = [name |-> name, first |-> 0, size |-> 0]]
    /\ file' = [file EXCEPT ![h] = [mode |-> "writes", first |-> 0, cur |-> 0, size |-> 0,
                                    pos |-> 0, slot |-> s]]
    /\ moved' = [moved EXCEPT ![h] = <<>>] /\ stored' = [stored EXCEPT ![s] = <<>>]
    /\ UNCHANGED <<fat, sector, cache, loaded, dirty, orphans>>

LEMMA CreateIsDone ==
    ASSUME NEW h \in Handles, NEW name, fat12_create(h, name)
    PROVE  \E s \in FreeSlots : Created(h, name, s)
<1> DEFINE s == Min(FreeSlots)
<1>1. s \in FreeSlots /\ \A r \in FreeSlots : s <= r
  BY SlotTaken DEF fat12_create
<1>2. Created(h, name, s)
  <2> HIDE DEF s
  <2>1. QED
    BY <1>1 DEF fat12_create, Opened, Created, fatCache, s
<1>3. QED
  BY <1>1, <1>2

LEMMA CreateKeeps ==
    ASSUME FatInv, NEW h \in Handles, NEW name \in Names, NEW s, Created(h, name, s)
    PROVE  FatInv'
<1>1. s \in Slots /\ dir[s].name \in {End, Deleted} /\ s \notin Named
  BY Fat12Assumption DEF Created, FreeSlots, Named
<1>2. /\ dir \in [Slots -> [name : Names \cup {End, Deleted}, first : Clusters \cup {0},
                            size : Nat]]
      /\ file \in [Handles -> Handle] /\ moved \in [Handles -> Seq(Units)]
      /\ stored \in [Slots -> Seq(Units)]
  BY DEF FatInv, FatTypeOK, HistoryOK
<1> DEFINE entry == [name |-> name, first |-> 0, size |-> 0]
           f == [mode |-> "writes", first |-> 0, cur |-> 0, size |-> 0, pos |-> 0, slot |-> s]
<1>3. entry \in [name : Names \cup {End, Deleted}, first : Clusters \cup {0}, size : Nat]
      /\ entry.name = name /\ entry.first = 0 /\ entry.size = 0
  OBVIOUS
<1>4. /\ f \in Handle /\ f.mode = "writes" /\ f.first = 0 /\ f.cur = 0 /\ f.size = 0 /\ f.pos = 0
      /\ f.slot = s
  BY <1>1 DEF Handle
<1>5. /\ dir' = [dir EXCEPT ![s] = entry] /\ file' = [file EXCEPT ![h] = f]
      /\ moved' = [moved EXCEPT ![h] = <<>>] /\ stored' = [stored EXCEPT ![s] = <<>>]
      /\ UNCHANGED <<fat, sector, cache, loaded, dirty, orphans>>
      /\ file[h].mode = "closed"
  BY DEF Created
<1> HIDE DEF entry, f
<1>6. /\ dir'[s] = entry /\ \A r \in Slots : r # s => dir'[r] = dir[r] /\ stored'[r] = stored[r]
      /\ stored'[s] = <<>> /\ moved'[h] = <<>> /\ file'[h] = f
      /\ \A g \in Handles : g # h => file'[g] = file[g] /\ moved'[g] = moved[g]
  BY <1>1, <1>2, <1>5
<1>7. Named' = Named \cup {s} /\ Named \subseteq Slots
  BY <1>1, <1>3, <1>6 DEF Named
<1>8. Writers' = Writers \cup {h} /\ h \notin Writers /\ Writers \subseteq Handles
  BY <1>4, <1>5, <1>6 DEF Writers, Writes
<1>9. 0 \notin Clusters
  BY DEF Clusters
<1>10. DirHeads' = DirHeads /\ WriterHeads' = WriterHeads
  <2>1. \A r \in Named : r # s /\ r \in Slots
    BY <1>1, <1>7
  <2>2. DirHeads' = DirHeads
    BY <1>3, <1>6, <1>7, <1>9, <2>1 DEF DirHeads
  <2>3. \A g \in Writers : g # h /\ g \in Handles
    BY <1>8
  <2>4. WriterHeads' = WriterHeads
    BY <1>4, <1>6, <1>8, <1>9, <2>3 DEF WriterHeads
  <2>5. QED
    BY <2>2, <2>4
<1>11. Fat' = Fat
  BY <1>5 DEF Fat
<1>12. FatTypeOK' /\ HistoryOK'
  <2>1. dir' \in [Slots -> [name : Names \cup {End, Deleted}, first : Clusters \cup {0},
                            size : Nat]]
    BY <1>2, <1>3, <1>5
  <2>2. file' \in [Handles -> Handle]
    BY <1>2, <1>4, <1>5
  <2>3. moved' \in [Handles -> Seq(Units)] /\ stored' \in [Slots -> Seq(Units)]
    <3> DEFINE none == <<>>
    <3>1. none \in Seq(Units)
      OBVIOUS
    <3>2. moved' = [moved EXCEPT ![h] = none] /\ stored' = [stored EXCEPT ![s] = none]
      BY <1>5
    <3> HIDE DEF none
    <3>3. QED
      BY <1>2, <3>1, <3>2
  <2>4. QED
    BY <1>5, <2>1, <2>2, <2>3 DEF FatInv, FatTypeOK, HistoryOK
<1>13. Held(Fat, DirHeads \cup WriterHeads, orphans)'
  BY <1>5, <1>10, <1>11 DEF FatInv
<1>14. HeadsDiffer'
  <2>1. HeadsDiffer
    BY DEF FatInv
  <2>2. \A r \in Named : dir'[r].first = dir[r].first
    BY <1>1, <1>6, <1>7
  <2>3. \A g \in Writers : file'[g].first = file[g].first
    BY <1>6, <1>8
  <2>4. dir'[s].first = 0 /\ file'[h].first = 0
    BY <1>3, <1>4, <1>6
  <2>5. QED
    BY <1>7, <1>8, <2>1, <2>2, <2>3, <2>4 DEF HeadsDiffer
<1>15. CopiesAgree'
  <2>1. CopiesAgree
    BY DEF FatInv
  <2>2. \A g \in Writers : file'[g].first = file[g].first
    BY <1>6, <1>8
  <2>3. QED
    BY <1>5, <1>8, <1>11, <2>1, <2>2 DEF CopiesAgree
<1>16. UsedFirst'
  <2> SUFFICES ASSUME NEW t \in Slots, NEW r \in Slots, dir'[t].name # End, r <= t
               PROVE  dir'[r].name # End
    BY DEF UsedFirst
  <2>1. dir'[s].name # End
    BY <1>3, <1>6, Fat12Assumption
  <2>2. CASE r = s
    BY <2>1, <2>2
  <2>3. CASE r # s /\ t # s
    BY <1>6, <2>3 DEF FatInv, UsedFirst
  <2>4. CASE r # s /\ t = s
    <3>1. r < s
      BY <2>4 DEF Slots
    <3>2. r \notin FreeSlots
      BY <3>1, <1>1 DEF Created, Slots
    <3>3. QED
      BY <1>6, <2>4, <3>2 DEF FreeSlots
  <2>5. QED
    BY <2>2, <2>3, <2>4
<1>17. WritersApart'
  <2>1. WritersApart
    BY DEF FatInv
  <2>2. ASSUME NEW g \in Writers
        PROVE  /\ file'[g] = file[g] /\ moved'[g] = moved[g] /\ file[g].slot # s
               /\ file[g].slot \in Named /\ dir'[file[g].slot] = dir[file[g].slot]
               /\ stored'[file[g].slot] = stored[file[g].slot]
    <3>1. g # h /\ g \in Handles /\ file[g].slot \in Named
      BY <1>8, <2>1 DEF WritersApart
    <3>2. QED
      BY <1>1, <1>6, <1>7, <3>1
  <2>3. AtTheEnd(Fat', f)
    BY <1>4 DEF AtTheEnd
  <2>4. Len(<<>>) = 0
    OBVIOUS
  <2>5. \A g \in Writers : AtTheEnd(Fat', file[g])
    BY <1>11, <2>1 DEF WritersApart
  <2>6. ASSUME NEW g \in Writers'
        PROVE  /\ file'[g].slot \in Named'
               /\ dir'[file'[g].slot].first = 0 /\ dir'[file'[g].slot].size = 0
               /\ stored'[file'[g].slot] = <<>>
               /\ AtTheEnd(Fat', file'[g])
               /\ file'[g].size = file'[g].pos /\ Len(moved'[g]) = file'[g].pos
    <3>1. CASE g = h
      BY <1>3, <1>4, <1>6, <1>7, <2>3, <2>4, <3>1
    <3>2. CASE g \in Writers
      BY <1>7, <2>1, <2>2, <2>5, <3>2 DEF WritersApart
    <3>3. QED
      BY <1>8, <3>1, <3>2
  <2>7. \A g, e \in Writers' : file'[g].slot = file'[e].slot => g = e
    BY <1>4, <1>6, <1>8, <2>1, <2>2 DEF WritersApart
  <2>8. QED
    BY <2>6, <2>7 DEF WritersApart
<1>18. ReadersFind'
  BY <1>4, <1>6, <1>7 DEF FatInv, ReadersFind
<1>19. QED
  BY <1>12, <1>13, <1>14, <1>15, <1>16, <1>17, <1>18 DEF FatInv

LEMMA CloseWriterKeeps ==
    ASSUME FatInv, NEW h \in Handles, fat12_close(h), file[h].mode = "writes"
    PROVE  FatInv'
<1> DEFINE t == file[h].slot
           a == file[h].first
           entry == [dir[t] EXCEPT !.first = a, !.size = file[h].size]
<1>1. /\ dir \in [Slots -> [name : Names \cup {End, Deleted}, first : Clusters \cup {0},
                            size : Nat]]
      /\ file \in [Handles -> Handle] /\ moved \in [Handles -> Seq(Units)]
      /\ stored \in [Slots -> Seq(Units)] /\ fat \in [1 .. 2 -> Fats] /\ cache \in Fats
      /\ loaded \in BOOLEAN /\ dirty \in BOOLEAN
  BY DEF FatInv, FatTypeOK, HistoryOK, Fats
<1>2. h \in Writers /\ t \in Named /\ t \in Slots /\ dir[t].first = 0
  BY DEF Writers, Writes, FatInv, WritersApart, Named
<1>3. /\ fat' = Flushed /\ dirty' = FALSE /\ UNCHANGED <<sector, cache, loaded, orphans>>
      /\ dir' = [dir EXCEPT ![t] = entry] /\ stored' = [stored EXCEPT ![t] = moved[h]]
      /\ file' = [file EXCEPT ![h] = Closed] /\ moved' = [moved EXCEPT ![h] = <<>>]
  BY DEF fat12_close
<1>4. /\ entry \in [name : Names \cup {End, Deleted}, first : Clusters \cup {0}, size : Nat]
      /\ entry.name = dir[t].name /\ entry.first = a /\ entry.size = file[h].size
      /\ a \in Clusters \cup {0}
  <2> DEFINE e == dir[t]
             size == file[h].size
  <2>1. a \in Clusters \cup {0} /\ size \in Nat
    BY <1>1, <1>2 DEF Handle
  <2>2. e \in [name : Names \cup {End, Deleted}, first : Clusters \cup {0}, size : Nat]
    BY <1>1, <1>2
  <2>3. entry = [e EXCEPT !.first = a, !.size = size]
    OBVIOUS
  <2> HIDE DEF e, a, size, entry
  <2>4. QED
    BY <2>1, <2>2, <2>3 DEF e, size
<1> HIDE DEF entry
<1>5. /\ dir'[t] = entry /\ \A r \in Slots : r # t => dir'[r] = dir[r] /\ stored'[r] = stored[r]
      /\ file'[h] = Closed
      /\ \A g \in Handles : g # h => file'[g] = file[g] /\ moved'[g] = moved[g]
  BY <1>1, <1>2, <1>3
<1>6. Closed \in Handle /\ Closed.mode = "closed"
  BY ClosedType, Fat12Assumption DEF Slots
<1>7. Writers' = Writers \ {h} /\ Writers \subseteq Handles
  BY <1>5, <1>6 DEF Writers, Writes
<1>8. Named' = Named /\ Named \subseteq Slots
  BY <1>2, <1>4, <1>5 DEF Named
<1>9. 0 \notin Clusters
  BY DEF Clusters
<1>10. (DirHeads \cup WriterHeads)' = DirHeads \cup WriterHeads
  <2>1. DirHeads' = DirHeads \cup ({a} \cap Clusters)
    BY <1>2, <1>4, <1>5, <1>8, <1>9 DEF DirHeads
  <2>2. WriterHeads' \cup ({a} \cap Clusters) = WriterHeads
    BY <1>2, <1>5, <1>7 DEF WriterHeads
  <2>3. QED
    BY <2>1, <2>2
<1>11. Fat' = Fat /\ fat'[1] = Fat /\ fat'[2] = Fat /\ fat' \in [1 .. 2 -> Fats]
  <2>1. CopiesAgree
    BY DEF FatInv
  <2>2. CASE dirty
    <3>1. loaded /\ fat' = [i \in 1 .. 2 |-> cache]
      BY <1>3, <2>1, <2>2 DEF CopiesAgree, Flushed
    <3>2. QED
      BY <1>1, <1>3, <3>1 DEF Fat
  <2>3. CASE ~dirty
    <3>1. fat' = fat /\ Fat = fat[1] /\ fat[1] = fat[2]
      BY <1>3, <2>1, <2>3 DEF CopiesAgree, Flushed
    <3>2. Fat' = Fat
      BY <1>3, <3>1 DEF Fat
    <3>3. QED
      BY <1>1, <3>1, <3>2
  <2>4. QED
    BY <2>2, <2>3
<1>12. FatTypeOK' /\ HistoryOK'
  <2>1. dir' \in [Slots -> [name : Names \cup {End, Deleted}, first : Clusters \cup {0},
                            size : Nat]]
    BY <1>1, <1>3, <1>4
  <2>2. file' \in [Handles -> Handle]
    BY <1>1, <1>3, <1>6
  <2>3. moved' \in [Handles -> Seq(Units)] /\ stored' \in [Slots -> Seq(Units)]
    <3> DEFINE none == <<>>
    <3>1. none \in Seq(Units) /\ moved[h] \in Seq(Units)
      BY <1>1
    <3>2. moved' = [moved EXCEPT ![h] = none]
      BY <1>3
    <3> HIDE DEF none
    <3>3. QED
      BY <1>1, <1>3, <3>1, <3>2
  <2>4. QED
    BY <1>3, <1>11, <2>1, <2>2, <2>3 DEF FatInv, FatTypeOK, HistoryOK, Fats
<1>13. Held(Fat, DirHeads \cup WriterHeads, orphans)'
  BY <1>3, <1>10, <1>11 DEF FatInv
<1>14. HeadsDiffer'
  <2>1. HeadsDiffer
    BY DEF FatInv
  <2>2. \A r \in Named : dir'[r].first = IF r = t THEN a ELSE dir[r].first
    BY <1>4, <1>5, <1>8
  <2>3. \A g \in Writers \ {h} : file'[g].first = file[g].first
    BY <1>5, <1>7
  <2> HIDE DEF t
  <2>4. \A s, r \in Named : dir'[s].first = dir'[r].first => s = r \/ dir'[s].first = 0
    BY <1>2, <2>1, <2>2 DEF HeadsDiffer
  <2>5. \A s \in Named, g \in Writers \ {h} : dir'[s].first = file'[g].first => dir'[s].first = 0
    BY <1>2, <2>1, <2>2, <2>3 DEF HeadsDiffer
  <2>6. \A g, e \in Writers \ {h} : file'[g].first = file'[e].first => g = e \/ file'[g].first = 0
    BY <2>1, <2>3 DEF HeadsDiffer
  <2>7. QED
    BY <1>7, <1>8, <2>4, <2>5, <2>6 DEF HeadsDiffer
<1>15. CopiesAgree'
  BY <1>3, <1>11 DEF CopiesAgree
<1>16. UsedFirst'
  <2>1. \A r \in Slots : dir'[r].name = dir[r].name
    BY <1>4, <1>5
  <2>2. QED
    BY <2>1 DEF FatInv, UsedFirst
<1>17. WritersApart'
  <2>1. WritersApart
    BY DEF FatInv
  <2>2. ASSUME NEW g \in Writers \ {h}
        PROVE  /\ file'[g] = file[g] /\ moved'[g] = moved[g]
               /\ file[g].slot \in Named /\ dir'[file[g].slot] = dir[file[g].slot]
               /\ stored'[file[g].slot] = stored[file[g].slot]
    <3>1. g # h /\ g \in Handles /\ file[g].slot \in Named /\ file[g].slot # t
      BY <1>2, <1>7, <2>1 DEF WritersApart
    <3>2. QED
      BY <1>5, <1>8, <3>1
  <2>3. QED
    BY <1>7, <1>8, <1>11, <2>1, <2>2 DEF WritersApart
<1>18. ReadersFind'
  BY <1>5, <1>6, <1>8 DEF FatInv, ReadersFind
<1>19. QED
  BY <1>12, <1>13, <1>14, <1>15, <1>16, <1>17, <1>18 DEF FatInv

\* What fat12_delete leaves of the FAT and of slot s.
DeletedSlot(s, links) ==
    /\ s \in Named /\ \A h \in Handles : file[h].mode # "closed" => file[h].slot # s
    /\ links = Without(Fat, Body(Fat, dir[s].first))
    /\ cache' = links /\ loaded' = TRUE /\ dirty' = FALSE
    /\ fat' = IF dirty \/ Body(Fat, dir[s].first) # {} THEN [i \in 1 .. 2 |-> links] ELSE fat
    /\ dir' = [dir EXCEPT ![s].name = Deleted] /\ stored' = [stored EXCEPT ![s] = <<>>]
    /\ UNCHANGED <<sector, file, moved, orphans>>

LEMMA DeleteIsDone ==
    ASSUME NEW name \in Names, fat12_delete(name)
    PROVE  \E s \in Slots : \E links : DeletedSlot(s, links)
<1>1. PICK s \in Slots :
        /\ Found(name, s)
        /\ \A h \in Handles : file[h].mode # "closed" => file[h].slot # s
        /\ LET freed == Freed(dir[s].first)
               links == [c \in Clusters |-> IF c \in freed THEN FREE ELSE Fat[c]]
           IN  /\ cache' = links
               /\ fat' = IF dirty \/ freed # {} THEN [i \in 1 .. 2 |-> links] ELSE fat
        /\ dir' = [dir EXCEPT ![s].name = Deleted]
        /\ stored' = [stored EXCEPT ![s] = <<>>]
  BY DEF fat12_delete
<1>2. s \in Named
  BY <1>1 DEF Found, Named
<1> DEFINE links == Without(Fat, Body(Fat, dir[s].first))
<1>3. /\ cache' = links
      /\ fat' = IF dirty \/ Body(Fat, dir[s].first) # {} THEN [i \in 1 .. 2 |-> links] ELSE fat
  BY <1>1 DEF Freed, Body, Without
<1>4. loaded' = TRUE /\ dirty' = FALSE /\ UNCHANGED <<sector, file, moved, orphans>>
  BY DEF fat12_delete
<1>5. DeletedSlot(s, links)
  <2> DEFINE new == links
  <2>1. new = links
    OBVIOUS
  <2> HIDE DEF links
  <2>2. QED
    BY <1>1, <1>2, <1>3, <1>4 DEF DeletedSlot, links
<1>6. QED
  BY <1>5

LEMMA DeleteKeeps ==
    ASSUME FatInv, NEW s \in Slots, NEW links, DeletedSlot(s, links)
    PROVE  /\ FatInv'
           /\ \A b \in (DirHeads \cup WriterHeads) \ {dir[s].first} : Chain(Fat', b) = Chain(Fat, b)
<1> DEFINE a == dir[s].first
           heads == DirHeads \cup WriterHeads
<1>1. /\ dir \in [Slots -> [name : Names \cup {End, Deleted}, first : Clusters \cup {0},
                            size : Nat]]
      /\ stored \in [Slots -> Seq(Units)] /\ fat \in [1 .. 2 -> Fats] /\ Fat \in Fats
  BY FatType DEF FatInv, FatTypeOK, HistoryOK, Fats
<1>2. /\ s \in Named /\ \A h \in Handles : file[h].mode # "closed" => file[h].slot # s
      /\ links = Without(Fat, Body(Fat, a))
      /\ cache' = links /\ loaded' = TRUE /\ dirty' = FALSE
      /\ fat' = IF dirty \/ Body(Fat, a) # {} THEN [i \in 1 .. 2 |-> links] ELSE fat
      /\ dir' = [dir EXCEPT ![s].name = Deleted] /\ stored' = [stored EXCEPT ![s] = <<>>]
      /\ UNCHANGED <<sector, file, moved, orphans>>
  BY DEF DeletedSlot
<1>3. /\ dir'[s].name = Deleted
      /\ \A r \in Slots : r # s => dir'[r] = dir[r] /\ stored'[r] = stored[r]
      /\ dir' \in [Slots -> [name : Names \cup {End, Deleted}, first : Clusters \cup {0},
                             size : Nat]]
      /\ a \in Clusters \cup {0}
  BY <1>1, <1>2
<1>4. Named' = Named \ {s} /\ Named \subseteq Slots
  BY <1>2, <1>3, Fat12Assumption DEF Named
<1>5. Writers' = Writers /\ WriterHeads' = WriterHeads
  BY <1>2 DEF Writers, Writes, WriterHeads
<1>6. Held(Fat, heads, orphans) /\ HeadsDiffer /\ CopiesAgree
  BY DEF FatInv
<1>7. Fat' = links
  BY <1>2 DEF Fat
<1>8. (DirHeads \cup WriterHeads)' = heads \ {a}
  <2>1. DirHeads' = DirHeads \ {a}
    <3>1. \A r \in Named \ {s} : dir'[r].first = dir[r].first
      BY <1>3, <1>4
    <3>2. \A r \in Named \ {s} : dir[r].first \in Clusters => dir[r].first # a
      BY <1>2, <1>6 DEF HeadsDiffer, Clusters
    <3>3. QED
      BY <1>4, <3>1, <3>2 DEF DirHeads
  <2>2. a \notin WriterHeads
    BY <1>2, <1>6 DEF HeadsDiffer, WriterHeads, Clusters
  <2>3. QED
    BY <1>5, <2>1, <2>2
<1> HIDE DEF a
<1>9. /\ Held(links, heads \ {a}, orphans) /\ links \in Fats
      /\ \A b \in heads \ {a} : Chain(links, b) = Chain(Fat, b)
      /\ Body(Fat, a) = {} => links = Fat
  <2>1. CASE a \in heads
    <3> HIDE DEF heads
    <3> DEFINE new == Without(Fat, Body(Fat, a))
    <3>1. Held(new, heads \ {a}, orphans) /\ \A b \in heads \ {a} : Chain(new, b) = Chain(Fat, b)
      BY <1>6, <2>1, HeldFreed
    <3>2. a \in Body(Fat, a)
      BY <1>6, <2>1, HeldBody
    <3>3. new = links
      BY <1>2
    <3> HIDE DEF new
    <3>4. QED
      BY <3>1, <3>2, <3>3 DEF Held
  <2>2. CASE a \notin heads
    <3>1. a \notin Clusters
      BY <1>2, <2>2 DEF DirHeads, a
    <3>2. Body(Fat, a) = {}
      BY <1>1, <3>1, ChainEmpty DEF Fats
    <3>3. links = Fat
      BY <1>1, <1>2, <3>2 DEF Without, Fats
    <3>4. heads \ {a} = heads
      BY <2>2
    <3> HIDE DEF heads
    <3>5. QED
      BY <1>1, <1>6, <3>3, <3>4
  <2>3. QED
    BY <2>1, <2>2
<1> HIDE DEF heads
<1>10. fat'[1] = links /\ fat'[2] = links /\ fat' \in [1 .. 2 -> Fats]
  <2>1. CASE dirty \/ Body(Fat, a) # {}
    BY <1>2, <1>9, <2>1
  <2>2. CASE ~(dirty \/ Body(Fat, a) # {})
    <3>1. fat' = fat /\ links = Fat /\ Fat = fat[1] /\ fat[1] = fat[2]
      BY <1>2, <1>6, <1>9, <2>2 DEF CopiesAgree
    <3>2. QED
      BY <1>1, <3>1
  <2>3. QED
    BY <2>1, <2>2
<1>11. FatTypeOK' /\ HistoryOK'
  <2>1. stored' \in [Slots -> Seq(Units)]
    <3> DEFINE none == <<>>
    <3>1. none \in Seq(Units) /\ stored' = [stored EXCEPT ![s] = none]
      BY <1>2
    <3> HIDE DEF none
    <3>2. QED
      BY <1>1, <3>1
  <2>2. QED
    BY <1>2, <1>3, <1>9, <1>10, <2>1 DEF FatInv, FatTypeOK, HistoryOK, Fats
<1>12. Held(Fat, DirHeads \cup WriterHeads, orphans)'
  BY <1>2, <1>7, <1>8, <1>9
<1>13. HeadsDiffer'
  <2>1. \A r \in Named \ {s} : dir'[r].first = dir[r].first
    BY <1>3, <1>4
  <2>2. QED
    BY <1>2, <1>4, <1>5, <1>6, <2>1 DEF HeadsDiffer
<1>14. CopiesAgree'
  BY <1>2, <1>7, <1>10 DEF CopiesAgree
<1>15. UsedFirst'
  <2>1. \A r \in Slots : dir'[r].name = End => dir[r].name = End
    BY <1>3, Fat12Assumption DEF End, Deleted
  <2>2. \A r \in Slots : dir[r].name = End => dir'[r].name = End \/ r = s
    BY <1>3
  <2>3. dir[s].name # End
    BY <1>2, Fat12Assumption DEF Named
  <2>4. QED
    BY <2>1, <2>2, <2>3 DEF FatInv, UsedFirst
<1>16. WritersApart'
  <2>1. WritersApart
    BY DEF FatInv
  <2>2. ASSUME NEW g \in Writers
        PROVE  /\ file[g].slot \in Named \ {s} /\ dir'[file[g].slot] = dir[file[g].slot]
               /\ stored'[file[g].slot] = stored[file[g].slot]
    <3>1. file[g].slot \in Named /\ file[g].slot # s
      BY <1>2, <2>1 DEF WritersApart, Writers, Writes
    <3>2. QED
      BY <1>3, <1>4, <3>1
  <2>3. ASSUME NEW g \in Writers
        PROVE  AtTheEnd(links, file[g])
    <3>1. AtTheEnd(Fat, file[g])
      BY <2>1 DEF WritersApart
    <3>2. file[g].first \in Clusters => file[g].first \in heads \ {a}
      BY <1>2, <1>6 DEF HeadsDiffer, WriterHeads, a, Clusters, heads
    <3>3. QED
      BY <1>9, <3>1, <3>2 DEF AtTheEnd
  <2>4. QED
    BY <1>2, <1>4, <1>5, <1>7, <2>1, <2>2, <2>3 DEF WritersApart
<1>17. ReadersFind'
  BY <1>2, <1>4 DEF FatInv, ReadersFind
<1>18. FatInv'
  BY <1>11, <1>12, <1>13, <1>14, <1>15, <1>16, <1>17 DEF FatInv
<1>19. QED
  BY <1>7, <1>9, <1>18 DEF heads, a

\* A disk with nothing on it.
LEMMA HeldNone == Held(NoLinks, {}, {})
<1>1. NoLinks \in Fats /\ \A c \in Clusters : NoLinks[c] = FREE
  BY DEF NoLinks, Fats, Links
<1>2. QED
  BY <1>1 DEF Held

\* Clusters that only the cached FAT had are free again; the others are lost.
LEMMA InitKeeps ==
    ASSUME FatInv, fat12_init
    PROVE  FatInv' /\ \A b \in DirHeads : Chain(Fat', b) = Chain(Fat, b)
<1> DEFINE heads == DirHeads \cup WriterHeads
           stay == DirHeads
           flash == fat[1]
           gone == Left(Fat, flash, heads \ stay)
<1>1. /\ fat \in [1 .. 2 -> Fats] /\ Fat \in Fats /\ flash \in Fats
      /\ Held(Fat, heads, orphans) /\ HeadsDiffer /\ CopiesAgree
  BY FatType DEF FatInv, FatTypeOK, Fats
<1>2. /\ loaded' = FALSE /\ dirty' = FALSE /\ UNCHANGED <<fat, dir, sector, cache, stored>>
      /\ file' = [h \in Handles |-> Closed] /\ moved' = [h \in Handles |-> <<>>]
  BY DEF fat12_init, onFlash
<1>3. Closed \in Handle /\ Closed.mode = "closed"
  BY ClosedType, Fat12Assumption DEF Slots
<1>4. Writers' = {} /\ WriterHeads' = {} /\ Named' = Named /\ DirHeads' = stay
      /\ \A h \in Handles : file'[h].mode = "closed"
  BY <1>2, <1>3 DEF Writers, Writes, WriterHeads, Named, DirHeads
<1>5. heads \ stay = WriterHeads
  BY <1>1 DEF HeadsDiffer, DirHeads, WriterHeads, Clusters
<1>6. ASSUME NEW c \in Clusters
      PROVE  (\E a \in heads \ stay : c \in Body(Fat, a))
               <=> \E h \in Handles : file[h].mode = "writes" /\ c \in Body(Fat, file[h].first)
  <2>1. ASSUME NEW h \in Handles, c \in Body(Fat, file[h].first)
        PROVE  file[h].first \in Clusters
    BY <1>1, <2>1, ChainEmpty DEF Fats
  <2>2. (\E a \in WriterHeads : c \in Body(Fat, a))
          <=> \E h \in Writers : c \in Body(Fat, file[h].first)
    BY <2>1 DEF WriterHeads, Writers
  <2>3. QED
    BY <1>5, <2>2 DEF Writers, Writes
<1>7. orphans' = orphans \cup gone
  <2>1. orphans' = orphans \cup
         {c \in Clusters : flash[c] # FREE
                           /\ \E h \in Handles :
                                 file[h].mode = "writes" /\ c \in Body(Fat, file[h].first)}
    BY DEF fat12_init, Body
  <2> HIDE DEF heads, stay, flash
  <2>2. QED
    BY <1>6, <2>1 DEF Left
<1>8. Ahead(Fat, flash, heads \ stay)
  BY <1>1, <1>6 DEF CopiesAgree, Writers, Writes, Ahead
<1>9. stay \in SUBSET heads
  OBVIOUS
<1>10. /\ Held(flash, stay, orphans \cup gone)
       /\ \A b \in stay : Chain(flash, b) = Chain(Fat, b)
  <2>1. Held(Fat, heads, orphans) /\ flash \in Fats
    BY <1>1
  <2> HIDE DEF heads, stay, flash, gone
  <2>2. /\ Held(flash, stay, orphans \cup Left(Fat, flash, heads \ stay))
        /\ \A b \in stay : Chain(flash, b) = Chain(Fat, b)
    BY <1>8, <1>9, <2>1, HeldOnFlash
  <2>3. QED
    BY <2>2 DEF gone
<1>11. Fat' = flash
  BY <1>2 DEF Fat
<1> HIDE DEF heads, stay, flash, gone
<1>12. FatTypeOK' /\ HistoryOK'
  <2>1. orphans' \subseteq Clusters
    BY <1>7, <1>10 DEF Held
  <2>2. file' \in [Handles -> Handle]
    BY <1>2, <1>3
  <2>3. moved' \in [Handles -> Seq(Units)]
    BY <1>2
  <2>4. QED
    BY <1>2, <2>1, <2>2, <2>3 DEF FatInv, FatTypeOK, HistoryOK
<1>13. Held(Fat, DirHeads \cup WriterHeads, orphans)'
  BY <1>4, <1>7, <1>10, <1>11
<1>14. HeadsDiffer'
  BY <1>1, <1>2, <1>4 DEF HeadsDiffer
<1>15. CopiesAgree'
  BY <1>1, <1>2, <1>11 DEF CopiesAgree, flash
<1>16. UsedFirst' /\ WritersApart' /\ ReadersFind'
  BY <1>2, <1>4 DEF FatInv, UsedFirst, WritersApart, ReadersFind
<1>17. QED
  BY <1>10, <1>11, <1>12, <1>13, <1>14, <1>15, <1>16 DEF FatInv, stay

LEMMA FormatKeeps == ASSUME FatInv, fat12_format PROVE FatInv'
<1>1. /\ fat' = [i \in 1 .. 2 |-> NoLinks]
      /\ dir' = [s \in Slots |-> [name |-> End, first |-> 0, size |-> 0]]
      /\ cache' = NoLinks /\ loaded' = TRUE /\ dirty' = FALSE
      /\ file' = [h \in Handles |-> Closed] /\ stored' = [s \in Slots |-> <<>>]
      /\ moved' = [h \in Handles |-> <<>>] /\ orphans' = {} /\ sector' = sector
  BY DEF fat12_format
<1>2. Closed \in Handle /\ Closed.mode = "closed"
  BY ClosedType, Fat12Assumption DEF Slots
<1>3. NoLinks \in [Clusters -> Links]
  BY DEF NoLinks, Links
<1>4. /\ \A s \in Slots : dir'[s].name = End
      /\ \A h \in Handles : file'[h].mode = "closed"
  BY <1>1, <1>2
<1>5. Named' = {} /\ Writers' = {}
  BY <1>4, Fat12Assumption DEF Named, Writers, Writes
<1>6. (DirHeads \cup WriterHeads)' = {}
  BY <1>5 DEF DirHeads, WriterHeads
<1>7. Fat' = NoLinks
  BY <1>1 DEF Fat
<1>8. FatTypeOK'
  <2>1. dir' \in [Slots -> [name : Names \cup {End, Deleted}, first : Clusters \cup {0},
                            size : Nat]]
    BY <1>1
  <2>2. file' \in [Handles -> Handle] /\ fat' \in [1 .. 2 -> [Clusters -> Links]]
    BY <1>1, <1>2, <1>3
  <2>3. QED
    BY <1>1, <1>3, <2>1, <2>2 DEF FatInv, FatTypeOK
<1>9. HistoryOK'
  BY <1>1 DEF HistoryOK
<1>10. Held(Fat, DirHeads \cup WriterHeads, orphans)'
  BY <1>1, <1>6, <1>7, HeldNone
<1>11. HeadsDiffer' /\ CopiesAgree' /\ UsedFirst' /\ WritersApart' /\ ReadersFind'
  BY <1>1, <1>4, <1>5, <1>7 DEF HeadsDiffer, CopiesAgree, UsedFirst, WritersApart, ReadersFind
<1>12. QED
  BY <1>8, <1>9, <1>10, <1>11 DEF FatInv

LEMMA FatInitially == ASSUME FatInit PROVE FatInv
<1>1. /\ fat = [i \in 1 .. 2 |-> NoLinks]
      /\ dir = [s \in Slots |-> [name |-> End, first |-> 0, size |-> 0]]
      /\ cache = NoLinks /\ loaded = TRUE /\ dirty = FALSE
      /\ file = [h \in Handles |-> Closed] /\ stored = [s \in Slots |-> <<>>]
      /\ moved = [h \in Handles |-> <<>>] /\ orphans = {}
      /\ sector = [c \in Clusters |-> [i \in 0 .. SectorSize - 1 |-> <<>>]]
  BY DEF FatInit
<1>2. Closed \in Handle /\ Closed.mode = "closed"
  BY ClosedType, Fat12Assumption DEF Slots
<1>3. NoLinks \in [Clusters -> Links]
  BY DEF NoLinks, Links
<1>4. /\ \A s \in Slots : dir[s].name = End
      /\ \A h \in Handles : file[h].mode = "closed"
  BY <1>1, <1>2
<1>5. Named = {} /\ Writers = {}
  BY <1>4, Fat12Assumption DEF Named, Writers, Writes
<1>6. DirHeads \cup WriterHeads = {}
  BY <1>5 DEF DirHeads, WriterHeads
<1>7. Fat = NoLinks
  BY <1>1 DEF Fat
<1>8. FatTypeOK
  <2>1. dir \in [Slots -> [name : Names \cup {End, Deleted}, first : Clusters \cup {0},
                           size : Nat]]
    BY <1>1
  <2>2. file \in [Handles -> Handle] /\ fat \in [1 .. 2 -> [Clusters -> Links]]
    BY <1>1, <1>2, <1>3
  <2>3. sector \in [Clusters -> [0 .. SectorSize - 1 -> Units]]
    BY <1>1 DEF Units
  <2>4. QED
    BY <1>1, <1>3, <2>1, <2>2, <2>3 DEF FatTypeOK
<1>9. HistoryOK
  BY <1>1 DEF HistoryOK
<1>10. Held(Fat, DirHeads \cup WriterHeads, orphans)
  BY <1>1, <1>6, <1>7, HeldNone
<1>11. HeadsDiffer /\ CopiesAgree /\ UsedFirst /\ WritersApart /\ ReadersFind
  BY <1>1, <1>4, <1>5, <1>7 DEF HeadsDiffer, CopiesAgree, UsedFirst, WritersApart, ReadersFind
<1>12. QED
  BY <1>8, <1>9, <1>10, <1>11 DEF FatInv

LEMMA FatStep == ASSUME FatInv, [FatNext]_fatVars PROVE FatInv'
<1>1. CASE fat12_format
  BY <1>1, FormatKeeps
<1>2. CASE fat12_init
  BY <1>2, InitKeeps
<1>3. CASE \E name \in Names : fat12_delete(name)
  <2>1. PICK s \in Slots : \E links : DeletedSlot(s, links)
    BY <1>3, DeleteIsDone
  <2>2. QED
    BY <2>1, DeleteKeeps
<1>4. ASSUME NEW h \in Handles, fat12_read(h)
      PROVE  FatInv'
  <2>1. file[h].mode = "reads" /\ \E r : ReadDone(h, r)
    BY <1>4, ReadIsDone
  <2>2. QED
    BY <2>1, ReadKeeps
<1>5. ASSUME NEW h \in Handles, fat12_write(h)
      PROVE  FatInv'
  <2>1. h \in Writers /\ \E w : WriteDone(h, w)
    BY <1>5, WriteIsDone
  <2>2. QED
    BY <2>1, WriteKeeps
<1>6. ASSUME NEW h \in Handles, fat12_close(h)
      PROVE  FatInv'
  <2>1. file[h].mode = "reads" \/ file[h].mode = "writes"
    BY <1>6 DEF fat12_close
  <2>2. QED
    BY <1>6, <2>1, CloseReaderKeeps, CloseWriterKeeps
<1>7. ASSUME NEW h \in Handles, NEW name \in Names, fat12_open(h, name)
      PROVE  FatInv'
  BY <1>7, OpenKeeps
<1>8. ASSUME NEW h \in Handles, NEW name \in Names, fat12_create(h, name)
      PROVE  FatInv'
  <2>1. PICK s \in FreeSlots : Created(h, name, s)
    BY <1>8, CreateIsDone
  <2>2. QED
    BY <2>1, CreateKeeps
<1>9. CASE UNCHANGED fatVars
  <2>1. UNCHANGED <<fat, dir, sector, cache, loaded, dirty, file, stored, moved, orphans>>
    BY <1>9 DEF fatVars, onFlash, fatCache
  <2>2. Fat' = Fat /\ Named' = Named /\ Writers' = Writers
    BY <2>1 DEF Fat, Named, Writers, Writes
  <2>3. DirHeads' = DirHeads /\ WriterHeads' = WriterHeads
    BY <2>1, <2>2 DEF DirHeads, WriterHeads
  <2>4. FatTypeOK' /\ HistoryOK' /\ UsedFirst' /\ ReadersFind'
    BY <2>1, <2>2 DEF FatInv, FatTypeOK, HistoryOK, UsedFirst, ReadersFind
  <2>5. HeadsDiffer' /\ CopiesAgree' /\ WritersApart'
    BY <2>1, <2>2 DEF FatInv, HeadsDiffer, CopiesAgree, WritersApart
  <2>6. QED
    BY <2>1, <2>2, <2>3, <2>4, <2>5 DEF FatInv
<1>10. QED
  BY <1>1, <1>2, <1>3, <1>4, <1>5, <1>6, <1>7, <1>8, <1>9 DEF FatNext

LEMMA OwnersAreUnique == ASSUME FatInv PROVE ClustersOwned
<1> DEFINE owners == {<<"dir", s>> : s \in {s \in Slots : dir[s].name \in Names}}
                       \cup {<<"handle", h>> : h \in {h \in Handles : Writes(h)}}
           head(o) == IF o[1] = "dir" THEN dir[o[2]].first ELSE file[o[2]].first
           heads == DirHeads \cup WriterHeads
           ownersOf(c) == {o \in owners : c \in Body(Fat, head(o))}
<1>1. /\ Held(Fat, heads, orphans) /\ HeadsDiffer /\ Fat \in Fats
  BY FatType DEF FatInv
<1>2. owners = {<<"dir", s>> : s \in Named} \cup {<<"handle", h>> : h \in Writers}
  BY DEF Named, Writers
<1>3. /\ \A s : head(<<"dir", s>>) = dir[s].first
      /\ \A h : head(<<"handle", h>>) = file[h].first
  OBVIOUS
<1>4. ClustersOwned <=>
        \A c \in Clusters :
           Cardinality(ownersOf(c)) = IF Fat[c] = FREE \/ c \in orphans THEN 0 ELSE 1
  BY DEF ClustersOwned, Body
<1> HIDE DEF owners, head
<1>5. ASSUME NEW o \in owners, head(o) \in Clusters
      PROVE  head(o) \in heads
  BY <1>2, <1>3, <1>5 DEF DirHeads, WriterHeads
<1>6. ASSUME NEW o \in owners, NEW q \in owners, head(o) = head(q), head(o) \in Clusters
      PROVE  o = q
  <2>1. head(o) # 0
    BY <1>6 DEF Clusters
  <2>2. QED
    BY <1>1, <1>2, <1>3, <1>6, <2>1 DEF HeadsDiffer
<1>7. ASSUME NEW a \in heads
      PROVE  a \in Clusters /\ \E o \in owners : head(o) = a
  BY <1>2, <1>3 DEF DirHeads, WriterHeads
<1> HIDE DEF heads
<1>8. ASSUME NEW o \in owners, NEW c \in Body(Fat, head(o))
      PROVE  head(o) \in heads
  BY <1>1, <1>5, ChainEmpty DEF Fats
<1>9. ASSUME NEW c \in Clusters
      PROVE  Cardinality(ownersOf(c)) = IF Fat[c] = FREE \/ c \in orphans THEN 0 ELSE 1
  <2>1. CASE Fat[c] = FREE \/ c \in orphans
    <3>1. \A a \in heads : c \notin Body(Fat, a)
      BY <1>1, <2>1, HeldBody
    <3>2. ownersOf(c) = {}
      BY <1>8, <3>1
    <3>3. QED
      BY <2>1, <3>2, FS_EmptySet
  <2>2. CASE ~(Fat[c] = FREE \/ c \in orphans)
    <3>1. PICK a \in heads : c \in Body(Fat, a)
      BY <1>1, <2>2 DEF Held
    <3>2. PICK o \in owners : head(o) = a
      BY <1>7
    <3>3. ASSUME NEW q \in owners, c \in Body(Fat, head(q))
          PROVE  q = o
      <4>1. head(q) \in heads
        BY <1>8, <3>3
      <4>2. head(q) = a
        BY <1>1, <3>1, <3>3, <4>1 DEF Held
      <4>3. QED
        BY <1>6, <1>7, <3>2, <4>2
    <3>4. ownersOf(c) = {o}
      BY <3>1, <3>2, <3>3
    <3>5. Cardinality({o}) = 1
      BY FS_Singleton
    <3>6. QED
      BY <2>2, <3>4, <3>5
  <2>3. QED
    BY <2>1, <2>2
<1>10. QED
  BY <1>4, <1>9

\* What the FAT, the directory and the handles always are.
LEMMA FatInvariant == FatSpec => []FatInv
<1>1. FatInit => FatInv
  BY FatInitially
<1>2. FatInv /\ [FatNext]_fatVars => FatInv'
  BY FatStep
<1>3. QED
  BY <1>1, <1>2, PTL DEF FatSpec

\* Every value the file system keeps is of its type, whatever the caller does:
\* links lead to clusters of the disk, handles and entries to slots.
THEOREM FatTypeCorrect == FatSpec => []FatTypeOK
<1>1. FatInv => FatTypeOK
  BY DEF FatInv
<1>2. QED
  BY <1>1, FatInvariant, PTL

\* Each cluster that is not free belongs to one file, closed or being written,
\* or is lost to a mount that gave up its handle: for disks and directories of
\* any size, any number of handles, and writes of any length (fat_alloc,
\* fat_free_chain).
THEOREM FatClustersOwned == FatSpec => []ClustersOwned
<1>1. FatInv => ClustersOwned
  BY OwnersAreUnique
<1>2. QED
  BY <1>1, FatInvariant, PTL

----------------------------------------------------------------------------
(* FAT12: what a file holds *)

\* size units fill k sectors, but for a part of the last; and one more unit
\* has a place in the last of k.
Fits(size, k) == (k - 1) * SectorSize < size /\ size <= k * SectorSize
Room(size, k) == (k - 1) * SectorSize <= size /\ size < k * SectorSize

\* The units lie in the sectors of the chain, one after the other.
LaidOut(chain, data, units) ==
    \A j \in Nat, r \in 0 .. SectorSize - 1 :
        j * SectorSize + r < Len(units) =>
            units[j * SectorSize + r + 1] = data[chain[j + 1]][r]

\* The file of f holds the units.
Stands(links, data, f, units) ==
    LET chain == Chain(links, f.first) IN
      Len(units) = f.size /\ Fits(f.size, Len(chain)) /\ LaidOut(chain, data, units)

LEMMA FitsSectors ==
    ASSUME NEW size \in Nat, NEW k \in Nat, Fits(size, k)
    PROVE  SectorsFor(size) = k
<1> DEFINE S == SectorSize
           x == k * S
           r == size - 1 - (x - S)
<1>1. S \in Nat \ {0} /\ x \in Int /\ (k - 1) * S = x - S
  BY Fat12Assumption
<1>2. x - S < size /\ size <= x
  BY <1>1 DEF Fits
<1> HIDE DEF S, x
<1>3. r \in 0 .. S - 1 /\ size + S - 1 = x + r
  BY <1>1, <1>2
<1> HIDE DEF r
<1>4. (k * S + r) \div S = k
  BY <1>1, <1>3, DivUnique
<1>5. QED
  BY <1>3, <1>4 DEF SectorsFor, x, S

LEMMA StandsHolds ==
    ASSUME NEW links, NEW f, f.size \in Nat, NEW units,
           Chain(links, f.first) \in Seq(Clusters), Stands(links, sector, f, units)
    PROVE  Holds(links, f, units)
<1> DEFINE chain == Chain(links, f.first)
           size == f.size
<1>1. Len(units) = size /\ Fits(size, Len(chain)) /\ LaidOut(chain, sector, units)
      /\ Len(chain) \in Nat /\ size \in Nat
  BY DEF Stands
<1> HIDE DEF chain, size
<1>2. Len(chain) = SectorsFor(size)
  BY <1>1, FitsSectors
<1>3. ASSUME NEW i \in 1 .. size
      PROVE  units[i] = sector[chain[(i - 1) \div SectorSize + 1]][(i - 1) % SectorSize]
  <2> DEFINE S == SectorSize
             x == i - 1
             j == x \div S
             r == x % S
  <2>1. x \in Nat /\ S \in Nat \ {0} /\ x < size /\ x + 1 = i
    BY <1>1, Fat12Assumption
  <2> HIDE DEF x, S
  <2>2. j \in Int /\ r \in 0 .. S - 1 /\ x = j * S + r
    <3>1. x \in Int
      BY <2>1
    <3>2. r \in 0 .. S - 1
      BY <2>1, <3>1, ModRange
    <3>3. j \in Int /\ x = j * S + r
      BY <2>1, <3>1, DivSplit
    <3>4. QED
      BY <3>2, <3>3
  <2> HIDE DEF j, r
  <2>3. j \in Nat
    <3>1. 0 * S = 0 /\ 0 \in Int /\ j + 1 \in Int /\ (j + 1) * S = j * S + S
      BY <2>1, <2>2
    <3>2. 0 * S + 0 < (j + 1) * S
      <4> DEFINE y == j * S
      <4>1. y \in Int /\ x = y + r
        BY <2>1, <2>2
      <4> HIDE DEF y
      <4>2. 0 < y + S
        BY <2>1, <2>2, <4>1
      <4>3. QED
        BY <3>1, <4>2 DEF y
    <3>3. 0 < j + 1
      <4>1. 0 \in 0 .. S - 1
        BY <2>1
      <4>2. QED
        BY <2>1, <3>1, <3>2, <4>1, BlockOrder
    <3>4. QED
      BY <2>2, <3>3
  <2>4. units[j * S + r + 1] = sector[chain[j + 1]][r]
    BY <1>1, <2>1, <2>2, <2>3 DEF LaidOut, S
  <2>5. units[i] = sector[chain[j + 1]][r]
    BY <2>1, <2>2, <2>4
  <2>6. QED
    BY <2>5 DEF j, r, x, S
<1>4. QED
  BY <1>1, <1>2, <1>3 DEF Holds, chain, size

\* A unit lies in one of the chain's sectors.
LEMMA UnitInChain ==
    ASSUME NEW size, NEW k \in Nat, Fits(size, k) \/ Room(size, k), size \in Nat,
           NEW j \in Nat, NEW r \in 0 .. SectorSize - 1, j * SectorSize + r < size
    PROVE  j + 1 \in 1 .. k
<1> DEFINE S == SectorSize
<1>1. S \in Nat \ {0} /\ k * S \in Int /\ j * S \in Int
  BY Fat12Assumption
<1>2. j * S + r < k * S
  <2>1. size <= k * S
    BY <1>1 DEF Fits, Room
  <2> DEFINE x == j * S
             y == k * S
  <2>2. x \in Int /\ y \in Int /\ size <= y /\ x + r < size
    BY <1>1, <2>1
  <2> HIDE DEF x, y, S
  <2>3. x + r < y
    BY <1>1, <2>2
  <2>4. QED
    BY <2>3 DEF x, y
<1> HIDE DEF S
<1>3. j < k
  BY <1>1, <1>2, BlockOrder DEF S
<1>4. QED
  BY <1>3

\* A file stands as long as its chain and its sectors do.
LEMMA StandsFrame ==
    ASSUME NEW links, NEW data, NEW f, NEW units, f.size \in Nat, Stands(links, data, f, units),
           Chain(links, f.first) \in Seq(Clusters),
           NEW new, Chain(new, f.first) = Chain(links, f.first),
           NEW now, \A c \in Body(links, f.first) : now[c] = data[c]
    PROVE  Stands(new, now, f, units)
<1> DEFINE chain == Chain(links, f.first)
           size == f.size
<1>1. Len(units) = size /\ Fits(size, Len(chain)) /\ LaidOut(chain, data, units)
      /\ Len(chain) \in Nat /\ size \in Nat
  BY DEF Stands
<1>2. \A i \in 1 .. Len(chain) : now[chain[i]] = data[chain[i]]
  BY DEF Body, ToSet
<1> HIDE DEF chain, size
<1>3. LaidOut(chain, now, units)
  <2> SUFFICES ASSUME NEW j \in Nat, NEW r \in 0 .. SectorSize - 1,
                      j * SectorSize + r < Len(units)
               PROVE  units[j * SectorSize + r + 1] = now[chain[j + 1]][r]
    BY DEF LaidOut
  <2>1. j + 1 \in 1 .. Len(chain)
    BY <1>1, UnitInChain
  <2>2. QED
    BY <1>1, <1>2, <2>1 DEF LaidOut
<1>4. QED
  BY <1>1, <1>3 DEF Stands, chain, size

\* What the rounds of a write have laid out: while there is more to write, the
\* sector it stands in has room.
ChainOf(w) == Chain(w.links, w.file.first)
Filling(w) ==
    /\ LaidOut(ChainOf(w), w.sector, w.put)
    /\ IF w.len > 0 /\ ~w.full /\ w.file.cur # 0
       THEN Room(w.file.pos, Len(ChainOf(w))) ELSE Fits(w.file.pos, Len(ChainOf(w)))

\* The cluster a file is given is the last of its chain.
LEMMA AllocateChain ==
    ASSUME NEW w, NEW v \in Rounds, NEW others, NEW lost, Follows(w, v, others, lost),
           FreeIn(w.links) # {}
    PROVE  /\ ChainOf(Allocate(w)) = Append(ChainOf(w), Min(FreeIn(w.links)))
           /\ ChainOf(w) \in Seq(Clusters)
<1> DEFINE x == Allocate(w)
           f == w.file
           links == w.links
           d == Min(FreeIn(links))
           a == f.first
           heads == others \cup ({a} \cap Clusters)
           s == Chain(links, a)
<1>1. w \in Rounds /\ f \in Handle /\ links \in Fats
      /\ Held(links, heads, lost) /\ AtTheEnd(links, f)
  BY DEF Follows, Rounds
<1>2. d \in Clusters /\ links[d] = FREE
  BY <1>1, FirstFree
<1>3. /\ x.file = [f EXCEPT !.first = IF f.cur = 0 THEN d ELSE @, !.cur = d]
      /\ x.links = IF f.cur = 0 THEN [links EXCEPT ![d] = EOC] ELSE Linked(links, f.cur, d)
  BY <1>1, AllocateFields
<1> HIDE DEF x, d
<1>4. x.file.first = IF f.cur = 0 THEN d ELSE a
  BY <1>1, <1>3 DEF Handle
<1>5. /\ f.cur = 0 => a = 0
      /\ f.cur # 0 => a \in Clusters /\ f.cur = s[Len(s)] /\ s \in Seq(Clusters)
  <2>1. f.first \in Clusters => f.first \in heads
    OBVIOUS
  <2> HIDE DEF heads, links, f
  <2>2. QED
    BY <1>1, <2>1, EndOfChain
<1>6. CASE f.cur = 0
  <2>1. a \notin Clusters
    <3>1. a = 0
      BY <1>5, <1>6
    <3> HIDE DEF a
    <3>2. QED
      BY <3>1 DEF Clusters
  <2> HIDE DEF a
  <2>2. s = <<>>
    BY <1>1, <2>1, ChainEmpty DEF Fats
  <2> DEFINE new == Started(links, d)
  <2>3. new = x.links
    BY <1>3, <1>6 DEF Started
  <2>4. Chain(new, d) = <<d>>
    BY <1>1, <1>2, StartedChains
  <2>5. Append(<<>>, d) = <<d>> /\ <<>> \in Seq(Clusters)
    OBVIOUS
  <2> HIDE DEF new, s
  <2>6. Chain(x.links, x.file.first) = <<d>>
    BY <1>4, <1>6, <2>3, <2>4
  <2>7. QED
    BY <2>2, <2>5, <2>6 DEF ChainOf, x, d, s, a
<1>7. CASE f.cur # 0
  <2> DEFINE new == Linked(links, s[Len(s)], d)
  <2>1. new = x.links /\ a \in heads /\ s \in Seq(Clusters)
    BY <1>3, <1>5, <1>7
  <2> HIDE DEF heads
  <2>2. Chain(new, a) = Append(s, d)
    BY <1>1, <1>2, <2>1, HeldLonger
  <2> HIDE DEF new
  <2>3. Chain(x.links, x.file.first) = Append(s, d)
    BY <1>4, <1>7, <2>1, <2>2
  <2>4. QED
    BY <2>1, <2>3 DEF ChainOf, x, d
<1>8. QED
  BY <1>6, <1>7

\* A full last sector, and a new one if there is one.
LEMMA AllocateFills ==
    ASSUME NEW w, NEW v \in Rounds, NEW others, NEW lost, Follows(w, v, others, lost),
           ~w.full, LaidOut(ChainOf(w), w.sector, w.put), Fits(w.file.pos, Len(ChainOf(w))),
           w.file.pos = Len(ChainOf(w)) * SectorSize, ChainOf(w) \in Seq(Clusters)
    PROVE  LET x == Allocate(w)
           IN  /\ x.len = w.len /\ x.file.pos = w.file.pos
               /\ LaidOut(ChainOf(x), x.sector, x.put)
               /\ x.full => Fits(x.file.pos, Len(ChainOf(x)))
               /\ ~x.full => x.file.cur # 0 /\ Room(x.file.pos, Len(ChainOf(x)))
<1> DEFINE x == Allocate(w)
           chain == ChainOf(w)
           k == Len(chain)
           d == Min(FreeIn(w.links))
<1>1. w \in Rounds /\ w.file \in Handle /\ w.links \in Fats /\ k \in Nat /\ Len(w.put) = w.file.pos
  BY DEF Follows, Rounds
<1>2. CASE FreeIn(w.links) = {}
  <2>1. x = [w EXCEPT !.full = TRUE]
    BY <1>2 DEF Allocate
  <2>2. /\ x.file = w.file /\ x.links = w.links /\ x.len = w.len
        /\ x.sector = w.sector /\ x.put = w.put /\ x.full = TRUE
    BY <1>1, <2>1 DEF Rounds
  <2> HIDE DEF x
  <2>3. QED
    BY <2>2 DEF ChainOf, x
<1>3. CASE FreeIn(w.links) # {}
  <2>1. /\ x.len = w.len /\ x.sector = w.sector /\ x.put = w.put /\ x.full = w.full
        /\ x.file = [w.file EXCEPT !.first = IF w.file.cur = 0 THEN d ELSE @, !.cur = d]
    BY <1>1, <1>3, AllocateFields
  <2>2. d \in Clusters
    BY <1>1, <1>3, FirstFree
  <2>3. ChainOf(x) = Append(chain, d)
    BY <1>3, AllocateChain
  <2> HIDE DEF x, d, chain
  <2>4. x.file.cur = d /\ x.file.pos = w.file.pos /\ d # 0
    BY <1>1, <2>1, <2>2 DEF Handle, Clusters
  <2>5. /\ Len(Append(chain, d)) = k + 1
        /\ \A i \in 1 .. k : Append(chain, d)[i] = chain[i]
    BY DEF chain
  <2>6. Room(w.file.pos, k + 1)
    <3> DEFINE y == k * SectorSize
    <3>1. y \in Int /\ (k + 1 - 1) * SectorSize = y /\ (k + 1) * SectorSize = y + SectorSize
          /\ w.file.pos = y
      BY <1>1, Fat12Assumption DEF chain
    <3> HIDE DEF y
    <3>2. QED
      BY <3>1, Fat12Assumption DEF Room
  <2>7. LaidOut(Append(chain, d), w.sector, w.put)
    <3> SUFFICES ASSUME NEW j \in Nat, NEW r \in 0 .. SectorSize - 1,
                        j * SectorSize + r < Len(w.put)
                 PROVE  w.put[j * SectorSize + r + 1] = w.sector[Append(chain, d)[j + 1]][r]
      BY DEF LaidOut
    <3>1. j + 1 \in 1 .. k
      <4> DEFINE size == w.file.pos
      <4>1. size \in Nat /\ Fits(size, k) /\ j * SectorSize + r < size
        BY <1>1 DEF Handle, chain
      <4> HIDE DEF size, k
      <4>2. QED
        BY <1>1, <4>1, UnitInChain
    <3>2. QED
      BY <2>5, <3>1 DEF LaidOut, chain
  <2>8. QED
    BY <2>1, <2>3, <2>4, <2>5, <2>6, <2>7 DEF x
<1>4. QED
  BY <1>2, <1>3

LEMMA RoomPlace ==
    ASSUME NEW p \in Nat, NEW k \in Nat, Room(p, k)
    PROVE  p = (k - 1) * SectorSize + (p % SectorSize) /\ p % SectorSize \in 0 .. SectorSize - 1
           /\ k \in Nat \ {0}
<1> DEFINE S == SectorSize
           x == (k - 1) * S
           r == p - x
<1>1. S \in Nat \ {0} /\ x \in Int /\ k * S = x + S /\ k - 1 \in Int
  BY Fat12Assumption
<1>2. x <= p /\ p < x + S
  BY <1>1 DEF Room
<1>3. r \in 0 .. S - 1 /\ p = x + r
  <2> HIDE DEF x, S
  <2>1. QED
    BY <1>1, <1>2
<1> HIDE DEF r
<1>4. (x + r) % S = r
  <2> DEFINE q == k - 1
  <2>1. q \in Int /\ x = q * S
    OBVIOUS
  <2> HIDE DEF q, S
  <2>2. (q * S + r) % S = r
    BY <1>1, <1>3, <2>1, ModUnique
  <2>3. QED
    BY <2>1, <2>2
<1>5. k # 0
  <2>1. k = 0 => k * S = 0
    BY <1>1
  <2> HIDE DEF x, S
  <2>2. QED
    BY <1>1, <1>2, <2>1
<1> HIDE DEF S
<1>6. p % S = r
  BY <1>3, <1>4
<1>7. QED
  BY <1>3, <1>5, <1>6 DEF x, S

LEMMA FilledFills ==
    ASSUME NEW w, NEW v \in Rounds, NEW others, NEW lost, Follows(w, v, others, lost),
           w.file.cur # 0, NEW name \in Names, NEW n \in 1 .. w.len,
           n <= SectorSize - (w.file.pos % SectorSize),
           LaidOut(ChainOf(w), w.sector, w.put), Room(w.file.pos, Len(ChainOf(w)))
    PROVE  LET x == Filled(w, name, n)
           IN  /\ ChainOf(x) = ChainOf(w) /\ ChainOf(w) \in Seq(Clusters)
               /\ LaidOut(ChainOf(x), x.sector, x.put)
               /\ Fits(x.file.pos, Len(ChainOf(x)))
               /\ x.file.pos = w.file.pos + n /\ x.len = w.len - n /\ x.full = w.full
               /\ x.file.cur = w.file.cur
<1> DEFINE x == Filled(w, name, n)
           f == w.file
           p == f.pos
           cur == f.cur
           off == p % SectorSize
           chain == ChainOf(w)
           k == Len(chain)
           put == w.put
           S == SectorSize
<1>1. w \in Rounds /\ f \in Handle /\ p \in Nat /\ put \in Seq(Units) /\ Len(put) = p
      /\ n \in Nat \ {0} /\ w.links \in Fats /\ S \in Nat \ {0}
  BY Fat12Assumption DEF Follows, Rounds, Handle
<1>2. /\ chain \in Seq(Clusters) /\ k \in Nat \ {0} /\ cur = chain[k] /\ cur \in Clusters
      /\ \A i, j \in 1 .. k : chain[i] = chain[j] => i = j
  <2> DEFINE a == f.first
             heads == others \cup ({a} \cap Clusters)
  <2>1. Held(w.links, heads, lost) /\ AtTheEnd(w.links, f) /\ (a \in Clusters => a \in heads)
    BY DEF Follows
  <2>2. a \in Clusters /\ cur = Chain(w.links, a)[Len(Chain(w.links, a))] /\ cur # 0
        /\ k \in Nat \ {0}
    <3> HIDE DEF heads
    <3>1. QED
      BY <1>1, <2>1, EndOfChain DEF ChainOf
  <2>3. IsChain(w.links, a, Chain(w.links, a))
    <3> HIDE DEF heads, a
    <3>1. QED
      BY <2>1, <2>2, HeldBody
  <2> HIDE DEF a, heads
  <2>4. IsChain(w.links, a, chain) /\ cur = chain[k]
    BY <2>2, <2>3 DEF ChainOf, a
  <2> HIDE DEF chain
  <2>5. QED
    BY <1>1, <2>2, <2>4 DEF IsChain, Handle
<1>3. FilledAs(x, w, name, n)
  <2> HIDE DEF x
  <2>1. QED
    BY <1>1, <1>2, FilledFields DEF x
<1> HIDE DEF x
<1>4. /\ x.links = w.links /\ x.full = w.full
      /\ x.len = w.len - n /\ x.put = put \o NewUnits(name, w, n)
      /\ x.file = [f EXCEPT !.pos = @ + n, !.size = IF f.pos + n > @ THEN f.pos + n ELSE @]
      /\ \A c \in Clusters : c # cur => x.sector[c] = w.sector[c]
      /\ \A i \in 0 .. S - 1 :
            x.sector[cur][i] = IF i \in off .. off + n - 1 THEN <<name, Len(put) + (i - off)>>
                               ELSE w.sector[cur][i]
  BY <1>3 DEF FilledAs
<1>5. x.file.first = f.first /\ x.file.pos = p + n /\ x.file.cur = cur
  <2> HIDE DEF f
  <2>1. QED
    BY <1>1, <1>4 DEF Handle
<1>6. ChainOf(x) = chain
  BY <1>4, <1>5 DEF ChainOf
<1>7. p = (k - 1) * S + off /\ off \in 0 .. S - 1
  <2>1. Room(p, k) /\ k \in Nat /\ p \in Nat
    BY <1>1, <1>2
  <2> HIDE DEF p, k
  <2>2. QED
    BY <2>1, RoomPlace DEF off, S
<1>8. /\ \A i \in 1 .. p : x.put[i] = put[i]
      /\ \A i \in 1 .. n : x.put[p + i] = <<name, p + i - 1>>
      /\ Len(x.put) = p + n
  <2> DEFINE new == NewUnits(name, w, n)
  <2>1. new \in Seq(Units) /\ Len(new) = n /\ \A i \in 1 .. n : new[i] = <<name, p + i - 1>>
    <3>1. \A i \in 1 .. n : Len(w.put) + i - 1 \in Nat
      BY <1>1
    <3>2. NewUnits(name, w, n) \in [1 .. n -> Units]
      BY <3>1 DEF NewUnits, Units
    <3>3. \A i \in 1 .. n : new[i] = <<name, p + i - 1>>
      BY <1>1 DEF NewUnits
    <3>4. QED
      BY <1>1, <3>2, <3>3
  <2> DEFINE both == put \o new
  <2>2. x.put = both
    BY <1>4
  <2> HIDE DEF new, put, p
  <2>3. /\ Len(both) = p + n /\ \A i \in 1 .. p : both[i] = put[i]
        /\ \A i \in 1 .. n : both[p + i] = new[i]
    <3>1. put \in Seq(Units) /\ new \in Seq(Units)
      BY <1>1, <2>1
    <3>2. /\ Len(both) = Len(put) + Len(new) /\ \A i \in 1 .. Len(put) : both[i] = put[i]
          /\ \A i \in 1 .. Len(new) : both[Len(put) + i] = new[i]
      BY <3>1, Parts
    <3> HIDE DEF both
    <3>3. QED
      BY <1>1, <2>1, <3>2
  <2> HIDE DEF both
  <2>4. QED
    BY <2>1, <2>2, <2>3
<1>9. n <= S - off /\ Room(p, k) /\ LaidOut(chain, w.sector, put)
  OBVIOUS
<1> HIDE DEF chain, put, p, cur, off, k
<1> DEFINE base == (k - 1) * S
<1>10. base \in Int /\ p = base + off /\ k * S = base + S
  BY <1>1, <1>2, <1>7
<1>11. Fits(p + n, k)
  <2> HIDE DEF base
  <2>1. base < p + n /\ p + n <= base + S
    BY <1>1, <1>7, <1>9, <1>10
  <2>2. QED
    BY <1>10, <2>1 DEF Fits, base, S
<1>12. ASSUME NEW j \in Nat, NEW r \in 0 .. S - 1, j * S + r < p + n
       PROVE  x.put[j * S + r + 1] = x.sector[chain[j + 1]][r]
  <2> DEFINE y == j * S + r
  <2>1. y \in Nat /\ y < p + n
    BY <1>1, <1>12
  <2>2. CASE y < p
    <3>1. j + 1 \in 1 .. k
      BY <1>1, <1>2, <1>9, <2>2, UnitInChain DEF S
    <3>2. x.put[y + 1] = w.sector[chain[j + 1]][r]
      <4>1. y + 1 \in 1 .. p
        <5> HIDE DEF y
        <5>1. QED
          BY <1>1, <2>1, <2>2
      <4>2. put[y + 1] = w.sector[chain[j + 1]][r]
        BY <1>1, <1>9, <2>2 DEF LaidOut, S
      <4>3. QED
        BY <1>8, <4>1, <4>2
    <3>3. chain[j + 1] \in Clusters
      BY <1>2, <3>1 DEF k
    <3>4. CASE chain[j + 1] # cur
      BY <1>4, <3>2, <3>3, <3>4
    <3>5. CASE chain[j + 1] = cur
      <4>1. j = k - 1
        <5>1. k \in 1 .. k
          BY <1>2
        <5>2. j + 1 = k
          BY <1>2, <3>1, <3>5, <5>1
        <5>3. QED
          BY <1>2, <5>2
      <4>2. y = base + r
        BY <4>1
      <4> HIDE DEF base, y
      <4>3. r < off
        BY <1>1, <1>7, <1>10, <2>2, <4>2
      <4>4. x.sector[cur][r] = w.sector[cur][r]
        <5>1. r \notin off .. off + n - 1
          BY <1>1, <1>7, <4>3
        <5>2. QED
          BY <1>4, <5>1
      <4>5. x.put[y + 1] = x.sector[chain[j + 1]][r]
        BY <3>2, <3>5, <4>4
      <4>6. QED
        BY <4>5 DEF y
    <3>6. QED
      BY <3>4, <3>5
  <2>3. CASE p <= y
    <3> DEFINE s == off + (y - p)
    <3>1. s \in 0 .. S - 1 /\ y = base + s
      <4> HIDE DEF y, base
      <4>1. QED
        BY <1>1, <1>7, <1>9, <1>10, <2>1, <2>3
    <3>2. j = k - 1 /\ r = s
      <4> DEFINE q == k - 1
      <4>1. q \in Int /\ j \in Int /\ j * S + r = q * S + s
        BY <1>2, <3>1
      <4> HIDE DEF q, s, y, S
      <4>2. j = q /\ r = s
        BY <1>1, <3>1, <4>1, BlockSame
      <4>3. QED
        BY <4>2 DEF q
    <3>3. chain[j + 1] = cur
      <4>1. j + 1 = k
        BY <1>2, <3>2
      <4>2. QED
        BY <1>2, <4>1
    <3> HIDE DEF y, base
    <3>4. r \in off .. off + n - 1 /\ r - off = y - p /\ y - p + 1 \in 1 .. n
      <4>1. off \in Int /\ p \in Int /\ y \in Int /\ n \in Int /\ r = off + (y - p)
            /\ p <= y /\ y < p + n
        BY <1>1, <1>7, <2>1, <2>3, <3>2
      <4>2. QED
        BY <4>1
    <3>5. x.sector[cur][r] = <<name, p + (y - p)>>
      <4>1. x.sector[cur][r] = <<name, Len(put) + (r - off)>>
        BY <1>4, <3>4
      <4>2. QED
        BY <1>1, <3>4, <4>1
    <3>6. x.put[y + 1] = <<name, p + (y - p)>>
      <4> DEFINE i == y - p + 1
      <4>1. i \in 1 .. n /\ p + i = y + 1 /\ p + i - 1 = p + (y - p)
        BY <1>1, <2>1, <3>4
      <4> HIDE DEF i
      <4>2. QED
        BY <1>8, <4>1
    <3>7. QED
      BY <3>3, <3>5, <3>6 DEF y
  <2>4. QED
    <3> HIDE DEF y
    <3>1. y < p \/ p <= y
      BY <1>1, <2>1
    <3>2. QED
      BY <2>2, <2>3, <3>1 DEF y
<1>13. LaidOut(chain, x.sector, x.put)
  BY <1>8, <1>12 DEF LaidOut, S
<1>14. ChainOf(x) = chain
  BY <1>6
<1> HIDE DEF f
<1>15. QED
  BY <1>2, <1>4, <1>5, <1>11, <1>13, <1>14 DEF x, chain, k, p, cur, f

\* A size that ends with a sector.
LEMMA FitsEnd ==
    ASSUME NEW p \in Nat, NEW k \in Nat, Fits(p, k), p % SectorSize = 0
    PROVE  p = k * SectorSize
<1> DEFINE S == SectorSize
           q == p \div S
           x == k * S
           y == q * S
<1>1. S \in Nat \ {0} /\ p \in Int
  BY Fat12Assumption
<1>2. q \in Int /\ p = y
  <2>1. q \in Int /\ p = y + (p % S)
    BY <1>1, DivSplit
  <2>2. p % S = 0
    OBVIOUS
  <2>3. y \in Int
    BY <1>1, <2>1
  <2> HIDE DEF y, q, S
  <2>4. QED
    BY <2>1, <2>2, <2>3
<1> HIDE DEF q
<1>3. (k - 1) * S = x - S /\ (k + 1) * S = x + S /\ x \in Int /\ y \in Int
  BY <1>1, <1>2
<1>4. x - S < y /\ y <= x
  BY <1>2, <1>3 DEF Fits
<1>5. (k - 1) * S + 0 < q * S /\ q * S + 0 < (k + 1) * S /\ 0 \in 0 .. S - 1
  BY <1>1, <1>3, <1>4
<1>6. k - 1 \in Int /\ k + 1 \in Int
  OBVIOUS
<1> HIDE DEF S
<1>7. k - 1 < q /\ q < k + 1
  BY <1>1, <1>2, <1>5, <1>6, BlockOrder
<1>8. q = k
  BY <1>2, <1>7
<1>9. QED
  BY <1>2, <1>8 DEF S

LEMMA RoundFills ==
    ASSUME NEW w, NEW v \in Rounds, NEW others, NEW lost, Follows(w, v, others, lost),
           NEW name \in Names, w.len > 0, ~w.full, Filling(w)
    PROVE  LET x == WriteRound(w, name)
           IN  Filling(x) /\ x.len \in Nat /\ (x.full \/ x.len < w.len)
<1> DEFINE ready == IF w.file.cur = 0 THEN Allocate(w) ELSE w
           p == ready.file.pos
           off == p % SectorSize
           n == Min({SectorSize - off, ready.len})
           filled == Filled(ready, name, n)
           x == WriteRound(w, name)
<1>1. w \in Rounds /\ w.len \in Nat \ {0} /\ Follows(ready, v, others, lost)
      /\ w.file \in Handle /\ w.file.pos \in Nat
  <2>1. Follows(ready, v, others, lost)
    BY AllocateFollows
  <2>2. w \in Rounds /\ w.len \in Nat \ {0} /\ w.file \in Handle /\ w.file.pos \in Nat
    BY DEF Follows, Rounds, Handle
  <2>3. QED
    BY <2>1, <2>2
<1>2. /\ ready.len = w.len /\ LaidOut(ChainOf(ready), ready.sector, ready.put)
      /\ ready.full => Fits(ready.file.pos, Len(ChainOf(ready)))
      /\ ~ready.full => ready.file.cur # 0 /\ Room(ready.file.pos, Len(ChainOf(ready)))
  <2>1. CASE w.file.cur # 0
    BY <1>1, <2>1 DEF Filling
  <2>2. CASE w.file.cur = 0
    <3>1. ChainOf(w) = <<>>
      <4> DEFINE a == w.file.first
                 heads == others \cup ({a} \cap Clusters)
      <4>1. /\ Held(w.links, heads, lost) /\ AtTheEnd(w.links, w.file)
            /\ a \in Clusters => a \in heads
            /\ w.links \in Fats
        BY <1>1 DEF Follows, Rounds
      <4>2. a = 0
        <5> HIDE DEF heads
        <5>1. QED
          BY <1>1, <2>2, <4>1, EndOfChain
      <4> HIDE DEF a
      <4>3. a \notin Clusters
        BY <4>2 DEF Clusters
      <4>4. QED
        BY <4>1, <4>3, ChainEmpty DEF ChainOf, Fats, a
    <3>2. Len(ChainOf(w)) = 0 /\ ChainOf(w) \in Seq(Clusters)
      BY <3>1
    <3>3. Fits(w.file.pos, 0) /\ LaidOut(ChainOf(w), w.sector, w.put)
      BY <2>2, <3>2 DEF Filling
    <3>4. w.file.pos = 0 * SectorSize
      BY <1>1, <3>3, Fat12Assumption DEF Fits
    <3> DEFINE y == Allocate(w)
    <3>5. /\ y.len = w.len /\ LaidOut(ChainOf(y), y.sector, y.put)
          /\ y.full => Fits(y.file.pos, Len(ChainOf(y)))
          /\ ~y.full => y.file.cur # 0 /\ Room(y.file.pos, Len(ChainOf(y)))
      BY <3>2, <3>3, <3>4, AllocateFills
    <3>6. ready = y
      BY <2>2
    <3> HIDE DEF y, ready
    <3>7. QED
      BY <3>5, <3>6
  <2>3. QED
    BY <2>1, <2>2
<1>3. ready \in Rounds
  BY <1>1 DEF Follows
<1>4. x = IF ready.full THEN ready
          ELSE IF filled.file.pos % SectorSize = 0 /\ filled.len > 0
               THEN Allocate(filled) ELSE filled
  BY DEF WriteRound
<1> HIDE DEF ready, x
<1>5. CASE ready.full
  BY <1>1, <1>2, <1>4, <1>5 DEF Filling, x
<1>6. CASE ~ready.full
  <2>1. p \in Nat /\ ready.len \in Nat \ {0} /\ ready.file.cur # 0 /\ ready.len = w.len
    BY <1>1, <1>2, <1>3, <1>6 DEF Rounds, Handle
  <2>2. n \in 1 .. ready.len /\ n <= SectorSize - off /\ (n = ready.len \/ n = SectorSize - off)
    <3> HIDE DEF p
    <3>1. QED
      BY <2>1, RoundSize
  <2> HIDE DEF n
  <2>3. Follows(filled, v, others, lost)
    BY <1>1, <2>1, <2>2, FilledFollows
  <2> DEFINE chain == ChainOf(ready)
             k == Len(chain)
  <2>4. /\ ChainOf(filled) = chain /\ chain \in Seq(Clusters)
        /\ LaidOut(ChainOf(filled), filled.sector, filled.put)
        /\ Fits(filled.file.pos, Len(ChainOf(filled)))
        /\ filled.file.pos = p + n /\ filled.len = ready.len - n /\ filled.full = ready.full
    BY <1>1, <1>2, <1>6, <2>1, <2>2, FilledFills
  <2> HIDE DEF filled
  <2>5. k \in Nat /\ Room(p, k)
    BY <1>2, <1>6, <2>4
  <2> HIDE DEF chain, k
  <2>6. filled.len \in Nat /\ filled.len < w.len
    BY <2>1, <2>2, <2>4
  <2>7. CASE filled.file.pos % SectorSize = 0 /\ filled.len > 0
    <3>1. x = Allocate(filled)
      BY <1>4, <1>6, <2>7
    <3>2. filled.file.pos = Len(ChainOf(filled)) * SectorSize
      <4> DEFINE size == filled.file.pos
      <4>1. size \in Nat /\ Fits(size, k) /\ size % SectorSize = 0 /\ Len(ChainOf(filled)) = k
        BY <2>1, <2>2, <2>4, <2>7 DEF k
      <4> HIDE DEF size
      <4>2. size = k * SectorSize
        BY <2>5, <4>1, FitsEnd
      <4>3. QED
        BY <4>1, <4>2 DEF size
    <3> DEFINE y == Allocate(filled)
    <3>3. /\ y.len = filled.len /\ LaidOut(ChainOf(y), y.sector, y.put)
          /\ y.full => Fits(y.file.pos, Len(ChainOf(y)))
          /\ ~y.full => y.file.cur # 0 /\ Room(y.file.pos, Len(ChainOf(y)))
      BY <1>6, <2>3, <2>4, <3>2, AllocateFills
    <3> HIDE DEF y
    <3>4. Filling(y) /\ y.len \in Nat /\ y.len < w.len
      BY <2>6, <2>7, <3>3 DEF Filling
    <3>5. QED
      BY <3>1, <3>4 DEF x, y
  <2>8. CASE ~(filled.file.pos % SectorSize = 0 /\ filled.len > 0)
    <3>1. x = filled
      BY <1>4, <1>6, <2>8
    <3>2. filled.len = 0
      <4> SUFFICES ASSUME n = SectorSize - off, filled.file.pos % SectorSize # 0
                   PROVE  FALSE
        BY <2>1, <2>2, <2>4, <2>8
      <4>1. p = (k - 1) * SectorSize + off /\ off \in 0 .. SectorSize - 1 /\ k \in Nat \ {0}
        <5> HIDE DEF p
        <5>1. QED
          BY <2>1, <2>5, RoomPlace
      <4> DEFINE base == (k - 1) * SectorSize
      <4>2. base \in Int /\ k * SectorSize = base + SectorSize
        BY <4>1, Fat12Assumption
      <4> HIDE DEF base, off, p
      <4>3. p + n = k * SectorSize + 0
        BY <4>1, <4>2, Fat12Assumption DEF base
      <4>4. (k * SectorSize + 0) % SectorSize = 0
        BY <4>1, Fat12Assumption, ModUnique
      <4>5. QED
        BY <2>4, <4>3, <4>4
    <3>3. Filling(filled)
      BY <2>4, <3>2 DEF Filling
    <3>4. QED
      BY <2>6, <3>1, <3>3 DEF x
  <2>9. QED
    BY <2>7, <2>8
<1>7. QED
  BY <1>5, <1>6

\* Each round writes something or finds the disk full, so the rounds end.
LEMMA WrittenEnds ==
    ASSUME NEW S, NEW start \in S, NEW name,
           \A w \in S : w.len \in Nat,
           \A w \in S : w.len > 0 /\ ~w.full =>
                          LET x == WriteRound(w, name)
                          IN  x \in S /\ (x.full \/ x.len < w.len)
    PROVE  LET w == Written(start, name) IN w \in S /\ (w.full \/ w.len = 0)
<1> DEFINE n == start.len
           round(w) == IF w.len > 0 /\ ~w.full THEN WriteRound(w, name) ELSE w
<1>1. n \in Nat /\ \A w \in S : w.len > 0 /\ ~w.full => WriteRound(w, name) \in S
  OBVIOUS
<1>2. PICK after \in [0 .. n -> S] :
              /\ after[0] = start
              /\ \A k \in 1 .. n :
                    after[k] = IF after[k - 1].len > 0 /\ ~after[k - 1].full
                               THEN WriteRound(after[k - 1], name) ELSE after[k - 1]
              /\ Written(start, name) = after[n]
  BY <1>1, WrittenRounds
<1>3. \A w \in S : /\ w.len \in Nat /\ round(w).len \in Nat
                   /\ w.full \/ w.len = 0 => round(w) = w
                   /\ round(w).full \/ round(w).len = 0 \/ round(w).len < w.len
  <2> SUFFICES ASSUME NEW w \in S
               PROVE  /\ w.len \in Nat /\ round(w).len \in Nat
                      /\ w.full \/ w.len = 0 => round(w) = w
                      /\ round(w).full \/ round(w).len = 0 \/ round(w).len < w.len
    OBVIOUS
  <2>1. CASE w.len > 0 /\ ~w.full
    <3> DEFINE x == WriteRound(w, name)
    <3>1. x \in S /\ (x.full \/ x.len < w.len) /\ w.len \in Nat
      BY <2>1
    <3>2. round(w) = x
      BY <2>1
    <3> HIDE DEF x
    <3>3. QED
      BY <2>1, <3>1, <3>2
  <2>2. CASE ~(w.len > 0 /\ ~w.full)
    BY <2>2
  <2>3. QED
    BY <2>1, <2>2
<1>4. \A k \in 1 .. n : k - 1 \in 0 .. n /\ k \in 0 .. n /\ after[k] = round(after[k - 1])
  BY <1>1, <1>2
<1>5. after[0].len = n
  BY <1>2
<1> HIDE DEF n, round
<1> DEFINE A == {k \in 0 .. n : after[k].full \/ after[k].len = 0 \/ after[k].len <= n - k}
<1>6. 0 \in A
  BY <1>1, <1>5
<1>7. ASSUME NEW k \in 1 .. n, k - 1 \in A
      PROVE  k \in A
  <2> DEFINE x == after[k - 1]
             y == after[k]
  <2>1. x \in S /\ y = round(x) /\ k \in 0 .. n
        /\ (x.full \/ x.len = 0 \/ x.len <= n - (k - 1))
    BY <1>4, <1>7
  <2> HIDE DEF x, y
  <2>2. /\ x.len \in Nat /\ y.len \in Nat /\ (x.full \/ x.len = 0 => y = x)
        /\ y.full \/ y.len = 0 \/ y.len < x.len
    BY <1>3, <2>1
  <2>3. y.full \/ y.len = 0 \/ y.len <= n - k
    BY <1>1, <2>1, <2>2
  <2>4. QED
    BY <2>1, <2>3 DEF y
<1>8. n \in A
  <2> HIDE DEF A
  <2>1. \A k \in 0 .. n : k \in A
    BY <1>1, <1>6, <1>7, UpTo
  <2>2. QED
    BY <1>1, <2>1
<1> DEFINE w == Written(start, name)
<1>9. w = after[n] /\ w \in S
  BY <1>1, <1>2
<1>10. w.full \/ w.len = 0 \/ w.len <= n - n
  BY <1>8, <1>9
<1> HIDE DEF w
<1>11. w.len \in Nat
  BY <1>3, <1>9
<1>12. QED
  BY <1>1, <1>9, <1>10, <1>11 DEF w

\* A write ends with the file laid out as long as it is.
LEMMA WriteFills ==
    ASSUME FatInv, NEW h \in Writers, NEW len \in Nat, NEW name \in Names,
           Filling(WriteFrom(h, len))
    PROVE  LET w == Written(WriteFrom(h, len), name)
           IN  Follows(w, WriteFrom(h, len), Others(h), orphans)
               /\ Stands(w.links, w.sector, w.file, w.put)
<1> DEFINE v == WriteFrom(h, len)
           S == {w \in Rounds : Follows(w, v, Others(h), orphans) /\ Filling(w)}
<1>1. v \in Rounds /\ v \in S
  BY WriteStarts
<1> HIDE DEF v
<1>2. \A w \in S : w.len \in Nat
  BY DEF Rounds
<1>3. ASSUME NEW w \in S, w.len > 0, ~w.full
      PROVE  LET x == WriteRound(w, name)
             IN  x \in S /\ (x.full \/ x.len < w.len)
  <2> DEFINE x == WriteRound(w, name)
  <2>1. Follows(w, v, Others(h), orphans) /\ Filling(w)
    OBVIOUS
  <2>2. Follows(x, v, Others(h), orphans)
    BY <1>1, <1>3, <2>1, WriteRoundFollows
  <2>3. Filling(x) /\ (x.full \/ x.len < w.len)
    BY <1>1, <1>3, <2>1, RoundFills
  <2> HIDE DEF x
  <2>4. x \in Rounds
    BY <2>2 DEF Follows
  <2>5. QED
    BY <2>2, <2>3, <2>4 DEF x
<1>4. \A w \in S : w.len > 0 /\ ~w.full =>
                     LET x == WriteRound(w, name)
                     IN  x \in S /\ (x.full \/ x.len < w.len)
  BY <1>3
<1> HIDE DEF S
<1> DEFINE w == Written(v, name)
<1>5. w \in S /\ (w.full \/ w.len = 0)
  BY <1>1, <1>2, <1>4, WrittenEnds
<1> HIDE DEF w
<1>6. w \in S /\ (w.full \/ ~(w.len > 0))
  BY <1>5
<1>7. Follows(w, v, Others(h), orphans) /\ Filling(w)
  BY <1>6 DEF S
<1>8. Stands(w.links, w.sector, w.file, w.put)
  <2>1. Len(w.put) = w.file.pos /\ w.file.size = w.file.pos
    BY <1>7 DEF Follows
  <2>2. LaidOut(ChainOf(w), w.sector, w.put) /\ Fits(w.file.pos, Len(ChainOf(w)))
    BY <1>6, <1>7 DEF Filling
  <2>3. QED
    BY <2>1, <2>2 DEF Stands, ChainOf
<1>9. QED
  BY <1>7, <1>8 DEF w, v

----------------------------------------------------------------------------
(* FAT12: what a reader gets *)

\* A reader that has got the first units of the entry's file, and stands in the
\* sector with the next one.
ReaderAt(links, f, got, entry, units) ==
    LET chain == Chain(links, f.first) IN
      /\ f.first = entry.first /\ f.size = entry.size /\ f.pos <= f.size
      /\ Len(got) = f.pos /\ \A i \in 1 .. f.pos : got[i] = units[i]
      /\ \A q \in Nat, r \in 0 .. SectorSize - 1 :
            f.pos = q * SectorSize + r /\ f.pos < f.size => f.cur = chain[q + 1]

\* Where a place lies.
LEMMA PlaceOf ==
    ASSUME NEW p \in Nat
    PROVE  \E q \in Nat, r \in 0 .. SectorSize - 1 :
              p = q * SectorSize + r /\ p % SectorSize = r
<1> DEFINE S == SectorSize
           q == p \div S
           r == p % S
<1>1. S \in Nat \ {0} /\ p \in Int
  BY Fat12Assumption
<1> HIDE DEF S
<1>2. q \in Int /\ p = q * S + r
  BY <1>1, DivSplit
<1>3. r \in 0 .. S - 1
  BY <1>1, ModRange
<1> HIDE DEF q, r
<1>4. 0 < q + 1
  <2> DEFINE x == q * S
  <2>1. x \in Int /\ (q + 1) * S = x + S /\ 0 * S = 0 /\ p = x + r
    BY <1>1, <1>2
  <2> HIDE DEF x
  <2>2. 0 < x + S
    BY <1>1, <1>3, <2>1
  <2>3. 0 * S + 0 < (q + 1) * S /\ 0 \in 0 .. S - 1 /\ 0 \in Int /\ q + 1 \in Int
    BY <1>1, <1>2, <2>1, <2>2
  <2>4. QED
    BY <1>1, <2>3, BlockOrder
<1>5. q \in Nat
  BY <1>2, <1>4
<1>6. p % S = r
  BY DEF r
<1>7. QED
  BY <1>2, <1>3, <1>5, <1>6 DEF S

\* The next sector's number, in place of the next cluster's.
LEMMA PlaceAfter ==
    ASSUME NEW q \in Nat, NEW off \in 0 .. SectorSize - 1, NEW n \in 1 .. SectorSize - off,
           NEW j \in Nat, NEW r \in 0 .. SectorSize - 1,
           q * SectorSize + off + n = j * SectorSize + r
    PROVE  /\ (q * SectorSize + off + n) % SectorSize = 0 => j = q + 1
           /\ (q * SectorSize + off + n) % SectorSize # 0 => j = q
<1> DEFINE S == SectorSize
           x == q * S
           y == q * S + off + n
           m == off + n
<1>1. S \in Nat \ {0} /\ x \in Int /\ (q + 1) * S = x + S
  BY Fat12Assumption
<1>2. y = x + m /\ m \in 1 .. S /\ y = j * S + r
  <2> HIDE DEF x
  <2>1. m \in 1 .. S
    BY <1>1
  <2>2. x + off + n = x + m
    BY <1>1
  <2>3. QED
    BY <2>1, <2>2 DEF x
<1> HIDE DEF y, m
<1>3. CASE m < S
  <2>1. m \in 0 .. S - 1 /\ y = q * S + m
    BY <1>1, <1>2, <1>3 DEF x
  <2> HIDE DEF x, S
  <2>2. q * S + m = j * S + r
    BY <1>2, <2>1
  <2>3. j = q
    BY <1>1, <2>1, <2>2, BlockSame DEF S
  <2>4. y % S = m
    BY <1>1, <2>1, ModUnique
  <2>5. y % S # 0
    BY <1>1, <1>2, <2>4
  <2>6. QED
    BY <2>3, <2>5 DEF y, S
<1>4. CASE m = S
  <2> DEFINE e == q + 1
  <2>1. y = e * S + 0 /\ e \in Int /\ 0 \in 0 .. S - 1
    BY <1>1, <1>2, <1>4
  <2> HIDE DEF x, S, e
  <2>2. y % S = 0
    BY <1>1, <2>1, ModUnique
  <2>3. e * S + 0 = j * S + r
    BY <1>2, <2>1
  <2>4. j = e
    BY <1>1, <2>1, <2>3, BlockSame DEF S
  <2>5. QED
    BY <2>2, <2>4 DEF y, S, e
<1>5. QED
  BY <1>1, <1>2, <1>3, <1>4

\* A round of a read takes the file's next units.
LEMMA ReaderTakes ==
    ASSUME FatInv, NEW entry, NEW units \in Seq(Units), Stands(Fat, sector, entry, units),
           entry.size \in Nat, IsChain(Fat, entry.first, Chain(Fat, entry.first)),
           NEW r \in Readings, r.file.pos < r.file.size, NEW got \in Seq(Units),
           ReaderAt(Fat, r.file, got, entry, units), NEW x, NEW n, TakenAs(x, r, n)
    PROVE  ReaderAt(Fat, x.file, got \o Taken(r, n), entry, units)
<1> DEFINE S == SectorSize
           f == r.file
           p == f.pos
           size == f.size
           chain == Chain(Fat, f.first)
           k == Len(chain)
           more == Taken(r, n)
<1>1. S \in Nat \ {0} /\ p \in Nat /\ size \in Nat /\ p < size
  BY Fat12Assumption DEF Readings, Handle
<1>2. /\ f.first = entry.first /\ size = entry.size
      /\ Len(got) = p /\ \A i \in 1 .. p : got[i] = units[i]
      /\ \A q \in Nat, s \in 0 .. S - 1 :
            p = q * S + s /\ p < size => f.cur = chain[q + 1]
  BY DEF ReaderAt
<1>3. Len(units) = size /\ Fits(size, k) /\ LaidOut(chain, sector, units)
      /\ IsChain(Fat, f.first, chain)
  BY <1>2 DEF Stands
<1>4. k \in Nat /\ chain \in Seq(Clusters)
  BY <1>3 DEF IsChain
<1> HIDE DEF chain, k
<1>5. PICK q \in Nat, off \in 0 .. S - 1 : p = q * S + off /\ p % S = off
  BY <1>1, PlaceOf
<1>6. /\ n \in 1 .. r.len /\ n <= S - off /\ n <= size - p
      /\ more \in Seq(Units) /\ Len(more) = n
      /\ x.file.first = f.first /\ x.file.size = size /\ x.file.pos = p + n
      /\ x.file.cur = IF Onward(r, n) \in Clusters THEN Onward(r, n) ELSE f.cur
  BY <1>5 DEF TakenAs
<1>7. n \in Nat \ {0} /\ n \in 1 .. S - off
  <2>1. r.len \in Nat
    BY DEF Readings
  <2> HIDE DEF S, p
  <2>2. QED
    BY <1>1, <1>5, <1>6, <2>1
<1>8. f.cur = chain[q + 1]
  BY <1>1, <1>2, <1>5
<1>9. \A i \in 1 .. n : more[i] = sector[f.cur][off + i - 1]
  BY <1>5 DEF Taken
<1> HIDE DEF f, p, size, more
<1>10. ASSUME NEW i \in 1 .. n
       PROVE  more[i] = units[p + i]
  <2> DEFINE s == off + i - 1
             y == q * S
  <2>1. s \in 0 .. S - 1 /\ y \in Int /\ p = y + off
    <3>1. y \in Int
      BY <1>1
    <3> HIDE DEF y, S
    <3>2. s \in 0 .. S - 1
      BY <1>1, <1>5, <1>7
    <3>3. QED
      BY <1>5, <3>1, <3>2 DEF y
  <2> HIDE DEF y
  <2>2. y + s < size /\ y + s + 1 = p + i
    BY <1>1, <1>5, <1>6, <1>7, <2>1
  <2>3. q * S + s < Len(units)
    BY <1>3, <2>2 DEF y
  <2> HIDE DEF s
  <2>4. units[q * S + s + 1] = sector[chain[q + 1]][s]
    BY <1>3, <2>1, <2>3 DEF LaidOut
  <2>5. more[i] = sector[chain[q + 1]][s]
    BY <1>8, <1>9 DEF s
  <2>6. units[p + i] = units[q * S + s + 1]
    BY <2>2 DEF y
  <2>7. QED
    BY <2>4, <2>5, <2>6
<1> DEFINE both == got \o more
<1>11. Len(both) = p + n /\ \A i \in 1 .. p + n : both[i] = units[i]
  <2>1. /\ Len(both) = p + n
        /\ \A i \in 1 .. p : both[i] = got[i]
        /\ \A i \in 1 .. n : both[p + i] = more[i]
    <3>1. /\ Len(both) = Len(got) + Len(more)
          /\ \A i \in 1 .. Len(got) : both[i] = got[i]
          /\ \A i \in 1 .. Len(more) : both[Len(got) + i] = more[i]
      <4>1. got \in Seq(Units) /\ more \in Seq(Units)
        BY <1>6
      <4>2. QED
        BY <4>1, Parts
    <3> HIDE DEF both
    <3>2. QED
      BY <1>2, <1>6, <3>1
  <2> HIDE DEF both
  <2>2. ASSUME NEW i \in 1 .. p + n
        PROVE  both[i] = units[i]
    <3>1. CASE i <= p
      <4>1. i \in 1 .. p
        BY <1>1, <1>7, <3>1
      <4>2. QED
        BY <1>2, <2>1, <4>1
    <3>2. CASE p < i
      <4> DEFINE e == i - p
      <4>1. e \in 1 .. n /\ p + e = i
        BY <1>1, <1>7, <3>2
      <4> HIDE DEF e
      <4>2. both[p + e] = units[p + e]
        BY <1>10, <2>1, <4>1
      <4>3. QED
        BY <4>1, <4>2
    <3>3. QED
      BY <1>1, <1>7, <3>1, <3>2
  <2>3. QED
    BY <2>1, <2>2
<1> HIDE DEF both
<1>12. p + n <= size
  BY <1>1, <1>6, <1>7
<1>13. ASSUME NEW j \in Nat, NEW s \in 0 .. S - 1, p + n = j * S + s, p + n < size
       PROVE  x.file.cur = chain[j + 1]
  <2>1. p + n = q * S + off + n
    BY <1>5
  <2>2. /\ (p + n) % S = 0 => j = q + 1
        /\ (p + n) % S # 0 => j = q
    <3>1. q * S + off + n = j * S + s
      BY <1>13, <2>1
    <3>2. /\ (q * S + off + n) % S = 0 => j = q + 1
          /\ (q * S + off + n) % S # 0 => j = q
      BY <1>7, <3>1, PlaceAfter
    <3>3. QED
      BY <2>1, <3>2
  <2>3. j + 1 \in 1 .. k
    <3>1. j * S + s < size
      BY <1>13
    <3>2. QED
      BY <1>1, <1>3, <1>4, <3>1, UnitInChain
  <2>4. CASE (p + n) % S = 0
    <3>1. Onward(r, n) = Fat[f.cur]
      BY <2>4 DEF Onward, p, f, S
    <3>2. j = q + 1 /\ j \in 1 .. k - 1
      BY <1>4, <1>5, <2>2, <2>3, <2>4
    <3>3. Fat[chain[j]] = chain[j + 1]
      BY <1>3, <3>2 DEF IsChain, k
    <3>4. chain[j + 1] \in Clusters
      BY <1>4, <2>3 DEF k
    <3>5. QED
      BY <1>6, <1>8, <3>1, <3>2, <3>3, <3>4
  <2>5. CASE (p + n) % S # 0
    <3>1. Onward(r, n) = f.cur
      BY <2>5 DEF Onward, p, f, S
    <3>2. j = q
      BY <2>2, <2>5
    <3>3. QED
      BY <1>6, <1>8, <3>1, <3>2
  <2>6. QED
    BY <2>4, <2>5
<1>14. /\ x.file.first = entry.first /\ x.file.size = entry.size /\ x.file.size = size
       /\ x.file.pos = p + n /\ Chain(Fat, x.file.first) = chain
  BY <1>2, <1>6 DEF chain, f, size, p
<1>15. QED
  BY <1>11, <1>12, <1>13, <1>14 DEF ReaderAt, both, more, S

----------------------------------------------------------------------------
(* FAT12: every file holds what was written *)

\* The caller starts a file anew instead of going on where a write ended on a
\* sector boundary.
NoSplits == ~SplitsFull

ReaderIs(h) ==
    \/ file[h].size = 0 /\ file[h].pos = 0 /\ moved[h] = <<>>
    \/ /\ ~BeingWritten(file[h].slot)
       /\ ReaderAt(Fat, file[h], moved[h], dir[file[h].slot], stored[file[h].slot])

DataInv ==
    /\ \A s \in Named : Stands(Fat, sector, dir[s], stored[s])
    /\ \A h \in Writers : Stands(Fat, sector, file[h], moved[h])
    /\ \A h \in Handles : file[h].mode = "reads" => ReaderIs(h)

LEMMA HeadChain ==
    ASSUME FatInv, NEW a \in Clusters \cup {0}, a \in Clusters => a \in DirHeads \cup WriterHeads
    PROVE  IsChain(Fat, a, Chain(Fat, a)) /\ Chain(Fat, a) \in Seq(Clusters)
<1>1. CASE a \in Clusters
  <2>1. Held(Fat, DirHeads \cup WriterHeads, orphans)
    BY DEF FatInv
  <2>2. IsChain(Fat, a, Chain(Fat, a))
    BY <1>1, <2>1 DEF Held
  <2>3. QED
    BY <2>2 DEF IsChain
<1>2. CASE a \notin Clusters
  <2>1. Chain(Fat, a) = <<>>
    BY <1>2, FatType, ChainEmpty DEF Fats
  <2>2. IsChain(Fat, a, <<>>)
    BY <1>2 DEF IsChain
  <2>3. QED
    BY <2>1, <2>2
<1>3. QED
  BY <1>1, <1>2

LEMMA SlotChain ==
    ASSUME FatInv, NEW s \in Named
    PROVE  /\ s \in Slots /\ dir[s].first \in Clusters \cup {0} /\ dir[s].size \in Nat
           /\ stored[s] \in Seq(Units)
           /\ dir[s].first \in Clusters => dir[s].first \in DirHeads
           /\ IsChain(Fat, dir[s].first, Chain(Fat, dir[s].first))
           /\ Chain(Fat, dir[s].first) \in Seq(Clusters)
<1>1. s \in Slots /\ dir[s].first \in Clusters \cup {0} /\ dir[s].size \in Nat
      /\ stored[s] \in Seq(Units)
  BY DEF Named, FatInv, FatTypeOK, HistoryOK
<1>2. dir[s].first \in Clusters => dir[s].first \in DirHeads
  BY DEF DirHeads
<1>3. QED
  BY <1>1, <1>2, HeadChain

LEMMA WriterChain ==
    ASSUME FatInv, NEW h \in Writers
    PROVE  /\ h \in Handles /\ file[h] \in Handle /\ file[h].size \in Nat
           /\ file[h].first \in Clusters \cup {0} /\ moved[h] \in Seq(Units)
           /\ file[h].first \in Clusters => file[h].first \in WriterHeads
           /\ IsChain(Fat, file[h].first, Chain(Fat, file[h].first))
           /\ Chain(Fat, file[h].first) \in Seq(Clusters)
<1>1. h \in Handles /\ file[h] \in Handle /\ moved[h] \in Seq(Units)
  BY DEF Writers, FatInv, FatTypeOK, HistoryOK
<1>2. file[h].first \in Clusters \cup {0} /\ file[h].size \in Nat
  BY <1>1 DEF Handle
<1>3. file[h].first \in Clusters => file[h].first \in WriterHeads
  BY DEF WriterHeads
<1>4. QED
  BY <1>1, <1>2, <1>3, HeadChain

\* A file whose sectors and links no step touches.
LEMMA SlotKept ==
    ASSUME FatInv, DataInv, NEW s \in Named, dir'[s] = dir[s], stored'[s] = stored[s],
           Chain(Fat', dir[s].first) = Chain(Fat, dir[s].first),
           \A c \in Body(Fat, dir[s].first) : sector'[c] = sector[c]
    PROVE  Stands(Fat', sector', dir'[s], stored'[s])
<1> DEFINE f == dir[s]
           u == stored[s]
           new == Fat'
           now == sector'
<1>1. f.size \in Nat /\ Stands(Fat, sector, f, u) /\ Chain(Fat, f.first) \in Seq(Clusters)
  BY SlotChain DEF DataInv
<1>2. /\ Chain(new, f.first) = Chain(Fat, f.first)
      /\ \A c \in Body(Fat, f.first) : now[c] = sector[c]
      /\ dir'[s] = f /\ stored'[s] = u
  OBVIOUS
<1> HIDE DEF f, u, new, now
<1>3. Stands(new, now, f, u)
  BY <1>1, <1>2, StandsFrame
<1>4. QED
  BY <1>2, <1>3 DEF new, now

LEMMA WriterKept ==
    ASSUME FatInv, DataInv, NEW h \in Writers, file'[h] = file[h], moved'[h] = moved[h],
           Chain(Fat', file[h].first) = Chain(Fat, file[h].first),
           \A c \in Body(Fat, file[h].first) : sector'[c] = sector[c]
    PROVE  Stands(Fat', sector', file'[h], moved'[h])
<1> DEFINE f == file[h]
           u == moved[h]
           new == Fat'
           now == sector'
<1>1. f.size \in Nat /\ Stands(Fat, sector, f, u) /\ Chain(Fat, f.first) \in Seq(Clusters)
  BY WriterChain DEF DataInv
<1>2. /\ Chain(new, f.first) = Chain(Fat, f.first)
      /\ \A c \in Body(Fat, f.first) : now[c] = sector[c]
      /\ file'[h] = f /\ moved'[h] = u
  OBVIOUS
<1> HIDE DEF f, u, new, now
<1>3. Stands(new, now, f, u)
  BY <1>1, <1>2, StandsFrame
<1>4. QED
  BY <1>2, <1>3 DEF new, now

LEMMA ReaderKept ==
    ASSUME DataInv, NEW h \in Handles, file[h].mode = "reads",
           file'[h] = file[h], moved'[h] = moved[h],
           NEW s, s = file[h].slot, dir'[s] = dir[s], stored'[s] = stored[s],
           Chain(Fat', dir[s].first) = Chain(Fat, dir[s].first),
           BeingWritten(s)' => BeingWritten(s)
    PROVE  ReaderIs(h)'
<1>1. ReaderIs(h)
  BY DEF DataInv
<1>2. CASE file[h].size = 0 /\ file[h].pos = 0 /\ moved[h] = <<>>
  BY <1>2 DEF ReaderIs
<1>3. CASE ~BeingWritten(s) /\ ReaderAt(Fat, file[h], moved[h], dir[s], stored[s])
  <2> DEFINE f == file[h]
             new == Fat'
  <2>1. ReaderAt(Fat, f, moved[h], dir[s], stored[s]) /\ f.first = dir[s].first
    BY <1>3 DEF ReaderAt
  <2>2. Chain(new, f.first) = Chain(Fat, f.first)
    BY <2>1
  <2> HIDE DEF f, new
  <2>3. ReaderAt(new, f, moved[h], dir[s], stored[s])
    BY <2>1, <2>2 DEF ReaderAt
  <2>4. ReaderAt(Fat', file'[h], moved'[h], dir'[s], stored'[s])
    BY <2>3 DEF f, new
  <2>5. ~BeingWritten(s)' /\ file'[h].slot = s
    BY <1>3
  <2>6. QED
    BY <2>4, <2>5 DEF ReaderIs
<1>4. QED
  BY <1>1, <1>2, <1>3 DEF ReaderIs

\* A step that leaves the disk alone: what is left to see to is the handle.
LEMMA OneReader ==
    ASSUME FatInv, DataInv, NEW h \in Handles, h \notin Writers, ~Writes(h)',
           \A g \in Handles : g # h => file'[g] = file[g] /\ moved'[g] = moved[g],
           Fat' = Fat, UNCHANGED <<dir, sector, stored>>,
           file'[h].mode = "reads" => ReaderIs(h)'
    PROVE  DataInv'
<1>1. Writers' = Writers /\ Named' = Named
  BY DEF Writers, Writes, Named
<1>2. ASSUME NEW s \in Named
      PROVE  Stands(Fat', sector', dir'[s], stored'[s])
  <2>1. dir'[s] = dir[s] /\ stored'[s] = stored[s]
    OBVIOUS
  <2>2. Chain(Fat', dir[s].first) = Chain(Fat, dir[s].first)
    OBVIOUS
  <2>3. \A c \in Body(Fat, dir[s].first) : sector'[c] = sector[c]
    OBVIOUS
  <2>4. QED
    BY <2>1, <2>2, <2>3, SlotKept
<1>3. ASSUME NEW g \in Writers
      PROVE  Stands(Fat', sector', file'[g], moved'[g])
  <2>1. file'[g] = file[g] /\ moved'[g] = moved[g]
    BY DEF Writers
  <2>2. Chain(Fat', file[g].first) = Chain(Fat, file[g].first)
    OBVIOUS
  <2>3. \A c \in Body(Fat, file[g].first) : sector'[c] = sector[c]
    OBVIOUS
  <2>4. QED
    BY <2>1, <2>2, <2>3, WriterKept
<1>4. ASSUME NEW s, BeingWritten(s)'
      PROVE  BeingWritten(s)
  <2>1. PICK g \in Handles : file'[g].mode = "writes" /\ file'[g].slot = s
    BY <1>4 DEF BeingWritten, Writes
  <2>2. g # h
    BY <2>1 DEF Writes
  <2>3. QED
    BY <2>1, <2>2 DEF BeingWritten, Writes
<1>5. ASSUME NEW g \in Handles, file'[g].mode = "reads"
      PROVE  ReaderIs(g)'
  <2>1. CASE g = h
    BY <1>5, <2>1
  <2>2. CASE g # h
    <3>0. PICK s : s = file[g].slot
      OBVIOUS
    <3>1. file[g].mode = "reads" /\ file'[g] = file[g] /\ moved'[g] = moved[g]
      BY <1>5, <2>2
    <3>2. dir'[s] = dir[s] /\ stored'[s] = stored[s]
          /\ Chain(Fat', dir[s].first) = Chain(Fat, dir[s].first)
      OBVIOUS
    <3>3. BeingWritten(s)' => BeingWritten(s)
      BY <1>4
    <3>4. QED
      BY <3>0, <3>1, <3>2, <3>3, ReaderKept
  <2>3. QED
    BY <2>1, <2>2
<1>6. QED
  BY <1>1, <1>2, <1>3, <1>5 DEF DataInv

LEMMA ReaderCloses ==
    ASSUME FatInv, DataInv, NEW h \in Handles, fat12_close(h), file[h].mode = "reads"
    PROVE  DataInv'
<1>1. UNCHANGED <<fat, dir, sector, cache, loaded, dirty, stored, orphans>>
  BY DEF fat12_close, onFlash
<1>2. file' = [file EXCEPT ![h] = Closed] /\ moved' = [moved EXCEPT ![h] = <<>>]
  BY DEF fat12_close
<1>3. file \in [Handles -> Handle] /\ moved \in [Handles -> Seq(Units)]
  BY DEF FatInv, FatTypeOK, HistoryOK
<1>4. file'[h] = Closed /\ \A g \in Handles : g # h => file'[g] = file[g] /\ moved'[g] = moved[g]
  BY <1>2, <1>3
<1>5. file'[h].mode = "closed"
  BY <1>4 DEF Closed
<1>6. h \notin Writers /\ ~Writes(h)' /\ Fat' = Fat
  BY <1>1, <1>5 DEF Writers, Writes, Fat
<1>7. QED
  BY <1>1, <1>4, <1>5, <1>6, OneReader

LEMMA ReaderReads ==
    ASSUME FatInv, DataInv, NEW h \in Handles, file[h].mode = "reads", NEW r, ReadDone(h, r),
           \/ r.file.size = 0 /\ r.file.pos = 0 /\ moved[h] \o r.got = <<>>
           \/ /\ ~BeingWritten(file[h].slot)
              /\ ReaderAt(Fat, r.file, moved[h] \o r.got, dir[file[h].slot], stored[file[h].slot])
    PROVE  DataInv'
<1>1. FatInv' /\ Fat' = Fat
  BY ReadKeeps
<1> DEFINE both == moved[h] \o r.got
<1>0. PICK s : s = file[h].slot
  OBVIOUS
<1>2. /\ file' = [file EXCEPT ![h] = r.file] /\ moved' = [moved EXCEPT ![h] = both]
      /\ UNCHANGED <<dir, sector, stored>>
      /\ r.file.mode = "reads" /\ r.file.slot = s
  BY <1>0 DEF ReadDone, SameReader
<1>3. file \in [Handles -> Handle] /\ moved \in [Handles -> Seq(Units)]
  BY DEF FatInv, FatTypeOK, HistoryOK
<1>4. \/ r.file.size = 0 /\ r.file.pos = 0 /\ both = <<>>
      \/ ~BeingWritten(s) /\ ReaderAt(Fat, r.file, both, dir[s], stored[s])
  BY <1>0
<1> HIDE DEF both
<1>5. /\ file'[h] = r.file /\ moved'[h] = both
      /\ \A g \in Handles : g # h => file'[g] = file[g] /\ moved'[g] = moved[g]
  BY <1>2, <1>3
<1>6. h \notin Writers /\ ~Writes(h)'
  BY <1>2, <1>5 DEF Writers, Writes
<1>7. ASSUME BeingWritten(s)'
      PROVE  BeingWritten(s)
  <2>1. PICK g \in Handles : file'[g].mode = "writes" /\ file'[g].slot = s
    BY <1>7 DEF BeingWritten, Writes
  <2>2. g # h
    BY <1>6, <2>1 DEF Writes
  <2>3. QED
    BY <1>5, <2>1, <2>2 DEF BeingWritten, Writes
<1>8. ReaderIs(h)'
  <2>1. CASE r.file.size = 0 /\ r.file.pos = 0 /\ both = <<>>
    BY <1>5, <2>1 DEF ReaderIs
  <2>2. CASE ~BeingWritten(s) /\ ReaderAt(Fat, r.file, both, dir[s], stored[s])
    <3>1. file'[h].slot = s /\ ~BeingWritten(s)'
      BY <1>2, <1>5, <1>7, <2>2
    <3>2. ReaderAt(Fat', file'[h], moved'[h], dir'[s], stored'[s])
      BY <1>1, <1>2, <1>5, <2>2
    <3>3. QED
      BY <3>1, <3>2 DEF ReaderIs
  <2>3. QED
    BY <1>4, <2>1, <2>2
<1>9. QED
  BY <1>1, <1>2, <1>5, <1>6, <1>8, OneReader

\* A reader with something left stands in a cluster of the file.
LEMMA ReaderStands ==
    ASSUME NEW f \in Handle, NEW got, NEW entry, NEW units, entry.size \in Nat,
           Stands(Fat, sector, entry, units),
           Chain(Fat, entry.first) \in Seq(Clusters),
           ReaderAt(Fat, f, got, entry, units), f.pos < f.size
    PROVE  f.cur >= 2
<1> DEFINE p == f.pos
           size == f.size
           chain == Chain(Fat, f.first)
           k == Len(chain)
<1>1. /\ f.first = entry.first /\ size = entry.size
      /\ \A q \in Nat, r \in 0 .. SectorSize - 1 :
            p = q * SectorSize + r /\ p < size => f.cur = chain[q + 1]
  BY DEF ReaderAt
<1>2. Fits(size, k) /\ k \in Nat /\ chain \in Seq(Clusters)
  BY <1>1 DEF Stands
<1>3. p \in Nat /\ size \in Nat /\ p < size
  BY DEF Handle
<1> HIDE DEF p, size, chain, k
<1>4. PICK q \in Nat, r \in 0 .. SectorSize - 1 : p = q * SectorSize + r
  BY <1>3, PlaceOf
<1>5. q * SectorSize + r < size
  BY <1>3, <1>4
<1>6. q + 1 \in 1 .. k
  BY <1>2, <1>3, <1>5, UnitInChain
<1>7. f.cur = chain[q + 1]
  BY <1>1, <1>3, <1>4
<1>8. f.cur \in Clusters
  BY <1>2, <1>6, <1>7 DEF k
<1>9. QED
  BY <1>8 DEF Clusters

\* The reading of one call.
LEMMA ReadGoes ==
    ASSUME FatInv, NEW entry, NEW units \in Seq(Units), Stands(Fat, sector, entry, units),
           entry.size \in Nat, IsChain(Fat, entry.first, Chain(Fat, entry.first)),
           NEW start \in Readings, start.len # 0, start.more, start.file.pos < start.file.size,
           start.got = <<>>,
           NEW before \in Seq(Units), ReaderAt(Fat, start.file, before, entry, units)
    PROVE  LET end == ReadOf(start)
           IN  ReaderAt(Fat, end.file, before \o end.got, entry, units)
               /\ end.file.pos > start.file.pos
<1> DEFINE S == {r \in Readings : ReaderAt(Fat, r.file, before \o r.got, entry, units)}
<1>1. \A r \in S : r.file.pos \in Nat
  BY DEF Readings, Handle
<1>2. start \in S
  <2>1. before \o start.got = before
    OBVIOUS
  <2>2. QED
    BY <2>1
<1>3. start.len \in Nat \ {0} /\ GoesOn(start)
  <2>1. start.len \in Nat \ {0} /\ start.file \in Handle
    BY DEF Readings
  <2>2. Chain(Fat, entry.first) \in Seq(Clusters)
    BY DEF IsChain
  <2>3. start.file.cur >= 2
    BY <2>1, <2>2, ReaderStands
  <2>4. QED
    BY <2>1, <2>3 DEF GoesOn
<1>4. ASSUME NEW r \in S, GoesOn(r)
      PROVE  LET x == ReadRound(r) IN x \in S /\ x.file.pos > r.file.pos
  <2> DEFINE x == ReadRound(r)
             got == before \o r.got
  <2>1. PICK n : TakenAs(x, r, n)
    BY <1>4, ReadFields
  <2> DEFINE more == Taken(r, n)
  <2>2. got \in Seq(Units) /\ more \in Seq(Units) /\ r.got \in Seq(Units) /\ r \in Readings
        /\ r.file.pos < r.file.size /\ r.len \in Nat
    BY <1>4, <2>1 DEF TakenAs, Readings, GoesOn
  <2>3. ReaderAt(Fat, r.file, got, entry, units)
    OBVIOUS
  <2> HIDE DEF x, got, S
  <2>4. ReaderAt(Fat, x.file, got \o more, entry, units)
    BY <2>1, <2>2, <2>3, ReaderTakes
  <2>5. x \in Readings /\ x.got = r.got \o more /\ x.file.pos = r.file.pos + n /\ n \in 1 .. r.len
    BY <2>1 DEF TakenAs
  <2>6. got \o more = before \o x.got
    <3> DEFINE b == r.got
    <3>0. b \in Seq(Units) /\ more \in Seq(Units)
      BY <2>2
    <3> HIDE DEF more, b
    <3>1. before \o (b \o more) = (before \o b) \o more
      BY <3>0, ConcatenationAssociates
    <3>2. QED
      BY <2>5, <3>1 DEF got, b
  <2>7. x.file.pos > r.file.pos
    <3>1. r.file.pos \in Nat
      BY <1>1
    <3>2. QED
      BY <2>2, <2>5, <3>1
  <2>8. QED
    BY <2>4, <2>5, <2>6, <2>7 DEF S, x
<1> HIDE DEF S
<1>5. ReadOf(start) \in S /\ ReadOf(start).file.pos > start.file.pos
  <2>1. \A r \in S : GoesOn(r) =>
                       LET x == ReadRound(r) IN x \in S /\ x.file.pos > r.file.pos
    BY <1>4
  <2>2. \A r \in S : GoesOn(r) => ReadRound(r) \in S
    BY <2>1
  <2>3. ReadOf(start) \in S
    BY <1>2, <1>3, <2>2, ReadStays
  <2>4. ReadOf(start).file.pos > start.file.pos
    BY <1>1, <1>2, <1>3, <2>1, ReadMoves
  <2>5. QED
    BY <2>3, <2>4
<1>6. QED
  BY <1>5 DEF S

\* A call that finds nothing left gets nothing.
LEMMA ReadRests ==
    ASSUME NEW start, start.len \in Nat, ~(start.file.pos < start.file.size)
    PROVE  ReadOf(start) = start
<1> DEFINE S == {start}
<1>1. start \in S /\ \A r \in S : GoesOn(r) => ReadRound(r) \in S
  BY DEF GoesOn
<1> HIDE DEF S
<1>2. ReadOf(start) \in S
  BY <1>1, ReadStays
<1>3. QED
  BY <1>2 DEF S

LEMMA Beginning ==
    ASSUME NEW S, NEW s \in Seq(S), NEW t \in Seq(S), Len(t) \in 0 .. Len(s),
           \A i \in 1 .. Len(t) : t[i] = s[i]
    PROVE  t = SubSeq(s, 1, Len(t))
<1> DEFINE n == Len(t)
           u == SubSeq(s, 1, n)
<1>1. n \in 0 .. Len(s) /\ t \in [1 .. n -> S] /\ \A i \in 1 .. n : t[i] = s[i]
  OBVIOUS
<1> HIDE DEF n
<1>2. u \in [1 .. n -> S] /\ \A k \in 1 .. n : u[k] = s[k]
  BY <1>1, Cut
<1> HIDE DEF u
<1>3. t = u
  BY <1>1, <1>2
<1>4. QED
  BY <1>3 DEF u, n

\* What one call of fat12_read does for its caller.
ReadWell(h) ==
    /\ moved'[h] = SubSeq(stored[file[h].slot], 1, file'[h].pos)
    /\ file'[h].pos > file[h].pos \/ file[h].pos = file[h].size

LEMMA ReadData ==
    ASSUME FatInv, DataInv, NEW h \in Handles, fat12_read(h)
    PROVE  DataInv' /\ ReadWell(h)
<1>1. file[h].mode = "reads" /\ \E len \in Lengths : ReadDone(h, ReadOf(ReadFrom(h, len)))
  BY ReadIsDone
<1>2. PICK len \in Lengths : ReadDone(h, ReadOf(ReadFrom(h, len)))
  BY <1>1
<1> DEFINE start == ReadFrom(h, len)
           r == ReadOf(start)
           before == moved[h]
           f == file[h]
<1>3. PICK s : s = f.slot
  OBVIOUS
<1> DEFINE entry == dir[s]
           units == stored[s]
<1>4. /\ start.file = f /\ start.len = len /\ start.got = <<>> /\ start.more = TRUE
      /\ start = [file |-> start.file, len |-> start.len, got |-> start.got,
                  more |-> start.more, loaded |-> loaded]
  BY DEF ReadFrom
<1>5. f \in Handle /\ before \in Seq(Units) /\ loaded \in BOOLEAN /\ len \in Nat \ {0}
      /\ f.pos \in Nat /\ f.size \in Nat
  BY Fat12Assumption DEF FatInv, FatTypeOK, HistoryOK, Handle
<1>6. s \in Named /\ units \in Seq(Units)
  BY <1>1, <1>3, SlotChain DEF FatInv, ReadersFind
<1>7. ReaderIs(h)
  BY <1>1 DEF DataInv
<1>8. ReadDone(h, r)
  BY <1>2
<1> HIDE DEF start
<1>9. start \in Readings /\ start.len \in Nat /\ start.len # 0
  <2>1. <<>> \in Seq(Units) /\ TRUE \in BOOLEAN
    OBVIOUS
  <2> HIDE DEF f
  <2>2. start.file \in Handle /\ start.len \in Nat /\ start.got \in Seq(Units)
        /\ start.more \in BOOLEAN /\ loaded \in BOOLEAN
    BY <1>4, <1>5, <2>1
  <2>3. start = [file |-> start.file, len |-> start.len, got |-> start.got,
                 more |-> start.more, loaded |-> loaded]
    BY <1>4
  <2> DEFINE a == start.file
             b == start.len
             c == start.got
             d == start.more
  <2> HIDE DEF a, b, c, d
  <2>4. [file |-> a, len |-> b, got |-> c, more |-> d, loaded |-> loaded] \in Readings
    BY <2>2 DEF Readings, a, b, c, d
  <2>5. start \in Readings
    BY <2>3, <2>4 DEF a, b, c, d
  <2>6. QED
    BY <1>4, <1>5, <2>5
<1>10. r.file.size = f.size /\ r.got \in Seq(Units) /\ r.file.pos \in Nat
  BY <1>8 DEF ReadDone, SameReader, Readings, Handle
<1>11. file'[h] = r.file /\ moved'[h] = before \o r.got
  BY <1>8 DEF ReadDone, FatInv, FatTypeOK, HistoryOK
<1>12. CASE f.pos < f.size
  <2>1. ReaderAt(Fat, f, before, entry, units) /\ ~BeingWritten(s)
    BY <1>3, <1>5, <1>7, <1>12 DEF ReaderIs
  <2>2. Stands(Fat, sector, entry, units) /\ entry.size \in Nat
        /\ IsChain(Fat, entry.first, Chain(Fat, entry.first))
    BY <1>6, SlotChain DEF DataInv
  <2>3. ReaderAt(Fat, r.file, before \o r.got, entry, units) /\ r.file.pos > f.pos
    <3>1. start.more /\ start.file.pos < start.file.size /\ start.got = <<>>
          /\ ReaderAt(Fat, start.file, before, entry, units)
      BY <1>4, <1>12, <2>1
    <3> HIDE DEF entry, units, before, f, r
    <3>2. ReaderAt(Fat, ReadOf(start).file, before \o ReadOf(start).got, entry, units)
          /\ ReadOf(start).file.pos > start.file.pos
      BY <1>5, <1>6, <1>9, <2>2, <3>1, ReadGoes
    <3>3. QED
      BY <1>4, <3>2 DEF r
  <2>4. DataInv'
    <3> HIDE DEF r
    <3>1. QED
      BY <1>1, <1>3, <1>8, <2>1, <2>3, ReaderReads
  <2>5. before \o r.got = SubSeq(units, 1, r.file.pos)
    <3> DEFINE t == before \o r.got
               p == r.file.pos
    <3>1. t \in Seq(Units) /\ Len(t) = p /\ p \in Nat /\ p <= entry.size
          /\ \A i \in 1 .. p : t[i] = units[i]
      <4>1. t \in Seq(Units)
        BY <1>5, <1>10, Parts
      <4> HIDE DEF t
      <4>2. QED
        BY <1>10, <2>3, <4>1 DEF ReaderAt, t
    <3>2. Len(units) = entry.size
      BY <2>2 DEF Stands
    <3> HIDE DEF t, p, entry, units
    <3>3. Len(t) \in 0 .. Len(units) /\ \A i \in 1 .. Len(t) : t[i] = units[i]
      BY <2>2, <3>1, <3>2
    <3>4. t = SubSeq(units, 1, Len(t))
      BY <1>6, <3>1, <3>3, Beginning
    <3>5. QED
      BY <3>1, <3>4 DEF t, p
  <2>6. QED
    BY <1>3, <1>11, <2>3, <2>4, <2>5 DEF ReadWell
<1>13. CASE ~(f.pos < f.size)
  <2>1. r = start
    BY <1>4, <1>9, <1>13, ReadRests
  <2>2. r.file = f /\ before \o r.got = before
    BY <1>4, <1>5, <2>1
  <2>3. DataInv'
    <3>1. \/ r.file.size = 0 /\ r.file.pos = 0 /\ before \o r.got = <<>>
          \/ ~BeingWritten(s) /\ ReaderAt(Fat, r.file, before \o r.got, entry, units)
      BY <1>3, <1>7, <2>2 DEF ReaderIs
    <3> HIDE DEF r
    <3>2. QED
      BY <1>1, <1>3, <1>8, <3>1, ReaderReads
  <2>4. before = SubSeq(units, 1, f.pos) /\ f.pos = f.size
    <3>1. CASE f.size = 0 /\ f.pos = 0 /\ before = <<>>
      BY <1>6, <3>1
    <3>2. CASE ReaderAt(Fat, f, before, entry, units)
      <4> DEFINE p == f.pos
      <4>1. Len(before) = p /\ p \in Nat /\ p <= entry.size /\ p <= f.size
            /\ \A i \in 1 .. p : before[i] = units[i]
        BY <1>5, <3>2 DEF ReaderAt
      <4>2. Stands(Fat, sector, entry, units) /\ entry.size \in Nat
        BY <1>6, SlotChain DEF DataInv
      <4>3. Len(units) = entry.size
        BY <4>2 DEF Stands
      <4>4. p = f.size
        BY <1>5, <1>13, <4>1
      <4> HIDE DEF before, p, entry, units, f
      <4>5. Len(before) \in 0 .. Len(units) /\ \A i \in 1 .. Len(before) : before[i] = units[i]
        BY <4>1, <4>2, <4>3
      <4>6. before = SubSeq(units, 1, Len(before))
        BY <1>5, <1>6, <4>5, Beginning
      <4>7. QED
        BY <4>1, <4>4, <4>6 DEF p
    <3>3. QED
      BY <1>3, <1>7, <3>1, <3>2 DEF ReaderIs
  <2>5. QED
    BY <1>3, <1>11, <2>2, <2>3, <2>4 DEF ReadWell
<1>14. QED
  BY <1>12, <1>13

LEMMA StandsEmpty ==
    ASSUME NEW links \in Fats, NEW data, NEW f, f.first = 0, f.size = 0
    PROVE  Stands(links, data, f, <<>>)
<1> DEFINE chain == Chain(links, f.first)
<1>1. chain = <<>>
  <2>1. 0 \notin Clusters
    BY DEF Clusters
  <2>2. QED
    BY <2>1, ChainEmpty DEF Fats
<1>2. Fits(0, 0)
  <2> DEFINE S == SectorSize
  <2>1. S \in Nat \ {0} /\ (0 - 1) * S = -S /\ 0 * S = 0
    BY Fat12Assumption
  <2>2. QED
    BY <2>1 DEF Fits
<1> HIDE DEF chain
<1>3. LaidOut(chain, data, <<>>)
  <2>1. \A j \in Nat, r \in 0 .. SectorSize - 1 : ~(j * SectorSize + r < 0)
    <3> SUFFICES ASSUME NEW j \in Nat, NEW r \in 0 .. SectorSize - 1
                 PROVE  ~(j * SectorSize + r < 0)
      OBVIOUS
    <3> DEFINE x == j * SectorSize
    <3>1. x \in Nat
      BY Fat12Assumption
    <3> HIDE DEF x
    <3>2. ~(x + r < 0)
      BY <3>1
    <3>3. QED
      BY <3>2 DEF x
  <2>2. Len(<<>>) = 0
    OBVIOUS
  <2>3. QED
    BY <2>1, <2>2 DEF LaidOut
<1>4. Len(chain) = 0 /\ Len(<<>>) = 0
  BY <1>1
<1>5. QED
  BY <1>2, <1>3, <1>4 DEF Stands, chain

LEMMA ReaderOpens ==
    ASSUME FatInv, DataInv, NEW h \in Handles, NEW name \in Names, fat12_open(h, name)
    PROVE  DataInv'
<1>1. PICK s \in Slots : Found(name, s) /\ Opened(h, "reads", s, dir[s])
  BY DEF fat12_open
<1>2. UNCHANGED <<fat, dir, sector, cache, loaded, dirty, stored, orphans>>
      /\ file[h].mode = "closed"
  BY DEF fat12_open, onFlash, fatCache
<1> DEFINE entry == dir[s]
           units == stored[s]
           f == [mode |-> "reads", first |-> entry.first, cur |-> entry.first,
                 size |-> entry.size, pos |-> 0, slot |-> s]
<1>3. s \in Named
  BY <1>1 DEF Found, Named
<1>4. file' = [file EXCEPT ![h] = f] /\ moved' = [moved EXCEPT ![h] = <<>>]
  BY <1>1 DEF Opened
<1>5. f.mode = "reads" /\ f.first = entry.first /\ f.cur = entry.first
      /\ f.size = entry.size /\ f.pos = 0 /\ f.slot = s
  OBVIOUS
<1>6. Stands(Fat, sector, entry, units) /\ entry.size \in Nat
      /\ IsChain(Fat, entry.first, Chain(Fat, entry.first))
  BY <1>3, SlotChain DEF DataInv
<1> HIDE DEF f
<1>7. file \in [Handles -> Handle] /\ moved \in [Handles -> Seq(Units)]
  BY DEF FatInv, FatTypeOK, HistoryOK
<1>8. file'[h] = f /\ moved'[h] = <<>>
      /\ \A g \in Handles : g # h => file'[g] = file[g] /\ moved'[g] = moved[g]
  BY <1>4, <1>7
<1>9. h \notin Writers /\ ~Writes(h)' /\ Fat' = Fat
  BY <1>2, <1>5, <1>8 DEF Writers, Writes, Fat
<1>10. ReaderIs(h)'
  <2>1. CASE entry.size = 0
    BY <1>5, <1>8, <2>1 DEF ReaderIs
  <2>2. CASE entry.size # 0
    <3>1. ASSUME BeingWritten(s)'
          PROVE  FALSE
      <4>1. PICK g \in Handles : file'[g].mode = "writes" /\ file'[g].slot = s
        BY <3>1 DEF BeingWritten, Writes
      <4>2. g # h
        BY <1>9, <4>1 DEF Writes
      <4>3. g \in Writers /\ file[g].slot = s
        BY <1>8, <4>1, <4>2 DEF Writers, Writes
      <4>4. QED
        BY <2>2, <4>3 DEF FatInv, WritersApart
    <3>2. ReaderAt(Fat, f, <<>>, entry, units)
      <4> DEFINE chain == Chain(Fat, f.first)
      <4>1. IsChain(Fat, entry.first, chain) /\ Fits(entry.size, Len(chain))
        BY <1>5, <1>6 DEF Stands
      <4> HIDE DEF chain
      <4>2. chain \in Seq(Clusters) /\ Len(chain) \in Nat
        BY <4>1 DEF IsChain
      <4>3. Len(chain) # 0
        <5> SUFFICES ASSUME Fits(entry.size, 0) PROVE FALSE
          BY <4>1
        <5>1. 0 * SectorSize = 0
          BY Fat12Assumption
        <5>2. QED
          BY <1>6, <2>2, <5>1 DEF Fits
      <4>4. chain[1] = entry.first
        BY <4>1, <4>2, <4>3 DEF IsChain
      <4>5. ASSUME NEW q \in Nat, NEW r \in 0 .. SectorSize - 1, f.pos = q * SectorSize + r
            PROVE  f.cur = chain[q + 1]
        <5> DEFINE S == SectorSize
        <5>1. 0 * S + 0 = q * S + r /\ S \in Nat \ {0} /\ 0 \in 0 .. S - 1
          BY <1>5, <4>5, Fat12Assumption
        <5>2. 0 = q
          <6> HIDE DEF S
          <6>1. r \in 0 .. S - 1
            BY DEF S
          <6>2. QED
            BY <5>1, <6>1, BlockSame
        <5>3. QED
          BY <1>5, <4>4, <5>2
      <4>6. Len(<<>>) = 0 /\ 1 .. 0 = {}
        OBVIOUS
      <4>7. QED
        BY <1>5, <1>6, <4>5, <4>6 DEF ReaderAt, chain
    <3>3. file'[h].slot = s /\ ReaderAt(Fat', file'[h], moved'[h], dir'[s], stored'[s])
      BY <1>2, <1>5, <1>8, <1>9, <3>2
    <3>4. QED
      BY <3>1, <3>3 DEF ReaderIs
  <2>3. QED
    BY <2>1, <2>2
<1>11. QED
  BY <1>2, <1>8, <1>9, <1>10, OneReader

LEMMA WriterCreates ==
    ASSUME FatInv, DataInv, NEW h \in Handles, NEW name \in Names, NEW s, Created(h, name, s)
    PROVE  DataInv'
<1>1. s \in Slots /\ dir[s].name \in {End, Deleted} /\ s \notin Named
  BY Fat12Assumption DEF Created, FreeSlots, Named
<1>2. /\ dir \in [Slots -> [name : Names \cup {End, Deleted}, first : Clusters \cup {0},
                            size : Nat]]
      /\ file \in [Handles -> Handle] /\ moved \in [Handles -> Seq(Units)]
      /\ stored \in [Slots -> Seq(Units)]
  BY DEF FatInv, FatTypeOK, HistoryOK
<1> DEFINE entry == [name |-> name, first |-> 0, size |-> 0]
           f == [mode |-> "writes", first |-> 0, cur |-> 0, size |-> 0, pos |-> 0, slot |-> s]
<1>3. /\ entry.name = name /\ entry.first = 0 /\ entry.size = 0
      /\ f.mode = "writes" /\ f.first = 0 /\ f.size = 0 /\ f.slot = s
  OBVIOUS
<1>4. /\ dir' = [dir EXCEPT ![s] = entry] /\ file' = [file EXCEPT ![h] = f]
      /\ moved' = [moved EXCEPT ![h] = <<>>] /\ stored' = [stored EXCEPT ![s] = <<>>]
      /\ UNCHANGED <<fat, sector, cache, loaded, dirty, orphans>>
      /\ file[h].mode = "closed"
  BY DEF Created
<1> HIDE DEF entry, f
<1>5. /\ dir'[s] = entry /\ \A r \in Slots : r # s => dir'[r] = dir[r] /\ stored'[r] = stored[r]
      /\ stored'[s] = <<>> /\ moved'[h] = <<>> /\ file'[h] = f
      /\ \A g \in Handles : g # h => file'[g] = file[g] /\ moved'[g] = moved[g]
  BY <1>1, <1>2, <1>4
<1>6. Named' = Named \cup {s} /\ Named \subseteq Slots
  BY <1>1, <1>3, <1>5 DEF Named
<1>7. Writers' = Writers \cup {h} /\ h \notin Writers /\ Writers \subseteq Handles
  BY <1>3, <1>4, <1>5 DEF Writers, Writes
<1>8. Fat' = Fat /\ Fat \in Fats
  BY <1>4, FatType DEF Fat
<1>9. ASSUME NEW r \in Named'
      PROVE  Stands(Fat', sector', dir'[r], stored'[r])
  <2>1. CASE r = s
    <3>1. Stands(Fat, sector, entry, <<>>)
      BY <1>3, <1>8, StandsEmpty
    <3>2. QED
      BY <1>4, <1>5, <1>8, <2>1, <3>1
  <2>2. CASE r # s
    <3>1. r \in Named /\ dir'[r] = dir[r] /\ stored'[r] = stored[r]
      BY <1>5, <1>6, <2>2
    <3>2. Chain(Fat', dir[r].first) = Chain(Fat, dir[r].first)
      BY <1>8
    <3>3. \A c \in Body(Fat, dir[r].first) : sector'[c] = sector[c]
      BY <1>4
    <3>4. QED
      BY <3>1, <3>2, <3>3, SlotKept
  <2>3. QED
    BY <2>1, <2>2
<1>10. ASSUME NEW g \in Writers'
       PROVE  Stands(Fat', sector', file'[g], moved'[g])
  <2>1. CASE g = h
    <3>1. Stands(Fat, sector, f, <<>>)
      BY <1>3, <1>8, StandsEmpty
    <3>2. QED
      BY <1>4, <1>5, <1>8, <2>1, <3>1
  <2>2. CASE g # h
    <3>1. g \in Writers /\ file'[g] = file[g] /\ moved'[g] = moved[g]
      BY <1>5, <1>7, <2>2
    <3>2. Chain(Fat', file[g].first) = Chain(Fat, file[g].first)
      BY <1>8
    <3>3. \A c \in Body(Fat, file[g].first) : sector'[c] = sector[c]
      BY <1>4
    <3>4. QED
      BY <3>1, <3>2, <3>3, WriterKept
  <2>3. QED
    BY <2>1, <2>2
<1>11. ASSUME NEW g \in Handles, file'[g].mode = "reads"
       PROVE  ReaderIs(g)'
  <2>1. g # h
    BY <1>3, <1>5, <1>11
  <2>2. PICK r : r = file[g].slot
    OBVIOUS
  <2>3. file[g].mode = "reads" /\ file'[g] = file[g] /\ moved'[g] = moved[g]
    BY <1>5, <1>11, <2>1
  <2>4. r \in Named /\ r # s
    BY <1>1, <2>2, <2>3 DEF FatInv, ReadersFind
  <2>5. dir'[r] = dir[r] /\ stored'[r] = stored[r]
    BY <1>5, <1>6, <2>4
  <2>6. Chain(Fat', dir[r].first) = Chain(Fat, dir[r].first)
    BY <1>8
  <2>7. ASSUME BeingWritten(r)'
        PROVE  BeingWritten(r)
    <3>1. PICK e \in Handles : file'[e].mode = "writes" /\ file'[e].slot = r
      BY <2>7 DEF BeingWritten, Writes
    <3>2. e # h
      BY <1>3, <1>5, <2>4, <3>1
    <3>3. QED
      BY <1>5, <3>1, <3>2 DEF BeingWritten, Writes
  <2>8. QED
    BY <2>2, <2>3, <2>5, <2>6, <2>7, ReaderKept
<1>12. QED
  BY <1>9, <1>10, <1>11 DEF DataInv

LEMMA WriterCloses ==
    ASSUME FatInv, DataInv, NEW h \in Handles, fat12_close(h), file[h].mode = "writes"
    PROVE  DataInv'
<1>0. PICK t : t = file[h].slot
  OBVIOUS
<1> DEFINE a == file[h].first
           entry == [dir[t] EXCEPT !.first = a, !.size = file[h].size]
<1>1. /\ dir \in [Slots -> [name : Names \cup {End, Deleted}, first : Clusters \cup {0},
                            size : Nat]]
      /\ file \in [Handles -> Handle] /\ moved \in [Handles -> Seq(Units)]
      /\ stored \in [Slots -> Seq(Units)] /\ CopiesAgree
  BY DEF FatInv, FatTypeOK, HistoryOK
<1>2. h \in Writers /\ t \in Named /\ t \in Slots
  BY <1>0 DEF Writers, Writes, FatInv, WritersApart, Named
<1>3. /\ UNCHANGED <<sector, cache, loaded, orphans>> /\ fat' = Flushed
      /\ dir' = [dir EXCEPT ![t] = entry] /\ stored' = [stored EXCEPT ![t] = moved[h]]
      /\ file' = [file EXCEPT ![h] = Closed] /\ moved' = [moved EXCEPT ![h] = <<>>]
  BY <1>0 DEF fat12_close
<1>4. entry.name = dir[t].name /\ entry.first = a /\ entry.size = file[h].size
  <2> DEFINE e == dir[t]
             size == file[h].size
  <2>1. e \in [name : Names \cup {End, Deleted}, first : Clusters \cup {0}, size : Nat]
    BY <1>1, <1>2
  <2>2. entry = [e EXCEPT !.first = a, !.size = size]
    OBVIOUS
  <2> HIDE DEF e, a, size, entry
  <2>3. QED
    BY <2>1, <2>2 DEF e, size
<1> HIDE DEF entry
<1>5. /\ dir'[t] = entry /\ \A r \in Slots : r # t => dir'[r] = dir[r] /\ stored'[r] = stored[r]
      /\ file'[h] = Closed /\ stored'[t] = moved[h]
      /\ \A g \in Handles : g # h => file'[g] = file[g] /\ moved'[g] = moved[g]
  BY <1>1, <1>2, <1>3
<1>6. Closed.mode = "closed"
  BY DEF Closed
<1>7. Named' = Named /\ Named \subseteq Slots /\ Writers' = Writers \ {h}
  BY <1>2, <1>4, <1>5, <1>6 DEF Named, Writers, Writes
<1>8. Fat' = Fat
  BY <1>1, <1>3 DEF Fat, Flushed, CopiesAgree
<1>9. ASSUME NEW r \in Named
      PROVE  Stands(Fat', sector', dir'[r], stored'[r])
  <2>1. CASE r = t
    <3>1. Stands(Fat, sector, file[h], moved[h])
      BY <1>2 DEF DataInv
    <3>2. Stands(Fat, sector, entry, moved[h])
      BY <1>4, <3>1 DEF Stands
    <3>3. QED
      BY <1>3, <1>5, <1>8, <2>1, <3>2
  <2>2. CASE r # t
    <3>1. dir'[r] = dir[r] /\ stored'[r] = stored[r]
      BY <1>5, <1>7, <2>2
    <3>2. Chain(Fat', dir[r].first) = Chain(Fat, dir[r].first)
      BY <1>8
    <3>3. \A c \in Body(Fat, dir[r].first) : sector'[c] = sector[c]
      BY <1>3
    <3>4. QED
      BY <3>1, <3>2, <3>3, SlotKept
  <2>3. QED
    BY <2>1, <2>2
<1>10. ASSUME NEW g \in Writers \ {h}
       PROVE  Stands(Fat', sector', file'[g], moved'[g])
  <2>1. g \in Writers /\ file'[g] = file[g] /\ moved'[g] = moved[g]
    BY <1>5 DEF Writers
  <2>2. Chain(Fat', file[g].first) = Chain(Fat, file[g].first)
    BY <1>8
  <2>3. \A c \in Body(Fat, file[g].first) : sector'[c] = sector[c]
    BY <1>3
  <2>4. QED
    BY <2>1, <2>2, <2>3, WriterKept
<1>11. ASSUME NEW g \in Handles, file'[g].mode = "reads"
       PROVE  ReaderIs(g)'
  <2>1. g # h
    BY <1>5, <1>6, <1>11
  <2>2. PICK r : r = file[g].slot
    OBVIOUS
  <2>3. file[g].mode = "reads" /\ file'[g] = file[g] /\ moved'[g] = moved[g]
    BY <1>5, <1>11, <2>1
  <2>4. r \in Named
    BY <2>2, <2>3 DEF FatInv, ReadersFind
  <2>5. CASE r = t
    <3>1. BeingWritten(r)
      BY <1>0, <2>5 DEF BeingWritten, Writes
    <3>2. file[g].size = 0 /\ file[g].pos = 0 /\ moved[g] = <<>>
      BY <2>2, <2>3, <3>1 DEF DataInv, ReaderIs
    <3>3. QED
      BY <2>3, <3>2 DEF ReaderIs
  <2>6. CASE r # t
    <3>1. dir'[r] = dir[r] /\ stored'[r] = stored[r]
      BY <1>5, <1>7, <2>4, <2>6
    <3>2. Chain(Fat', dir[r].first) = Chain(Fat, dir[r].first)
      BY <1>8
    <3>3. ASSUME BeingWritten(r)'
          PROVE  BeingWritten(r)
      <4>1. PICK e \in Handles : file'[e].mode = "writes" /\ file'[e].slot = r
        BY <3>3 DEF BeingWritten, Writes
      <4>2. e # h
        BY <1>5, <1>6, <4>1
      <4>3. QED
        BY <1>5, <4>1, <4>2 DEF BeingWritten, Writes
    <3>4. QED
      BY <2>2, <2>3, <3>1, <3>2, <3>3, ReaderKept
  <2>7. QED
    BY <2>5, <2>6
<1>12. QED
  BY <1>7, <1>9, <1>10, <1>11 DEF DataInv

\* A file that does not end with a sector has room in its last one.
LEMMA FitsRoom ==
    ASSUME NEW p \in Nat, NEW k \in Nat, Fits(p, k), p % SectorSize # 0
    PROVE  Room(p, k)
<1> DEFINE S == SectorSize
           y == k * S
<1>1. S \in Nat \ {0} /\ y \in Int
  BY Fat12Assumption
<1>2. p # y
  <2> SUFFICES ASSUME p = y PROVE FALSE
    OBVIOUS
  <2>1. p = k * S + 0 /\ 0 \in 0 .. S - 1
    BY <1>1
  <2> HIDE DEF S, y
  <2>2. (k * S + 0) % S = 0
    BY <1>1, <2>1, ModUnique
  <2>3. QED
    BY <2>1, <2>2 DEF S
<1>3. (k - 1) * S < p /\ p <= y
  BY DEF Fits
<1>4. (k - 1) * S \in Int
  BY <1>1
<1> DEFINE x == (k - 1) * S
<1> HIDE DEF x, y
<1>5. x <= p /\ p < y
  BY <1>1, <1>2, <1>3, <1>4 DEF x
<1>6. QED
  BY <1>5 DEF Room, x, y

LEMMA WriteRoom ==
    ASSUME FatInv, DataInv, NEW h \in Writers, NEW len \in Nat,
           file[h].pos % SectorSize # 0 \/ file[h].pos = 0
    PROVE  Filling(WriteFrom(h, len))
<1> DEFINE v == WriteFrom(h, len)
           f == file[h]
           p == f.pos
           chain == Chain(Fat, f.first)
           k == Len(chain)
<1>1. /\ v.file = f /\ v.len = len /\ v.links = Fat /\ v.sector = sector
      /\ v.put = moved[h] /\ v.full = FALSE
  BY DEF WriteFrom
<1> HIDE DEF v
<1>2. Stands(Fat, sector, f, moved[h]) /\ f.size = p /\ AtTheEnd(Fat, f)
  BY DEF DataInv, FatInv, WritersApart
<1>3. chain \in Seq(Clusters) /\ k \in Nat /\ IsChain(Fat, f.first, chain) /\ f \in Handle
  BY WriterChain
<1>4. p \in Nat
  BY <1>3 DEF Handle
<1>5. Fits(p, k) /\ LaidOut(chain, sector, moved[h])
  BY <1>2 DEF Stands
<1>6. ASSUME f.cur # 0
      PROVE  Room(p, k)
  <2>1. CASE p % SectorSize # 0
    <3> HIDE DEF p, k
    <3>1. QED
      BY <1>3, <1>4, <1>5, <2>1, FitsRoom
  <2>2. CASE p = 0
    <3>1. f.first \in Clusters
      BY <1>2, <1>6 DEF AtTheEnd
    <3>2. chain # <<>>
      BY <1>3, <3>1 DEF IsChain
    <3>3. k # 0
      BY <1>3, <3>2
    <3> HIDE DEF p, k, chain
    <3> DEFINE S == SectorSize
               m == k - 1
    <3>4. m \in Nat /\ S \in Nat \ {0}
      BY <1>3, <3>3, Fat12Assumption
    <3>5. m * S \in Nat /\ m * S < p
      BY <1>5, <3>4 DEF Fits
    <3> HIDE DEF m
    <3>6. QED
      BY <2>2, <3>5
  <2>3. QED
    BY <2>1, <2>2
<1>7. ChainOf(v) = chain
  BY <1>1 DEF ChainOf
<1> HIDE DEF f, p, k, chain
<1>8. Filling(v)
  BY <1>1, <1>5, <1>6, <1>7 DEF Filling, f, p, k
<1>9. QED
  BY <1>8 DEF v

\* A write leaves the files alone that it is not about.
LEMMA WriteApart ==
    ASSUME FatInv, NEW h \in Writers, NEW w, WriteDone(h, w),
           NEW a \in Clusters \cup {0}, a \in Clusters => a \in Others(h)
    PROVE  Chain(Fat', a) = Chain(Fat, a) /\ \A c \in Body(Fat, a) : sector'[c] = sector[c]
<1> DEFINE v == WriteFrom(h, w.len)
           b == w.file.first
           others == Others(h)
           heads == others \cup ({b} \cap Clusters)
<1>1. v.links = Fat /\ v.sector = sector
  BY DEF WriteFrom
<1>2. /\ w.links \in Fats
      /\ Held(w.links, heads, orphans) /\ b \notin others
      /\ \A x \in others : Chain(w.links, x) = Chain(v.links, x)
      /\ \A c \in Clusters : c \notin Body(w.links, b) => w.sector[c] = v.sector[c]
  BY DEF WriteDone, Follows, Rounds
<1>3. Fat' = w.links /\ sector' = w.sector
  BY DEF WriteDone, Fat
<1> HIDE DEF v, others, b
<1>4. CASE a \in Clusters
  <2>1. a \in others /\ a \in heads
    BY <1>4 DEF others
  <2>2. Chain(w.links, a) = Chain(Fat, a) /\ Body(w.links, a) = Body(Fat, a)
    BY <1>1, <1>2, <2>1 DEF Body
  <2>3. ASSUME NEW c \in Body(Fat, a)
        PROVE  c \in Clusters /\ c \notin Body(w.links, b)
    <3>1. c \in Body(w.links, a)
      BY <2>2
    <3>2. Body(w.links, a) \subseteq Clusters
      <4> HIDE DEF heads
      <4>1. QED
        BY <1>2, <2>1, HeldBody
    <3>3. CASE b \in Clusters
      <4>1. b \in heads /\ b # a
        BY <1>2, <2>1, <3>3
      <4>2. Body(w.links, a) \cap Body(w.links, b) = {}
        BY <1>2, <2>1, <4>1 DEF Held
      <4>3. QED
        BY <3>1, <3>2, <4>2
    <3>4. CASE b \notin Clusters
      <4>1. Body(w.links, b) = {}
        BY <1>2, <3>4, ChainEmpty DEF Fats
      <4>2. QED
        BY <3>1, <3>2, <4>1
    <3>5. QED
      BY <3>3, <3>4
  <2>4. QED
    BY <1>1, <1>2, <1>3, <2>2, <2>3
<1>5. CASE a \notin Clusters
  <2>1. Chain(Fat, a) = <<>> /\ Body(Fat, a) = {} /\ Chain(w.links, a) = <<>>
    BY <1>2, <1>5, FatType, ChainEmpty DEF Fats
  <2>2. QED
    BY <1>3, <2>1
<1>6. QED
  BY <1>4, <1>5

LEMMA WriterWrites ==
    ASSUME FatInv, DataInv, NEW h \in Writers, NEW w, WriteDone(h, w),
           Stands(w.links, w.sector, w.file, w.put)
    PROVE  DataInv'
<1>1. h \in Handles /\ file \in [Handles -> Handle] /\ moved \in [Handles -> Seq(Units)]
  BY DEF Writers, FatInv, FatTypeOK, HistoryOK
<1>2. /\ file' = [file EXCEPT ![h] = w.file] /\ moved' = [moved EXCEPT ![h] = w.put]
      /\ UNCHANGED <<dir, stored>> /\ Fat' = w.links /\ sector' = w.sector
      /\ w.file.mode = file[h].mode /\ w.file.slot = file[h].slot
  BY DEF WriteDone, Follows, Fat, WriteFrom
<1>3. /\ file'[h] = w.file /\ moved'[h] = w.put
      /\ \A g \in Handles : g # h => file'[g] = file[g] /\ moved'[g] = moved[g]
  BY <1>1, <1>2
<1>4. \A g \in Handles : file'[g].mode = file[g].mode /\ file'[g].slot = file[g].slot
  BY <1>2, <1>3
<1>5. Named' = Named /\ Writers' = Writers
  BY <1>2, <1>4 DEF Named, Writers, Writes
<1>6. ASSUME NEW s \in Named
      PROVE  Chain(Fat', dir[s].first) = Chain(Fat, dir[s].first)
             /\ \A c \in Body(Fat, dir[s].first) : sector'[c] = sector[c]
  <2> DEFINE a == dir[s].first
  <2>1. a \in Clusters \cup {0} /\ (a \in Clusters => a \in Others(h))
    BY SlotChain, HeadsSplit
  <2> HIDE DEF a
  <2>2. Chain(Fat', a) = Chain(Fat, a) /\ \A c \in Body(Fat, a) : sector'[c] = sector[c]
    BY <2>1, WriteApart
  <2>3. QED
    BY <2>2 DEF a
<1>7. ASSUME NEW s \in Named
      PROVE  Stands(Fat', sector', dir'[s], stored'[s])
  <2>1. dir'[s] = dir[s] /\ stored'[s] = stored[s]
    BY <1>2
  <2>2. QED
    BY <1>6, <2>1, SlotKept
<1>8. ASSUME NEW g \in Writers
      PROVE  Stands(Fat', sector', file'[g], moved'[g])
  <2>1. CASE g = h
    BY <1>2, <1>3, <2>1
  <2>2. CASE g # h
    <3>1. file'[g] = file[g] /\ moved'[g] = moved[g]
      BY <1>3, <2>2 DEF Writers
    <3>2. PICK a : a = file[g].first
      OBVIOUS
    <3>3. a \in Clusters \cup {0} /\ (a \in Clusters => a \in Others(h))
      BY <2>2, <3>2, WriterChain, HeadsSplit
    <3>4. Chain(Fat', a) = Chain(Fat, a) /\ \A c \in Body(Fat, a) : sector'[c] = sector[c]
      BY <3>3, WriteApart
    <3>5. QED
      BY <3>1, <3>2, <3>4, WriterKept
  <2>3. QED
    BY <2>1, <2>2
<1>9. ASSUME NEW g \in Handles, file'[g].mode = "reads"
      PROVE  ReaderIs(g)'
  <2>1. file[g].mode = "reads" /\ g # h
    BY <1>4, <1>9 DEF Writers, Writes
  <2>2. file'[g] = file[g] /\ moved'[g] = moved[g]
    BY <1>3, <2>1
  <2>3. PICK s : s = file[g].slot
    OBVIOUS
  <2>4. s \in Named /\ dir'[s] = dir[s] /\ stored'[s] = stored[s]
    BY <1>2, <2>1, <2>3 DEF FatInv, ReadersFind
  <2>5. Chain(Fat', dir[s].first) = Chain(Fat, dir[s].first)
    BY <1>6, <2>4
  <2>6. BeingWritten(s)' => BeingWritten(s)
    BY <1>4 DEF BeingWritten, Writes
  <2>7. QED
    BY <2>1, <2>2, <2>3, <2>4, <2>5, <2>6, ReaderKept
<1>10. QED
  BY <1>5, <1>7, <1>8, <1>9 DEF DataInv

LEMMA WriteStands ==
    ASSUME NoSplits, FatInv, DataInv, NEW h \in Handles, fat12_write(h)
    PROVE  DataInv'
<1> DEFINE name == dir[file[h].slot].name
           w(len) == Written(WriteFrom(h, len), name)
<1>1. h \in Writers /\ \E len \in Lengths : WriteDone(h, w(len))
  BY WriteIsDone
<1>2. PICK len \in Lengths : WriteDone(h, w(len))
  BY <1>1
<1>3. name \in Names /\ len \in Nat
  BY <1>1, Fat12Assumption DEF FatInv, WritersApart, Named
<1>4. file[h].pos % SectorSize # 0 \/ file[h].pos = 0
  BY DEF fat12_write, NoSplits
<1>5. Filling(WriteFrom(h, len))
  BY <1>1, <1>3, <1>4, WriteRoom
<1>6. Stands(w(len).links, w(len).sector, w(len).file, w(len).put)
  <2> HIDE DEF name
  <2>1. QED
    BY <1>1, <1>3, <1>5, WriteFills DEF name
<1> HIDE DEF w
<1>7. QED
  BY <1>1, <1>2, <1>6, WriterWrites

\* A step that only takes handles and other files away.
LEMMA RestStays ==
    ASSUME FatInv, DataInv, Named' \subseteq Named, Fat' \in Fats, sector' = sector,
           \A s \in Named' : dir'[s] = dir[s] /\ stored'[s] = stored[s],
           \A s \in Named' : dir[s].first \in Clusters =>
              Chain(Fat', dir[s].first) = Chain(Fat, dir[s].first),
           \A h \in Handles : file'[h].mode # "closed" =>
              file'[h] = file[h] /\ moved'[h] = moved[h] /\ file[h].slot \in Named',
           \A h \in Writers' : file[h].first \in Clusters =>
              Chain(Fat', file[h].first) = Chain(Fat, file[h].first)
    PROVE  DataInv'
<1>1. ASSUME NEW s \in Named'
      PROVE  Chain(Fat', dir[s].first) = Chain(Fat, dir[s].first)
  <2>1. CASE dir[s].first \in Clusters
    BY <2>1
  <2>2. CASE dir[s].first \notin Clusters
    BY <2>2, FatType, ChainEmpty DEF Fats
  <2>3. QED
    BY <2>1, <2>2
<1>2. ASSUME NEW s \in Named'
      PROVE  Stands(Fat', sector', dir'[s], stored'[s])
  <2>1. s \in Named /\ dir'[s] = dir[s] /\ stored'[s] = stored[s]
    OBVIOUS
  <2>2. \A c \in Body(Fat, dir[s].first) : sector'[c] = sector[c]
    OBVIOUS
  <2>3. QED
    BY <1>1, <2>1, <2>2, SlotKept
<1>3. ASSUME NEW h \in Writers'
      PROVE  Stands(Fat', sector', file'[h], moved'[h])
  <2>1. h \in Handles /\ file'[h].mode = "writes"
    BY DEF Writers, Writes
  <2>2. file'[h] = file[h] /\ moved'[h] = moved[h]
    BY <2>1
  <2>3. h \in Writers
    BY <2>1, <2>2 DEF Writers, Writes
  <2>4. \A c \in Body(Fat, file[h].first) : sector'[c] = sector[c]
    OBVIOUS
  <2>5. Chain(Fat', file[h].first) = Chain(Fat, file[h].first)
    <3>1. CASE file[h].first \in Clusters
      BY <3>1
    <3>2. CASE file[h].first \notin Clusters
      BY <3>2, FatType, ChainEmpty DEF Fats
    <3>3. QED
      BY <3>1, <3>2
  <2>6. QED
    BY <2>2, <2>3, <2>4, <2>5, WriterKept
<1>4. ASSUME NEW h \in Handles, file'[h].mode = "reads"
      PROVE  ReaderIs(h)'
  <2>1. file'[h] = file[h] /\ moved'[h] = moved[h] /\ file[h].slot \in Named'
    BY <1>4
  <2>2. PICK s : s = file[h].slot
    OBVIOUS
  <2>3. dir'[s] = dir[s] /\ stored'[s] = stored[s]
        /\ Chain(Fat', dir[s].first) = Chain(Fat, dir[s].first)
    BY <1>1, <2>1, <2>2
  <2>4. ASSUME BeingWritten(s)'
        PROVE  BeingWritten(s)
    <3>1. PICK g \in Handles : file'[g].mode = "writes" /\ file'[g].slot = s
      BY <2>4 DEF BeingWritten, Writes
    <3>2. QED
      BY <3>1 DEF BeingWritten, Writes
  <2>5. QED
    BY <1>4, <2>1, <2>2, <2>3, <2>4, ReaderKept
<1>5. QED
  BY <1>2, <1>3, <1>4 DEF DataInv

LEMMA DeleteStands ==
    ASSUME FatInv, DataInv, NEW s \in Slots, NEW links, DeletedSlot(s, links)
    PROVE  DataInv'
<1> DEFINE heads == DirHeads \cup WriterHeads
<1>1. /\ dir \in [Slots -> [name : Names \cup {End, Deleted}, first : Clusters \cup {0},
                            size : Nat]]
      /\ stored \in [Slots -> Seq(Units)] /\ Fat \in Fats /\ HeadsDiffer
  BY FatType DEF FatInv, FatTypeOK, HistoryOK
<1>2. /\ s \in Named /\ \A h \in Handles : file[h].mode # "closed" => file[h].slot # s
      /\ links = Without(Fat, Body(Fat, dir[s].first))
      /\ cache' = links /\ loaded' = TRUE
      /\ dir' = [dir EXCEPT ![s].name = Deleted] /\ stored' = [stored EXCEPT ![s] = <<>>]
      /\ UNCHANGED <<sector, file, moved, orphans>>
  BY DEF DeletedSlot
<1>3. /\ dir'[s].name = Deleted
      /\ \A r \in Slots : r # s => dir'[r] = dir[r] /\ stored'[r] = stored[r]
  BY <1>1, <1>2
<1>4. Named' = Named \ {s} /\ Named \subseteq Slots
  BY <1>2, <1>3, Fat12Assumption DEF Named
<1>5. Fat' = links /\ links \in Fats
  BY <1>1, <1>2 DEF Fat, Without, Fats, Links
<1>6. \A b \in heads \ {dir[s].first} : Chain(Fat', b) = Chain(Fat, b)
  BY DeleteKeeps
<1>7. ASSUME NEW r \in Named', dir[r].first \in Clusters
      PROVE  Chain(Fat', dir[r].first) = Chain(Fat, dir[r].first)
  <2>1. r \in Named /\ r # s
    BY <1>4
  <2>2. dir[r].first # dir[s].first
    <3>1. 0 \notin Clusters
      BY DEF Clusters
    <3>2. QED
      BY <1>1, <1>2, <1>7, <2>1, <3>1 DEF HeadsDiffer
  <2>3. dir[r].first \in heads
    BY <1>7, <2>1 DEF DirHeads
  <2> HIDE DEF heads
  <2>4. QED
    BY <1>6, <2>2, <2>3
<1>8. ASSUME NEW h \in Handles, file'[h].mode # "closed"
      PROVE  file'[h] = file[h] /\ moved'[h] = moved[h] /\ file[h].slot \in Named'
  <2>1. file'[h] = file[h] /\ moved'[h] = moved[h]
    BY <1>2
  <2>2. file[h] \in Handle /\ file[h].mode # "closed" /\ file[h].slot # s
    BY <1>2, <1>8, <2>1 DEF FatInv, FatTypeOK
  <2>3. file[h].mode = "reads" \/ file[h].mode = "writes"
    BY <2>2 DEF Handle
  <2>4. file[h].slot \in Named
    BY <2>3 DEF FatInv, ReadersFind, WritersApart, Writers, Writes
  <2>5. QED
    BY <1>4, <2>1, <2>2, <2>4
<1>9. ASSUME NEW h \in Writers', file[h].first \in Clusters
      PROVE  Chain(Fat', file[h].first) = Chain(Fat, file[h].first)
  <2>1. h \in Writers
    BY <1>2 DEF Writers, Writes
  <2>2. file[h].first \in heads
    BY <1>9, <2>1, WriterChain
  <2>3. file[h].first # dir[s].first
    <3>1. 0 \notin Clusters
      BY DEF Clusters
    <3>2. QED
      BY <1>1, <1>2, <1>9, <2>1, <3>1 DEF HeadsDiffer
  <2> HIDE DEF heads
  <2>4. QED
    BY <1>6, <2>2, <2>3
<1>10. QED
  BY <1>2, <1>3, <1>4, <1>5, <1>7, <1>8, <1>9, RestStays

LEMMA MountStands ==
    ASSUME FatInv, DataInv, fat12_init
    PROVE  DataInv'
<1>1. /\ UNCHANGED <<fat, dir, sector, cache, stored>> /\ loaded' = FALSE
      /\ file' = [h \in Handles |-> Closed]
  BY DEF fat12_init, onFlash
<1>2. \A h \in Handles : file'[h].mode = "closed"
  BY <1>1 DEF Closed
<1>3. Writers' = {} /\ Named' = Named
  BY <1>1, <1>2 DEF Writers, Writes, Named
<1>4. Fat' \in Fats
  BY <1>1 DEF Fat, FatInv, FatTypeOK, Fats
<1>5. \A b \in DirHeads : Chain(Fat', b) = Chain(Fat, b)
  BY InitKeeps
<1>6. \A s \in Named' : dir[s].first \in Clusters =>
         Chain(Fat', dir[s].first) = Chain(Fat, dir[s].first)
  BY <1>3, <1>5 DEF DirHeads
<1>7. QED
  BY <1>1, <1>2, <1>3, <1>4, <1>6, RestStays

LEMMA FormatStands ==
    ASSUME FatInv, DataInv, fat12_format
    PROVE  DataInv'
<1>1. /\ dir' = [s \in Slots |-> [name |-> End, first |-> 0, size |-> 0]]
      /\ file' = [h \in Handles |-> Closed]
  BY DEF fat12_format
<1>2. /\ \A h \in Handles : file'[h].mode = "closed"
      /\ \A s \in Slots : dir'[s].name = End
  BY <1>1 DEF Closed
<1>3. Writers' = {} /\ Named' = {}
  BY <1>2, Fat12Assumption DEF Writers, Writes, Named
<1>4. \A h \in Handles : ~(file'[h].mode = "reads")
  BY <1>2
<1>5. QED
  BY <1>3, <1>4 DEF DataInv

LEMMA DataInitially == ASSUME FatInit PROVE DataInv
<1>1. /\ dir = [s \in Slots |-> [name |-> End, first |-> 0, size |-> 0]]
      /\ file = [h \in Handles |-> Closed]
  BY DEF FatInit
<1>2. /\ \A h \in Handles : file[h].mode = "closed"
      /\ \A s \in Slots : dir[s].name = End
  BY <1>1 DEF Closed
<1>3. Writers = {} /\ Named = {}
  BY <1>2, Fat12Assumption DEF Writers, Writes, Named
<1>4. \A h \in Handles : ~(file[h].mode = "reads")
  BY <1>2
<1>5. QED
  BY <1>3, <1>4 DEF DataInv

LEMMA DataStep == ASSUME NoSplits, FatInv, DataInv, [FatNext]_fatVars PROVE DataInv'
<1>1. CASE fat12_format
  BY <1>1, FormatStands
<1>2. CASE fat12_init
  BY <1>2, MountStands
<1>3. CASE \E name \in Names : fat12_delete(name)
  <2>1. PICK s \in Slots : \E links : DeletedSlot(s, links)
    BY <1>3, DeleteIsDone
  <2>2. QED
    BY <2>1, DeleteStands
<1>4. ASSUME NEW h \in Handles, fat12_read(h)
      PROVE  DataInv'
  BY <1>4, ReadData
<1>5. ASSUME NEW h \in Handles, fat12_write(h)
      PROVE  DataInv'
  BY <1>5, WriteStands
<1>6. ASSUME NEW h \in Handles, fat12_close(h)
      PROVE  DataInv'
  <2>1. file[h].mode = "reads" \/ file[h].mode = "writes"
    BY <1>6 DEF fat12_close
  <2>2. QED
    BY <1>6, <2>1, ReaderCloses, WriterCloses
<1>7. ASSUME NEW h \in Handles, NEW name \in Names, fat12_open(h, name)
      PROVE  DataInv'
  BY <1>7, ReaderOpens
<1>8. ASSUME NEW h \in Handles, NEW name \in Names, fat12_create(h, name)
      PROVE  DataInv'
  <2>1. PICK s \in FreeSlots : Created(h, name, s)
    BY <1>8, CreateIsDone
  <2>2. QED
    BY <2>1, WriterCreates
<1>9. CASE UNCHANGED fatVars
  <2>1. UNCHANGED <<fat, dir, sector, cache, loaded, dirty, file, stored, moved, orphans>>
    BY <1>9 DEF fatVars, onFlash, fatCache
  <2>2. Fat' = Fat /\ Named' = Named /\ Writers' = Writers
    BY <2>1 DEF Fat, Named, Writers, Writes
  <2>3. \A h \in Handles : ReaderIs(h)' <=> ReaderIs(h)
    BY <2>1, <2>2 DEF ReaderIs, BeingWritten, Writes
  <2>4. QED
    BY <2>1, <2>2, <2>3 DEF DataInv
<1>10. QED
  BY <1>1, <1>2, <1>3, <1>4, <1>5, <1>6, <1>7, <1>8, <1>9 DEF FatNext

LEMMA DataInvariant == ASSUME NoSplits PROVE FatSpec => []DataInv
<1>1. FatInit => DataInv
  BY DataInitially
<1>2. FatInv /\ DataInv /\ [FatNext]_fatVars => DataInv'
  BY DataStep
<1>3. QED
  BY <1>1, <1>2, FatInvariant, PTL DEF FatSpec

\* A closed file's chain is the same in either copy on flash.
LEMMA ChainOnFlash ==
    ASSUME FatInv, NEW s \in Named, NEW i \in 1 .. 2
    PROVE  Chain(fat[i], dir[s].first) = Chain(Fat, dir[s].first)
<1> DEFINE a == dir[s].first
           heads == DirHeads \cup WriterHeads
<1>1. Held(Fat, heads, orphans) /\ CopiesAgree /\ HeadsDiffer /\ fat \in [1 .. 2 -> Fats]
  BY DEF FatInv, FatTypeOK, Fats
<1>2. fat[i] = fat[1] /\ fat[1] \in Fats
  <2>1. i = 1 \/ i = 2
    OBVIOUS
  <2>2. QED
    BY <1>1, <2>1 DEF CopiesAgree
<1>3. CASE a \in Clusters
  <2>1. a \in heads
    BY <1>3, SlotChain
  <2>2. ASSUME NEW c \in Body(Fat, a)
        PROVE  fat[1][c] = Fat[c]
    <3> SUFFICES ASSUME fat[1][c] # Fat[c] PROVE FALSE
      OBVIOUS
    <3>1. c \in Clusters
      <4> HIDE DEF heads
      <4>1. QED
        BY <1>1, <2>1, HeldBody
    <3>2. PICK h \in Writers : c \in Body(Fat, file[h].first)
      BY <1>1, <3>1 DEF CopiesAgree
    <3>3. file[h].first \in Clusters
      <4>1. file[h].first \notin Clusters => Body(Fat, file[h].first) = {}
        BY FatType, ChainEmpty DEF Fats
      <4>2. QED
        BY <3>2, <4>1
    <3>4. file[h].first \in heads /\ file[h].first # a
      <4>1. file[h].first \in heads
        BY <3>3, WriterChain
      <4>2. 0 \notin Clusters
        BY DEF Clusters
      <4>3. QED
        BY <1>1, <1>3, <4>1, <4>2 DEF HeadsDiffer
    <3>5. QED
      BY <1>1, <2>1, <3>2, <3>4 DEF Held
  <2> HIDE DEF heads
  <2>3. Chain(fat[1], a) = Chain(Fat, a)
    BY <1>1, <1>2, <2>1, <2>2, HeldFrame
  <2>4. QED
    BY <1>2, <2>3
<1>4. CASE a \notin Clusters
  BY <1>2, <1>4, FatType, ChainEmpty DEF Fats
<1>5. QED
  BY <1>3, <1>4

LEMMA ClosedStand == ASSUME FatInv, DataInv PROVE ClosedFilesStand
<1> SUFFICES ASSUME NEW s \in Slots, dir[s].name \in Names
             PROVE  Listed(s) /\ \A i \in 1 .. 2 : Holds(fat[i], dir[s], stored[s])
  BY DEF ClosedFilesStand
<1>1. s \in Named /\ dir[s].name # End
  BY Fat12Assumption DEF Named
<1>2. Listed(s)
  <2>1. \A r \in 0 .. s : r \in Slots /\ r <= s
    BY Fat12Assumption DEF Slots
  <2>2. QED
    BY <1>1, <2>1 DEF FatInv, UsedFirst, Listed
<1>3. ASSUME NEW i \in 1 .. 2
      PROVE  Holds(fat[i], dir[s], stored[s])
  <2> DEFINE links == fat[i]
             f == dir[s]
             units == stored[s]
  <2>1. Chain(links, f.first) = Chain(Fat, f.first)
    BY <1>1, ChainOnFlash
  <2>2. Stands(Fat, sector, f, units) /\ f.size \in Nat /\ Chain(Fat, f.first) \in Seq(Clusters)
    BY <1>1, SlotChain DEF DataInv
  <2> HIDE DEF links, f, units
  <2>3. Stands(links, sector, f, units) /\ Chain(links, f.first) \in Seq(Clusters)
    BY <2>1, <2>2 DEF Stands
  <2>4. Holds(links, f, units)
    BY <2>2, <2>3, StandsHolds
  <2>5. QED
    BY <2>4 DEF links, f, units
<1>4. QED
  BY <1>2, <1>3

LEMMA WrittenStands == ASSUME FatInv, DataInv PROVE WrittenIsKept
<1> SUFFICES ASSUME NEW h \in Handles, Writes(h)
             PROVE  Holds(Fat, file[h], moved[h])
  BY DEF WrittenIsKept
<1>1. h \in Writers
  BY DEF Writers
<1> DEFINE f == file[h]
           units == moved[h]
<1>2. Stands(Fat, sector, f, units) /\ f.size \in Nat /\ Chain(Fat, f.first) \in Seq(Clusters)
  BY <1>1, WriterChain DEF DataInv
<1> HIDE DEF f, units
<1>3. Holds(Fat, f, units)
  BY <1>2, StandsHolds
<1>4. QED
  BY <1>3 DEF f, units

\* Every file that was closed is found and holds what was written to it, by
\* either copy of the FAT: for disks, directories and sectors of any size, files
\* and writes of any length, whatever else is open or full (fat12_write,
\* fat12_close, fat12_delete), if no write goes on where one ended on a sector
\* boundary.
THEOREM FatClosedFilesStand == ASSUME NoSplits PROVE FatSpec => []ClosedFilesStand
<1>1. FatInv /\ DataInv => ClosedFilesStand
  BY ClosedStand
<1>2. FatSpec => []DataInv
  BY DataInvariant
<1>3. QED
  BY <1>1, <1>2, FatInvariant, PTL

\* What a caller that starts no write on a sector boundary has written is in the
\* file, one call after the other: the boundary is the only place where
\* fat12_write loses it.
THEOREM FatWrittenIsKept == ASSUME NoSplits PROVE FatSpec => []WrittenIsKept
<1>1. FatInv /\ DataInv => WrittenIsKept
  BY WrittenStands
<1>2. FatSpec => []DataInv
  BY DataInvariant
<1>3. QED
  BY <1>1, <1>2, FatInvariant, PTL

\* A reader gets its file from the start without a gap, and each call before the
\* end gets something, for reads and files of any length (fat12_read), if no
\* write goes on where one ended on a sector boundary.
THEOREM FatReadBack == ASSUME NoSplits PROVE FatSpec => ReadBack
<1> DEFINE A == \A h \in Handles : fat12_read(h) => ReadWell(h)
<1>1. FatInv /\ DataInv => A
  BY ReadData
<1>2. FatSpec => []DataInv
  BY DataInvariant
<1>3. ReadBack <=> [][A]_fatVars
  BY DEF ReadBack, ReadWell
<1> HIDE DEF A
<1>4. QED
  BY <1>1, <1>2, <1>3, FatInvariant, PTL
=============================================================================
