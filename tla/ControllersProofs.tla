-------------------------- MODULE ControllersProofs --------------------------
(***************************************************************************)
(* What holds of the controllers and simple devices, each by itself: the   *)
(* CLINT, the PLIC, the UART and the timer with timer_delay.               *)
(***************************************************************************)
EXTENDS Clint, Plic, Uart, Timer, Facts

----------------------------------------------------------------------------
(* The CLINT's flags agree with the comparison they stand for, for every   *)
(* register width and every set of harts.  FlagInv is inductive by itself: *)
(* each action either recomputes a flag or moves mtime by one.             *)

\* A write of one lane leaves a register within its width.
LEMMA SpliceType ==
    ASSUME NEW v \in Time, NEW lane \in Lanes, NEW d \in Digit
    PROVE  Splice(v, lane, d) \in Time
<1> DEFINE q == v \div Radix
           r == v % Radix
<1>1. /\ q \in Int /\ r \in 0 .. Radix - 1 /\ v = Radix * q + r
      /\ v \in Int /\ d \in Int /\ Radix \in Int
  BY RadixAssumption DEF Time, Digit
<1>2. q \in 0 .. Radix - 1
  <2>1. q >= 0
    BY <1>1, RadixAssumption DEF Time
  <2>2. q < Radix
    <3>1. SUFFICES ASSUME q >= Radix PROVE FALSE
      BY <1>1
    <3>2. Radix * q >= Radix * Radix
      BY <3>1, <1>1, RadixAssumption
    <3>3. QED
      BY <3>2, <1>1 DEF Time
  <2>3. QED
    BY <2>1, <2>2, <1>1
<1>3. ASSUME NEW x \in Digit, NEW y \in Digit
      PROVE  x + Radix * y \in Time
  <2>1. Radix * y <= Radix * (Radix - 1) /\ Radix * y >= 0 /\ Radix * y \in Int
    BY RadixAssumption DEF Digit
  <2>2. Radix * (Radix - 1) = Radix * Radix - Radix /\ Radix * Radix \in Int
    BY RadixAssumption
  <2>3. QED
    BY <2>1, <2>2, RadixAssumption DEF Digit, Time
<1>4. CASE lane = "lo"
  BY <1>2, <1>3, <1>4 DEF Splice, Digit
<1>5. CASE lane = "hi"
  BY <1>1, <1>3, <1>5 DEF Splice, Digit
<1>6. QED
  BY <1>4, <1>5 DEF Lanes

\* A tick leaves mtime within its width, and moves it up by one or to zero.
LEMMA TickType ==
    ASSUME NEW v \in Time
    PROVE  /\ (v + 1) % (Radix * Radix) \in Time
           /\ (v + 1) % (Radix * Radix) = 0 \/ (v + 1) % (Radix * Radix) = v + 1
<1>1. Radix * Radix \in Nat \ {0}
  BY RadixAssumption
<1>2. CASE v + 1 = Radix * Radix
  BY <1>1, <1>2 DEF Time
<1>3. CASE v + 1 < Radix * Radix
  <2>1. (v + 1) % (Radix * Radix) = v + 1
    BY <1>1, <1>3 DEF Time
  <2>2. QED
    BY <2>1, <1>3, <1>1 DEF Time
<1>4. QED
  BY <1>1, <1>2, <1>3 DEF Time

\* The registers keep their width under every byte-lane write and every tick.
THEOREM ClintTypeCorrect == ClintSpec => []ClintTypeOK
<1>1. ClintInit => ClintTypeOK
  <2>1. 0 \in Time /\ Radix * Radix - 1 \in Time
    BY RadixAssumption DEF Time
  <2>2. QED
    BY <2>1 DEF ClintInit, ClintTypeOK
<1>2. ClintTypeOK /\ [ClintNext]_clintVars => ClintTypeOK'
  <2> SUFFICES ASSUME ClintTypeOK, [ClintNext]_clintVars
               PROVE  ClintTypeOK'
    OBVIOUS
  <2>1. ASSUME NEW h \in Harts, NEW d \in Digit, WriteMsip(h, d)
        PROVE  ClintTypeOK'
    BY <2>1 DEF ClintTypeOK, WriteMsip
  <2>2. ASSUME NEW h \in Harts, NEW cmp \in Time, Compare(h, cmp)
        PROVE  ClintTypeOK'
    <3>1. (mtime >= cmp) \in BOOLEAN
      OBVIOUS
    <3>2. QED
      BY <2>2, <3>1 DEF ClintTypeOK, Compare
  <2>3. ASSUME NEW h \in Harts, NEW lane \in Lanes, NEW d \in Digit,
               WriteMtimecmp(h, lane, d)
        PROVE  ClintTypeOK'
    BY <2>2, <2>3, SpliceType DEF ClintTypeOK, WriteMtimecmp
  <2>4. ASSUME NEW lane \in Lanes, NEW d \in Digit, WriteMtime(lane, d)
        PROVE  ClintTypeOK'
    BY <2>4, SpliceType DEF ClintTypeOK, WriteMtime
  <2>5. ASSUME NEW h \in Harts, NEW v \in Time, SetMtimecmp(h, v)
        PROVE  ClintTypeOK'
    BY <2>2, <2>5 DEF SetMtimecmp
  <2>6. CASE Tick
    BY <2>6, TickType DEF ClintTypeOK, Tick
  <2>7. CASE UNCHANGED clintVars
    BY <2>7 DEF ClintTypeOK, clintVars
  <2>8. QED
    BY <2>1, <2>3, <2>4, <2>5, <2>6, <2>7 DEF ClintNext, ClintWrite
<1>3. QED
  BY <1>1, <1>2, PTL DEF ClintSpec

----------------------------------------------------------------------------
\* The two facts about a flag, together: inductive relative to the types.
FlagInv == FlagFaithful /\ NoLostDeadline

\* Every step keeps the flags right: a comparison of one hart, a write of
\* mtime, and a tick, which may leave a stale flag only where it records a
\* rollover.
LEMMA FlagStep ==
    ClintTypeOK /\ FlagInv /\ [ClintNext]_clintVars => FlagInv'
<1> SUFFICES ASSUME ClintTypeOK, FlagInv, [ClintNext]_clintVars
             PROVE  FlagInv'
  OBVIOUS
<1> USE DEF FlagInv, FlagFaithful, NoLostDeadline
<1>1. ASSUME NEW h \in Harts, NEW d \in Digit, WriteMsip(h, d)
      PROVE  FlagInv'
  BY <1>1 DEF WriteMsip
<1>2. ASSUME NEW h \in Harts, NEW cmp \in Time, Compare(h, cmp)
      PROVE  FlagInv'
  <2>1. ASSUME NEW g \in Harts, g # h
        PROVE  /\ mtimecmp'[g] = mtimecmp[g]
               /\ timerInterrupt'[g] = timerInterrupt[g]
               /\ wrapped'[g] = wrapped[g]
    BY <1>2, <2>1 DEF Compare, ClintTypeOK
  <2>2. /\ mtimecmp'[h] = cmp
        /\ timerInterrupt'[h] = (mtime >= cmp)
        /\ mtime' = mtime
    BY <1>2 DEF Compare, ClintTypeOK
  <2>3. QED
    BY <2>1, <2>2
<1>3. ASSUME NEW h \in Harts, NEW lane \in Lanes, NEW d \in Digit,
             WriteMtimecmp(h, lane, d)
      PROVE  FlagInv'
  BY <1>2, <1>3, SpliceType DEF ClintTypeOK, WriteMtimecmp
<1>4. ASSUME NEW lane \in Lanes, NEW d \in Digit, WriteMtime(lane, d)
      PROVE  FlagInv'
  BY <1>4 DEF WriteMtime
<1>5. ASSUME NEW h \in Harts, NEW v \in Time, SetMtimecmp(h, v)
      PROVE  FlagInv'
  BY <1>2, <1>5 DEF SetMtimecmp
<1>6. CASE Tick
  <2>1. mtime' = 0 \/ (mtime' = mtime + 1)
    BY <1>6, TickType DEF Tick, ClintTypeOK
  <2>2. ASSUME NEW g \in Harts, ~wrapped'[g]
        PROVE  ~wrapped[g] /\ mtime' = mtime + 1
    BY <1>6, <2>1, <2>2 DEF Tick
  <2>3. \A g \in Harts : mtimecmp[g] \in Int /\ mtime \in Int
    BY DEF ClintTypeOK, Time
  <2>4. ASSUME NEW g \in Harts
        PROVE  /\ timerInterrupt'[g] = (timerInterrupt[g] \/ mtime' >= mtimecmp[g])
               /\ mtimecmp'[g] = mtimecmp[g]
    BY <1>6 DEF Tick
  <2>5. ASSUME NEW g \in Harts, ~wrapped'[g]
        PROVE  timerInterrupt'[g] <=> mtime' >= mtimecmp'[g]
    <3>1. timerInterrupt[g] <=> mtime >= mtimecmp[g]
      BY <2>2, <2>5
    <3>2. mtime >= mtimecmp[g] => mtime' >= mtimecmp[g]
      BY <2>2, <2>3, <2>5
    <3>3. QED
      BY <3>1, <3>2, <2>4
  <2>6. QED
    BY <2>4, <2>5
<1>7. CASE UNCHANGED clintVars
  BY <1>7 DEF clintVars
<1>8. QED
  BY <1>1, <1>3, <1>4, <1>5, <1>6, <1>7 DEF ClintNext, ClintWrite

\* After Initialize no deadline has passed: mtimecmp is at its last value.
LEMMA FlagInit == ClintInit => FlagInv
<1>1. Radix * Radix - 1 > 0
  BY RadixAssumption
<1>2. ASSUME ClintInit, NEW h \in Harts
      PROVE  ~timerInterrupt[h] /\ ~(mtime >= mtimecmp[h])
  BY <1>1, <1>2, RadixAssumption DEF ClintInit
<1>3. QED
  BY <1>2 DEF FlagInv, FlagFaithful, NoLostDeadline

\* A flag that is not stale by a rollover says exactly mtime >= mtimecmp,
\* whatever the order of partial writes and ticks.
THEOREM ClintFlagFaithful == ClintSpec => []FlagFaithful
<1>1. QED
  BY FlagInit, FlagStep, ClintTypeCorrect, PTL DEF ClintSpec, FlagInv

\* No passed deadline goes unflagged, not even across a rollover of mtime.
THEOREM ClintNoLostDeadline == ClintSpec => []NoLostDeadline
<1>1. QED
  BY FlagInit, FlagStep, ClintTypeCorrect, PTL DEF ClintSpec, FlagInv

----------------------------------------------------------------------------
(* The PLIC.  The bits it leaves in mip follow the lines because no source  *)
(* but a polled one is ever pending and because source 0 has priority 0,    *)
(* which nothing can beat: the loop's 0 means none.                         *)

PlicInv ==
    /\ TypeOK
    /\ priority[0] = 0
    /\ pending \subseteq Polled

\* What the arbitration loop makes of the best source b before s.
Better(pend, c, s, b) ==
    IF /\ s \in pend \cap enable[c]
       /\ priority[s] > threshold[c]
       /\ priority[s] > priority[b]
    THEN s ELSE b

\* The loop's values exist, and Best_Pending is the last of them.
LEMMA BestLoop ==
    ASSUME NEW pend, NEW c
    PROVE  \E f : /\ f[0] = 0
                  /\ \A s \in Sources : f[s] = Better(pend, c, s, f[s - 1])
                  /\ Best_Pending(pend, c) = f[MaxSources - 1]
<1> DEFINE n == MaxSources - 1
           Loop(f) == f = [s \in SourceId |->
                             IF s = 0 THEN 0
                             ELSE IF /\ s \in pend \cap enable[c]
                                     /\ priority[s] > threshold[c]
                                     /\ priority[s] > priority[f[s - 1]]
                                  THEN s ELSE f[s - 1]]
           best == CHOOSE f : Loop(f)
           g == [s \in 1 .. n |-> [b \in 0 .. n |-> Better(pend, c, s, b)]]
<1>1. n \in Nat
  BY PlicAssumption
<1>2. SourceId = 0 .. n /\ Sources = 1 .. n
  BY DEF SourceId, Sources
<1>3. \A s \in 0 .. n : \A f : Better(pend, c, s, f[s - 1])
         = IF /\ s \in pend \cap enable[c]
              /\ priority[s] > threshold[c]
              /\ priority[s] > priority[f[s - 1]]
           THEN s ELSE f[s - 1]
  BY DEF Better
<1>4. g \in [1 .. n -> [0 .. n -> 0 .. n]]
  BY <1>1 DEF Better
<1>5. \E f \in [0 .. n -> 0 .. n] : f[0] = 0 /\ \A s \in 1 .. n : f[s] = g[s][f[s - 1]]
  <2> DEFINE all == 0 .. n
  <2>1. 0 \in all /\ g \in Steps(n, all)
    BY <1>1, <1>4 DEF Steps
  <2> HIDE DEF g, n, all
  <2>2. \E f \in [0 .. n -> all] : Iterates(f, n, 0, g)
    BY <1>1, <2>1, Recursion
  <2>3. QED
    BY <2>2 DEF all, Iterates
<1>6. \E f : Loop(f)
  <2>1. PICK f \in [0 .. n -> 0 .. n] : f[0] = 0 /\ \A s \in 1 .. n : f[s] = g[s][f[s - 1]]
    BY <1>5
  <2>2. \A s \in 1 .. n : s - 1 \in 0 .. n /\ f[s - 1] \in 0 .. n
    BY <1>1
  <2>3. \A s \in 1 .. n : f[s] = Better(pend, c, s, f[s - 1])
    BY <2>1, <2>2
  <2>4. \A s \in 0 .. n : s = 0 \/ s \in 1 .. n
    OBVIOUS
  <2>5. Loop(f)
    BY <1>2, <2>1, <2>3, <2>4 DEF Better
  <2>6. QED
    <3> HIDE DEF Loop
    <3>1. QED
      BY <2>5
<1>7. Loop(best)
  <2> HIDE DEF Loop
  <2>1. QED
    BY <1>6
<1>8. Best_Pending(pend, c) = best[n]
  BY DEF Best_Pending
<1>9. best[0] = 0 /\ \A s \in Sources : best[s] = Better(pend, c, s, best[s - 1])
  <2> HIDE DEF best
  <2>1. 0 \in SourceId /\ \A s \in Sources : s \in SourceId /\ s # 0
    BY <1>1, <1>2
  <2>2. QED
    BY <1>7, <2>1 DEF Better
<1>10. QED
  <2> HIDE DEF best
  <2>1. QED
    BY <1>8, <1>9

\* What the loop has found among the sources up to s: the best of those it may
\* deliver, or 0 if there is none.
FoundUpTo(pend, c, s, b) ==
    /\ b \in 0 .. s
    /\ b # 0 => b \in Deliverable(pend, c)
    /\ \A o \in Deliverable(pend, c) : o <= s =>
          /\ b # 0
          /\ priority[o] < priority[b] \/ (priority[o] = priority[b] /\ b <= o)

LEMMA BestIsFound ==
    ASSUME PlicInv, NEW pend, pend \subseteq Sources, NEW c \in Contexts
    PROVE  FoundUpTo(pend, c, MaxSources - 1, Best_Pending(pend, c))
<1> DEFINE n == MaxSources - 1
<1>1. PICK f : /\ f[0] = 0
               /\ \A s \in Sources : f[s] = Better(pend, c, s, f[s - 1])
               /\ Best_Pending(pend, c) = f[n]
  BY BestLoop
<1> DEFINE A == {s \in 0 .. n : FoundUpTo(pend, c, s, f[s])}
<1>2. n \in Nat /\ Sources = 1 .. n /\ SourceId = 0 .. n
  BY PlicAssumption DEF Sources, SourceId
<1>3. /\ \A s \in 0 .. n : priority[s] \in 0 .. 7
      /\ threshold[c] \in 0 .. 7 /\ priority[0] = 0
      /\ Deliverable(pend, c) \subseteq 1 .. n
      /\ \A s \in Deliverable(pend, c) : priority[s] > threshold[c]
  BY <1>2 DEF PlicInv, TypeOK, Deliverable
<1>4. 0 \in A
  <2>1. FoundUpTo(pend, c, 0, f[0])
    BY <1>1, <1>3 DEF FoundUpTo
  <2>2. QED
    BY <1>2, <2>1
<1>5. ASSUME NEW s \in 1 .. n, s - 1 \in A
      PROVE  s \in A
  <2> DEFINE b == f[s - 1]
  <2>1. FoundUpTo(pend, c, s - 1, b) /\ f[s] = Better(pend, c, s, b)
    BY <1>1, <1>2, <1>5
  <2> HIDE DEF b
  <2>2. b \in 0 .. n /\ s \in 0 .. n
    BY <1>2, <2>1 DEF FoundUpTo
  <2>3. (s \in pend \cap enable[c] /\ priority[s] > threshold[c]) <=> s \in Deliverable(pend, c)
    BY DEF Deliverable
  <2>4. CASE s \in Deliverable(pend, c) /\ priority[s] > priority[b]
    <3>1. f[s] = s
      BY <2>1, <2>3, <2>4 DEF Better
    <3>2. ASSUME NEW o \in Deliverable(pend, c), o <= s
          PROVE  priority[o] < priority[s] \/ (priority[o] = priority[s] /\ s <= o)
      <4>1. CASE o = s
        BY <1>3, <2>2, <4>1
      <4>2. CASE o # s
        <5>1. o <= s - 1 /\ o \in 0 .. n
          BY <1>3, <3>2, <4>2
        <5>2. QED
          BY <1>3, <2>1, <2>2, <2>4, <5>1 DEF FoundUpTo
      <4>3. QED
        BY <4>1, <4>2
    <3>3. QED
      BY <2>2, <2>4, <3>1, <3>2 DEF FoundUpTo
  <2>5. CASE ~(s \in Deliverable(pend, c) /\ priority[s] > priority[b])
    <3>1. f[s] = b
      BY <2>1, <2>3, <2>5 DEF Better
    <3>2. ASSUME NEW o \in Deliverable(pend, c), o <= s
          PROVE  b # 0 /\ (priority[o] < priority[b] \/ (priority[o] = priority[b] /\ b <= o))
      <4>1. o \in 0 .. n /\ priority[o] \in 0 .. 7 /\ priority[o] > 0
        BY <1>3
      <4>2. CASE o = s
        BY <1>3, <2>1, <2>2, <2>5, <4>1, <4>2 DEF FoundUpTo
      <4>3. CASE o # s
        <5>1. o <= s - 1
          BY <3>2, <4>1, <4>3
        <5>2. QED
          BY <2>1, <5>1 DEF FoundUpTo
      <4>4. QED
        BY <4>2, <4>3
    <3>3. QED
      BY <2>1, <2>2, <3>1, <3>2 DEF FoundUpTo
  <2>6. QED
    BY <2>4, <2>5
<1>6. n \in A
  <2> HIDE DEF A, n
  <2>1. \A i \in 0 .. n : i \in A
    BY <1>2, <1>4, <1>5, UpTo
  <2>2. QED
    BY <1>2, <2>1
<1>7. QED
  BY <1>1, <1>6

\* The answer of the loop, without the loop.
LEMMA BestPending ==
    ASSUME PlicInv, NEW pend, pend \subseteq Sources, NEW c \in Contexts
    PROVE  LET b == Best_Pending(pend, c) IN
             /\ b \in SourceId
             /\ b = 0 <=> Deliverable(pend, c) = {}
             /\ b # 0 => b \in Deliverable(pend, c)
             /\ \A o \in Deliverable(pend, c) \ {b} :
                   priority[o] < priority[b] \/ (priority[o] = priority[b] /\ b < o)
<1> DEFINE b == Best_Pending(pend, c)
<1>1. FoundUpTo(pend, c, MaxSources - 1, b)
  BY BestIsFound
<1>2. Deliverable(pend, c) \subseteq 1 .. MaxSources - 1
  BY DEF Deliverable, Sources
<1>3. MaxSources \in Nat \ {0} /\ SourceId = 0 .. MaxSources - 1
  BY PlicAssumption DEF SourceId
<1> HIDE DEF b
<1>4. /\ b \in SourceId
      /\ b = 0 <=> Deliverable(pend, c) = {}
      /\ b # 0 => b \in Deliverable(pend, c)
      /\ \A o \in Deliverable(pend, c) \ {b} :
            priority[o] < priority[b] \/ (priority[o] = priority[b] /\ b < o)
  BY <1>1, <1>2, <1>3 DEF FoundUpTo
<1>5. QED
  BY <1>4 DEF b

LEMMA PlicInit == Init => PlicInv
<1> SUFFICES ASSUME Init
             PROVE  PlicInv
  OBVIOUS
<1>1. MaxSources \in Nat \ {0} /\ 0 \in SourceId
  BY PlicAssumption DEF SourceId
<1>2. QED
  BY <1>1 DEF Init, PlicInv, TypeOK, Contexts

LEMMA PlicStep == PlicInv /\ [Next]_vars => PlicInv'
<1> SUFFICES ASSUME PlicInv, [Next]_vars
             PROVE  PlicInv'
  OBVIOUS
<1>1. Polled \subseteq Sources /\ Priorities \subseteq Nat /\ EnableMasks \subseteq SUBSET SourceId
  BY PlicAssumption
<1>2. \A v \in Priorities : Masked(v) \in 0 .. 7
  BY <1>1 DEF Masked
<1>3. \A s \in Sources : s # 0 /\ s \in SourceId
  BY DEF Sources, SourceId
<1>4. CASE Poll
  BY <1>1, <1>4 DEF Poll, Sampled, regs, PlicInv, TypeOK
<1>5. CASE WritePriority
  BY <1>2, <1>3, <1>5 DEF WritePriority, PlicInv, TypeOK
<1>6. CASE WriteEnable
  BY <1>1, <1>6 DEF WriteEnable, PlicInv, TypeOK
<1>7. CASE WriteThreshold
  BY <1>2, <1>7 DEF WriteThreshold, PlicInv, TypeOK
<1>8. CASE ClaimRead
  <2>1. PICK c \in Contexts : claim' = <<c, Best_Pending(pending, c)>>
    BY <1>8 DEF ClaimRead
  <2>2. Best_Pending(pending, c) \in SourceId
    BY BestPending DEF PlicInv, TypeOK
  <2>3. QED
    BY <1>8, <2>1, <2>2 DEF ClaimRead, regs, PlicInv, TypeOK
<1>9. CASE CompleteWrite
  <2>1. 0 \in SourceId
    BY PlicAssumption DEF SourceId
  <2>2. QED
    BY <1>9, <2>1 DEF CompleteWrite, regs, PlicInv, TypeOK
<1>10. CASE RaiseLine \/ LowerLine
  BY <1>10 DEF RaiseLine, LowerLine, regs, PlicInv, TypeOK
<1>11. CASE UNCHANGED vars
  BY <1>11 DEF vars, regs, PlicInv, TypeOK
<1>12. QED
  BY <1>4, <1>5, <1>6, <1>7, <1>8, <1>9, <1>10, <1>11 DEF Next

LEMMA PlicInvariant == Spec => []PlicInv
  BY PlicInit, PlicStep, PTL DEF Spec

\* The PLIC's registers keep their types, and no source but a wired one is
\* ever pending.
THEOREM PlicTypeCorrect == Spec => []TypeOK
  BY PlicInvariant, PTL DEF PlicInv

\* The two external-interrupt bits that PLIC_Update_Mip leaves in mip are what
\* the lines call for at that moment, for any number of sources, wiring and
\* programming: no bit outlives its line, and none is missed.
THEOREM PlicEipFaithful == Spec => EipFaithful
<1> DEFINE Faithful == eip' = {c \in Contexts : Deliverable(lines, c) # {}}
<1>1. PlicInv /\ Next => (pending' # pending \/ eip' # eip => Faithful)
  <2> SUFFICES ASSUME PlicInv, Next, pending' # pending \/ eip' # eip
               PROVE  Faithful
    OBVIOUS
  <2>1. Poll
    BY DEF Next, WritePriority, WriteEnable, WriteThreshold, ClaimRead, CompleteWrite,
           RaiseLine, LowerLine
  <2>2. Sampled = lines /\ lines \subseteq Sources
    BY PlicAssumption DEF Sampled, PlicInv, TypeOK
  <2>3. \A c \in Contexts : Best_Pending(lines, c) = 0 <=> Deliverable(lines, c) = {}
    BY <2>2, BestPending
  <2>4. QED
    BY <2>1, <2>2, <2>3 DEF Poll
<1>2. QED
  BY <1>1, PlicInvariant, PTL DEF Spec, EipFaithful

\* A load from a claim register answers the deliverable source of the highest
\* priority and the lowest number, and 0 only when nothing is deliverable.
THEOREM PlicClaimIsBest == Spec => ClaimIsBest
<1> DEFINE IsBest(c, s) ==
      /\ s \in Deliverable(pending, c) \/ (s = 0 /\ Deliverable(pending, c) = {})
      /\ \A o \in Deliverable(pending, c) \ {s} :
            \/ priority[o] < priority[s]
            \/ priority[o] = priority[s] /\ s < o
<1>1. PlicInv /\ Next => (claim' # NoClaim => IsBest(claim'[1], claim'[2]))
  <2> SUFFICES ASSUME PlicInv, Next, claim' # NoClaim
               PROVE  IsBest(claim'[1], claim'[2])
    OBVIOUS
  <2>1. ClaimRead
    BY DEF Next, Poll, WritePriority, WriteEnable, WriteThreshold, CompleteWrite,
           RaiseLine, LowerLine
  <2>2. PICK c \in Contexts : claim' = <<c, Best_Pending(pending, c)>>
    BY <2>1 DEF ClaimRead
  <2>3. claim'[1] = c /\ claim'[2] = Best_Pending(pending, c)
    BY <2>2
  <2>4. IsBest(c, Best_Pending(pending, c))
    BY BestPending DEF PlicInv, TypeOK
  <2>5. QED
    BY <2>3, <2>4
<1>2. QED
  BY <1>1, PlicInvariant, PTL DEF Spec, ClaimIsBest

----------------------------------------------------------------------------
(* The UART: what was typed is in what RBR gave, in the ring and in the    *)
(* host's queue, in this order.                                            *)

\* Why: what the ring holds is read off its tail and its count, so where the
\* head is must follow from them, or a drain would leave a gap; and what is in
\* use of the ring was typed, whatever the rest of it holds.
UartInv ==
    /\ UartTypeOK /\ InputIsFifo
    /\ Input_Head = Wrapped(Input_Tail + Input_Count)
    /\ InRing \in Seq(Chars)

LEMMA InRingIs ==
    InRing = InRingOrder(Input_Buffer, Input_Tail, Input_Count, Input_Buffer_Size)
  BY DEF InRing, InRingOrder, Wrapped

LEMMA UartInitial == UartInit => UartInv
<1> SUFFICES ASSUME UartInit PROVE UartInv
  OBVIOUS
<1>1. UartTypeOK
  BY UartAssumption DEF UartInit, UartTypeOK, Slot
<1>2. InRing = <<>>
  BY DEF UartInit, InRing
<1>3. Input_Head = Wrapped(Input_Tail + Input_Count)
  BY UartAssumption DEF UartInit, Wrapped
<1>4. QED
  BY <1>1, <1>2, <1>3 DEF UartInv, UartInit, InputIsFifo

\* What a drain takes from the host's queue it puts behind what the ring holds.
LEMMA DrainKeeps == UartInv /\ Drain => UartInv'
<1> SUFFICES ASSUME UartInv, Drain PROVE UartInv'
  OBVIOUS
<1> DEFINE d == Input_Buffer_Size
           n == IF Len(pty) < Room THEN Len(pty) ELSE Room
           taken == SubSeq(pty, 1, n)
           left == SubSeq(pty, n + 1, Len(pty))
<1> USE UartAssumption
<1>1. /\ d \in Nat \ {0} /\ Input_Tail \in 0 .. d - 1 /\ Input_Count \in 0 .. d
      /\ n \in 0 .. d - Input_Count /\ n <= Len(pty) /\ pty \in Seq(Chars)
      /\ Input_Buffer \in [0 .. d - 1 -> Chars \cup {0}]
  BY DEF UartInv, UartTypeOK, Slot, Room
<1>2. taken = [k \in 1 .. n |-> pty[k]] /\ \A k \in 1 .. n : pty[k] \in Chars
  <2>1. n \in 0 .. Len(pty) /\ pty \in Seq(Chars)
    BY <1>1
  <2> HIDE DEF n
  <2>2. taken \in [1 .. n -> Chars] /\ \A k \in 1 .. n : taken[k] = pty[k]
    BY <2>1, Cut
  <2>3. QED
    BY <2>2
<1> DEFINE count == Input_Count + n
           Bytes == Chars \cup {0}
<1>3. /\ count \in Input_Count .. d /\ count - Input_Count = n
      /\ Input_Buffer \in [0 .. d - 1 -> Bytes] /\ \A k \in 1 .. n : pty[k] \in Bytes
  BY <1>1, <1>2
<1>4. Input_Buffer' = RingWith(Input_Buffer, Input_Tail, Input_Count, pty, count, d)
  <2>1. Input_Buffer' = [i \in 0 .. d - 1 |->
           LET k == ((i - ((Input_Tail + Input_Count) % d)) % d) + 1
           IN IF k <= n THEN pty[k] ELSE Input_Buffer[i]]
    BY DEF UartInv, Drain, Wrapped, Slot
  <2> HIDE DEF n, count
  <2>2. QED
    BY <1>3, <2>1 DEF RingWith
<1>5. Input_Tail' = Input_Tail /\ Input_Count' = count
  BY DEF Drain
<1>6. InRing' = InRing \o taken
  <2> HIDE DEF n, count, taken
  <2>1. InRingOrder(Input_Buffer', Input_Tail, count, d)
          = RingBehind(Input_Buffer, Input_Tail, Input_Count, pty, count, d)
    BY <1>1, <1>3, <1>4, RingFill
  <2>2. RingBehind(Input_Buffer, Input_Tail, Input_Count, pty, count, d) = InRing \o taken
    BY <1>2, <1>3, InRingIs DEF RingBehind
  <2>3. InRing' = InRingOrder(Input_Buffer', Input_Tail', Input_Count', d)
    BY DEF InRing, InRingOrder, Wrapped
  <2>4. QED
    BY <1>5, <2>1, <2>2, <2>3
<1>7. /\ taken \in Seq(Chars) /\ left \in Seq(Chars) /\ taken \o left = pty
  <2> HIDE DEF n
  <2>1. QED
    BY <1>1
<1>8. UartTypeOK'
  <2>1. Input_Head' \in Slot /\ Input_Count' \in 0 .. d
    <3>1. Input_Head + n \in Int
      BY <1>1 DEF UartInv, UartTypeOK, Slot
    <3> HIDE DEF n
    <3>2. (Input_Head + n) % d \in 0 .. d - 1
      BY <1>1, <3>1, ModRange
    <3>3. Input_Head' = (Input_Head + n) % d
      BY DEF Drain, Wrapped, n
    <3>4. QED
      BY <1>1, <1>5, <3>2, <3>3 DEF Slot
  <2>2. pty' = left
    BY DEF Drain
  <2>3. Input_Buffer' \in [0 .. d - 1 -> Bytes]
    <3> HIDE DEF n, count, Bytes
    <3>1. QED
      BY <1>1, <1>3, <1>4, RingWithType
  <2> HIDE DEF n, left
  <2>4. QED
    BY <1>7, <2>1, <2>2, <2>3 DEF UartInv, UartTypeOK, Drain, Slot
<1>9. Input_Head' = Wrapped(Input_Tail + Input_Count)'
  <2>1. Input_Head' = (((Input_Tail + Input_Count) % d) + n) % d
    BY DEF UartInv, Drain, Wrapped
  <2>2. Input_Tail + Input_Count \in 0 .. 2 * d - 1 /\ n \in 0 .. d
    BY <1>1
  <2> HIDE DEF n
  <2>3. (((Input_Tail + Input_Count) % d) + n) % d = (Input_Tail + Input_Count + n) % d
    BY <1>1, <2>2, ModPlus
  <2>4. QED
    BY <1>1, <1>5, <2>1, <2>3 DEF Wrapped
<1>10. InputIsFifo'
  <2>1. got' = got /\ typed' = typed /\ pty' = left /\ IIR' = IIR /\ IER' = IER
    BY DEF Drain
  <2> HIDE DEF n, taken, left
  <2>2. got \in Seq(Chars) /\ InRing \in Seq(Chars)
    BY DEF UartInv, UartTypeOK
  <2>3. taken \in Seq(Chars) /\ left \in Seq(Chars)
    BY <1>7
  <2>4. got \o (InRing \o taken) \o left = got \o InRing \o (taken \o left)
    <3>1. got \o (InRing \o taken) = (got \o InRing) \o taken /\ got \o InRing \in Seq(Chars)
      BY <2>2, <2>3, ConcatenationAssociates, Concatenation, SMTT(30)
    <3>2. ((got \o InRing) \o taken) \o left = (got \o InRing) \o (taken \o left)
      BY <2>2, <2>3, <3>1, ConcatenationAssociates, SMTT(30)
    <3>3. QED
      BY <3>1, <3>2
  <2>5. Input_Count > 0 => Input_Count' > 0
    BY <1>1, <1>5
  <2>6. QED
    BY <1>6, <1>7, <2>1, <2>4, <2>5 DEF UartInv, InputIsFifo
<1>11. (InRing \in Seq(Chars))'
  <2> HIDE DEF n, taken
  <2>1. QED
    BY <1>6, <1>7 DEF UartInv
<1>12. QED
  BY <1>8, <1>9, <1>10, <1>11 DEF UartInv

\* What a load from RBR takes from the ring was first in it.
LEMMA ReadRBRKeeps == UartInv /\ ReadRBR => UartInv'
<1> SUFFICES ASSUME UartInv, ReadRBR PROVE UartInv'
  OBVIOUS
<1> DEFINE d == Input_Buffer_Size
<1> USE UartAssumption
<1>1. /\ d \in Nat \ {0} /\ Input_Tail \in 0 .. d - 1 /\ Input_Count \in 1 .. d
      /\ Input_Buffer \in [0 .. d - 1 -> Chars \cup {0}]
  BY DEF UartInv, UartTypeOK, Slot, ReadRBR
<1>2. /\ Input_Tail' = (Input_Tail + 1) % d /\ Input_Count' = Input_Count - 1
      /\ Input_Buffer' = Input_Buffer /\ got' = Append(got, Input_Buffer[Input_Tail])
  BY DEF ReadRBR, Wrapped
<1>3. InRing # <<>> /\ Head(InRing) = Input_Buffer[Input_Tail] /\ InRing' = Tail(InRing)
  <2> DEFINE old == InRingOrder(Input_Buffer, Input_Tail, Input_Count, d)
             S == Chars \cup {0}
  <2>1. /\ old # <<>> /\ Head(old) = Input_Buffer[Input_Tail]
        /\ Tail(old) = InRingOrder(Input_Buffer, (Input_Tail + 1) % d, Input_Count - 1, d)
    <3>1. /\ d \in Nat \ {0} /\ Input_Tail \in 0 .. d - 1 /\ Input_Count \in 1 .. d
          /\ Input_Buffer \in [0 .. d - 1 -> S]
      BY <1>1
    <3> HIDE DEF S, d, old
    <3>2. QED
      BY <3>1, RingTake, ZenonT(60) DEF old
  <2>2. InRing' = InRingOrder(Input_Buffer', Input_Tail', Input_Count', d)
    BY DEF InRing, InRingOrder, Wrapped
  <2>3. QED
    BY <1>2, <2>1, <2>2, InRingIs
<1>4. InRing \in Seq(Chars) /\ got \in Seq(Chars) /\ pty \in Seq(Chars)
  BY DEF UartInv, UartTypeOK
<1>5. Input_Tail' \in 0 .. d - 1
  BY <1>1, <1>2, ModRange
<1>6. Input_Buffer[Input_Tail] \in Chars /\ InRing' \in Seq(Chars)
  BY <1>3, <1>4
<1>7. UartTypeOK'
  <2>1. IIR' \in {"none", "RDA", "THR"}
    BY DEF ReadRBR, Identified
  <2>2. got' \in Seq(Chars)
    BY <1>2, <1>4, <1>6
  <2>3. QED
    BY <1>1, <1>2, <1>5, <2>1, <2>2, SMTT(30) DEF UartInv, UartTypeOK, ReadRBR, Slot
<1>8. Input_Head' = Wrapped(Input_Tail + Input_Count)'
  <2>1. Input_Head' = (Input_Tail + Input_Count) % d
    BY DEF UartInv, ReadRBR, Wrapped
  <2>2. (((Input_Tail + 1) % d) + (Input_Count - 1)) % d = (Input_Tail + Input_Count) % d
    BY <1>1
  <2>3. QED
    BY <1>2, <2>1, <2>2 DEF Wrapped
<1>9. InputIsFifo'
  <2>1. got' \o InRing' \o pty = got \o InRing \o pty
    BY <1>2, <1>3, <1>4, HeadMoves, SMTT(30)
  <2>2. pty' = pty /\ typed' = typed /\ IER' = IER /\ IIR' = Identified(IER, Input_Count')
    BY DEF ReadRBR
  <2>3. QED
    BY <2>1, <2>2 DEF UartInv, InputIsFifo, Identified
<1>10. QED
  BY <1>6, <1>7, <1>8, <1>9 DEF UartInv

LEMMA UartInvariant == UartSpec => []UartInv
<1>1. UartInv /\ [UartNext]_uartVars => UartInv'
  <2> SUFFICES ASSUME UartInv, [UartNext]_uartVars PROVE UartInv'
    OBVIOUS
  <2>1. ASSUME Type PROVE UartInv'
    <3>1. PICK c \in Chars : pty' = Append(pty, c) /\ typed' = Append(typed, c)
      BY <2>1 DEF Type
    <3>2. /\ UNCHANGED <<IER, IIR, got, Input_Buffer, Input_Head, Input_Tail, Input_Count>>
          /\ InRing' = InRing
      BY <2>1 DEF Type, ring, InRing, Wrapped
    <3>3. /\ got \in Seq(Chars) /\ InRing \in Seq(Chars) /\ pty \in Seq(Chars)
          /\ typed \in Seq(Chars)
      BY DEF UartInv, UartTypeOK
    <3>4. got \o InRing \o Append(pty, c) = Append(got \o InRing \o pty, c)
      BY <3>3
    <3>5. QED
      BY <3>1, <3>2, <3>3, <3>4, SMTT(30) DEF UartInv, UartTypeOK, InputIsFifo, Wrapped
  <2>2. ASSUME WriteIER \/ WriteTHR PROVE UartInv'
    <3>1. /\ UNCHANGED <<got, typed, pty, Input_Buffer, Input_Head, Input_Tail, Input_Count>>
          /\ InRing' = InRing /\ IER' \subseteq {"RDA", "THRE"}
          /\ IIR' = Identified(IER', Input_Count)
      BY <2>2 DEF WriteIER, WriteTHR, ring, InRing, Wrapped, UartInv, UartTypeOK
    <3>2. IIR' \in {"none", "RDA", "THR"} /\ (IIR' = "RDA" => "RDA" \in IER' /\ Input_Count > 0)
      BY <3>1 DEF Identified
    <3>3. QED
      BY <3>1, <3>2 DEF UartInv, UartTypeOK, InputIsFifo, Wrapped
  <2>3. ASSUME UNCHANGED uartVars PROVE UartInv'
    <3>1. InRing' = InRing
      BY <2>3 DEF uartVars, ring, InRing, Wrapped
    <3>2. QED
      BY <2>3, <3>1 DEF uartVars, ring, UartInv, UartTypeOK, InputIsFifo, Wrapped
  <2>4. QED
    BY <2>1, <2>2, <2>3, DrainKeeps, ReadRBRKeeps DEF UartNext
<1>2. QED
  BY <1>1, UartInitial, PTL DEF UartSpec

\* The ring, its indices and what it holds keep their types.
THEOREM UartTypeCorrect == UartSpec => []UartTypeOK
<1>1. UartInv => UartTypeOK
  BY DEF UartInv
<1>2. QED
  BY <1>1, UartInvariant, PTL

\* Every byte the terminal sent is read once and in its order, for a ring of any
\* size and any number of bytes: Poll_Input and the loads from LSR take no more
\* than fits, and IIR announces no byte that is not there.
THEOREM UartInputIsFifo == UartSpec => []InputIsFifo
<1>1. UartInv => InputIsFifo
  BY DEF UartInv
<1>2. QED
  BY <1>1, UartInvariant, PTL

----------------------------------------------------------------------------
(* The timer: a delay lasts.                                               *)

\* Why: the flag that timer_delay waits for says that the counter has reached
\* COMPARE, and that must mean that it has counted that far since timer_delay
\* cleared it.  So, as long as nothing spoiled the call, what the channel was
\* doing before cannot set the flag, the counter is never ahead of the counts
\* since it was cleared, and COMPARE is what was asked for.
TimerInv ==
    /\ TimerTypeOK /\ DelayLasts
    /\ doing \in {"counter", "compare", "control"} /\ ~spoiled =>
          ~Int_Status /\ ~(ctrl.enabled /\ ctrl.int)
    /\ doing \in {"compare", "control", "wait"} => Ch_Counter <= counted \/ counted = wanted
    /\ doing \in {"control", "wait"} => Ch_Compare = wanted
    /\ doing = "wait" /\ Int_Status => spoiled \/ counted = wanted

LEMMA TimerInitial == TimerInit => TimerInv
<1>1. 0 \in Value /\ Off \in Control
  BY TimerAssumption DEF Value, Control, Off
<1>2. TimerInit => TimerTypeOK
  <2> SUFFICES ASSUME TimerInit PROVE TimerTypeOK
    OBVIOUS
  <2>1. Int_Status \in BOOLEAN /\ spoiled \in BOOLEAN
    BY DEF TimerInit
  <2>2. /\ Prescale \in 1 .. 255 /\ Tick_Counter \in 0 .. 254 /\ counted \in 0 .. wanted
        /\ wanted \in Value /\ Ch_Counter \in Value /\ Ch_Compare \in Value
    BY <1>1 DEF TimerInit
  <2>3. QED
    BY <1>1, <2>1, <2>2 DEF TimerInit, TimerTypeOK
<1>3. QED
  BY <1>2 DEF TimerInit, TimerInv, DelayLasts

\* What a count leaves of the channel, in numbers.
LEMMA CountKeeps ==
    ASSUME TimerTypeOK, Count, counted' = Rises(counted),
           UNCHANGED <<Ch_Compare, wanted>>
    PROVE  /\ Ch_Counter' \in Value /\ ctrl' \in Control /\ Int_Status' \in BOOLEAN
           /\ counted' \in 0 .. wanted /\ (counted = wanted => counted' = wanted)
           /\ Ch_Counter <= counted => Ch_Counter' <= counted' \/ counted' = wanted
           /\ ctrl'.enabled => ctrl.enabled
           /\ ctrl'.int = ctrl.int
           /\ ~(ctrl.enabled /\ ctrl.int) => Int_Status' = Int_Status
           /\ Int_Status' /\ Ch_Compare = wanted /\ (Ch_Counter <= counted \/ counted = wanted)
                => Int_Status \/ counted' = wanted
<1> DEFINE counter == (Ch_Counter + 1) % TimerRadix
<1>1. /\ Ch_Counter \in 0 .. TimerRadix - 1 /\ TimerRadix \in Nat \ {0, 1}
      /\ counted \in 0 .. wanted /\ wanted \in Nat /\ Ch_Compare \in Nat
      /\ ctrl \in Control /\ Int_Status \in BOOLEAN
  BY TimerAssumption DEF TimerTypeOK, Value
<1>2. counter \in 0 .. TimerRadix - 1 /\ counter <= Ch_Counter + 1
  <2> DEFINE n == Ch_Counter + 1
  <2>1. n \in 0 .. 2 * TimerRadix - 1 /\ TimerRadix \in Nat \ {0}
    BY <1>1
  <2> HIDE DEF n
  <2>2. n % TimerRadix = IF n < TimerRadix THEN n ELSE n - TimerRadix
    BY <2>1, ModWrap
  <2>3. n % TimerRadix \in 0 .. TimerRadix - 1 /\ n % TimerRadix <= n
    BY <2>1, <2>2
  <2>4. QED
    BY <2>3 DEF n
<1>3. /\ counted' = IF counted < wanted THEN counted + 1 ELSE counted
      /\ counted' \in 0 .. wanted /\ (counted = wanted => counted' = wanted)
  BY <1>1 DEF Rises
<1>4. CASE ctrl.enabled
  <2>1. /\ Ch_Counter' = IF Match(counter) /\ ctrl.reload THEN 0 ELSE counter
        /\ ctrl' = [ctrl EXCEPT !.enabled = ~Match(counter) \/ ctrl.reload]
        /\ Int_Status' = (Int_Status \/ (Match(counter) /\ ctrl.int))
    BY <1>4 DEF Count
  <2>2. ctrl' \in Control /\ ctrl'.int = ctrl.int
    BY <1>1, <2>1 DEF Control, Match
  <2> HIDE DEF counter
  <2>3. Ch_Counter' \in 0 .. TimerRadix - 1 /\ Ch_Counter' <= Ch_Counter + 1
    BY <1>1, <1>2, <2>1
  <2>4. Match(counter) => counter >= Ch_Compare
    BY DEF Match
  <2>5. /\ Int_Status' \in BOOLEAN
        /\ ~ctrl.int => Int_Status' = Int_Status
        /\ Int_Status' => Int_Status \/ Match(counter)
    BY <1>1, <2>1 DEF Control, Match
  <2>6. Ch_Counter <= counted => Ch_Counter' <= counted' \/ counted' = wanted
    BY <1>1, <1>3, <2>3
  <2>7. ASSUME Match(counter), Ch_Compare = wanted, Ch_Counter <= counted \/ counted = wanted
        PROVE  counted' = wanted
    BY <1>1, <1>2, <1>3, <2>4, <2>7
  <2>8. QED
    BY <1>3, <1>4, <2>2, <2>3, <2>5, <2>6, <2>7 DEF Value
<1>5. CASE ~ctrl.enabled
  <2>1. Ch_Counter' = Ch_Counter /\ ctrl' = ctrl /\ Int_Status' = Int_Status
    BY <1>5 DEF Count
  <2>2. QED
    BY <1>1, <1>3, <1>5, <2>1 DEF Value
<1>6. QED
  BY <1>4, <1>5

LEMMA TimerTickKeeps == TimerInv /\ TimerTick => TimerInv'
<1> SUFFICES ASSUME TimerInv, TimerTick PROVE TimerInv'
  OBVIOUS
<1>1. UNCHANGED <<Prescale, Ch_Compare, doing, loaded_ctrl, wanted, spoiled>> /\ TimerTypeOK
  BY DEF TimerTick, TimerInv
<1>2. CASE Tick_Counter + 1 >= Prescale
  <2>1. Tick_Counter' = 0 /\ Count /\ counted' = Rises(counted)
    BY <1>2 DEF TimerTick
  <2>2. /\ Ch_Counter' \in Value /\ ctrl' \in Control /\ Int_Status' \in BOOLEAN
        /\ counted' \in 0 .. wanted /\ (counted = wanted => counted' = wanted)
        /\ Ch_Counter <= counted => Ch_Counter' <= counted' \/ counted' = wanted
        /\ ctrl'.enabled => ctrl.enabled
        /\ ctrl'.int = ctrl.int
        /\ ~(ctrl.enabled /\ ctrl.int) => Int_Status' = Int_Status
        /\ Int_Status' /\ Ch_Compare = wanted /\ (Ch_Counter <= counted \/ counted = wanted)
             => Int_Status \/ counted' = wanted
    BY <1>1, <2>1, CountKeeps
  <2>3. TimerTypeOK'
    BY <1>1, <2>1, <2>2 DEF TimerTypeOK
  <2>4. QED
    BY <1>1, <2>2, <2>3 DEF TimerInv, DelayLasts
<1>3. CASE ~(Tick_Counter + 1 >= Prescale)
  <2>1. Tick_Counter' = Tick_Counter + 1 /\ UNCHANGED <<Ch_Counter, ctrl, Int_Status, counted>>
    BY <1>3 DEF TimerTick
  <2>2. TimerTypeOK'
    BY <1>1, <1>3, <2>1 DEF TimerTypeOK
  <2>3. QED
    BY <1>1, <2>1, <2>2 DEF TimerInv, DelayLasts
<1>4. QED
  BY <1>2, <1>3

\* The accesses of timer_delay.
LEMMA DelayKeeps == TimerInv /\ Delay => TimerInv'
<1> SUFFICES ASSUME TimerInv, Delay PROVE TimerInv'
  OBVIOUS
<1>1. UNCHANGED <<Prescale, Tick_Counter, loaded_ctrl, wanted, spoiled>> /\ DelayAccess
  BY DEF Delay
<1>2. 0 \in Value /\ OneShot \in Control /\ wanted \in Nat
  BY TimerAssumption DEF Value, OneShot, Control, TimerInv, TimerTypeOK
<1>3. TimerTypeOK'
  <2>1. TimerTypeOK /\ doing' \in DelayAccesses \cup {"idle"}
    BY <1>1 DEF TimerInv, DelayAccess, DelayAccesses
  <2>2. Ch_Counter' \in {Ch_Counter, 0} /\ Ch_Compare' \in {Ch_Compare, wanted}
    BY <1>1 DEF DelayAccess
  <2>3. ctrl' = ctrl \/ ctrl' = OneShot \/ ctrl' = loaded_ctrl
    BY <1>1 DEF DelayAccess, Armed
  <2>4. Int_Status' = Int_Status \/ Int_Status' = FALSE
    BY <1>1 DEF DelayAccess
  <2>5. counted' \in {counted, 0}
    BY <1>1 DEF DelayAccess
  <2>6. Int_Status' \in BOOLEAN /\ ctrl' \in Control
    BY <1>2, <2>1, <2>3, <2>4 DEF TimerTypeOK
  <2>7. QED
    BY <1>1, <1>2, <2>1, <2>2, <2>5, <2>6 DEF TimerTypeOK
<1>4. ASSUME doing = "counter", doing' = "compare", Ch_Counter' = 0, counted' = 0,
             UNCHANGED <<Ch_Compare, ctrl, Int_Status>>
      PROVE  TimerInv'
  BY <1>1, <1>3, <1>4 DEF TimerInv, DelayLasts
<1>5. ASSUME doing = "compare", doing' = "control", Ch_Compare' = wanted,
             UNCHANGED <<Ch_Counter, ctrl, Int_Status, counted>>
      PROVE  TimerInv'
  BY <1>1, <1>3, <1>5 DEF TimerInv, DelayLasts
<1>6. ASSUME doing = "control", doing' = "wait", ctrl' = Armed,
             UNCHANGED <<Ch_Counter, Ch_Compare, Int_Status, counted>>
      PROVE  TimerInv'
  BY <1>1, <1>3, <1>6 DEF TimerInv, DelayLasts
<1>7. ASSUME doing = "wait", Int_Status, doing' = "clear",
             UNCHANGED <<Ch_Counter, Ch_Compare, ctrl, Int_Status, counted>>
      PROVE  TimerInv'
  BY <1>1, <1>3, <1>7 DEF TimerInv, DelayLasts
<1>8. ASSUME doing' \in {"restore", "idle"}
      PROVE  TimerInv'
  BY <1>3, <1>8 DEF TimerInv, DelayLasts
<1>9. QED
  BY <1>1, <1>4, <1>5, <1>6, <1>7, <1>8 DEF DelayAccess

LEMMA TimerInvariant == TimerSpec => []TimerInv
<1>1. TimerInv /\ [TimerNext]_timerVars => TimerInv'
  <2> SUFFICES ASSUME TimerInv, [TimerNext]_timerVars PROVE TimerInv'
    OBVIOUS
  <2>1. ASSUME SetRegister \/ LoadControl \/ StoreControl PROVE TimerInv'
    <3>1. doing' \in {"idle", "modify"}
      BY <2>1 DEF SetRegister, LoadControl, StoreControl, call
    <3>2. TimerTypeOK /\ Tick_Counter' = Tick_Counter
          /\ UNCHANGED <<wanted, spoiled, counted>>
      BY <2>1 DEF TimerInv, SetRegister, LoadControl, StoreControl, call, channel
    <3>3. /\ Prescale' = Prescale \/ Prescale' \in Prescalers
          /\ Ch_Counter' = Ch_Counter \/ Ch_Counter' \in Value
          /\ Ch_Compare' = Ch_Compare \/ Ch_Compare' \in Value
      BY <2>1 DEF SetRegister, LoadControl, StoreControl, channel
    <3>4. Int_Status' = Int_Status \/ Int_Status' = FALSE
      BY <2>1 DEF SetRegister, LoadControl, StoreControl, channel
    <3>5. ctrl' \in Control /\ loaded_ctrl' \in Control
      BY <2>1, <3>2
      DEF TimerTypeOK, Control, SetRegister, LoadControl, StoreControl, call, channel
    <3>6. Int_Status' \in BOOLEAN
      BY <3>2, <3>4 DEF TimerTypeOK
    <3>7. TimerTypeOK'
      <4>1. Prescale' \in 1 .. 255 /\ Ch_Counter' \in Value /\ Ch_Compare' \in Value
        <5>1. Prescale \in 1 .. 255 /\ Ch_Counter \in Value /\ Ch_Compare \in Value
          BY <3>2 DEF TimerTypeOK
        <5>2. Prescale' \in 1 .. 255
          BY <5>1, <3>3, TimerAssumption
        <5>3. Ch_Counter' \in Value
          BY <5>1, <3>3
        <5>4. Ch_Compare' \in Value
          BY <5>1, <3>3
        <5>5. QED
          BY <5>2, <5>3, <5>4
      <4>2. /\ Tick_Counter' \in 0 .. 254 /\ spoiled' \in BOOLEAN
            /\ wanted' \in Value /\ counted' \in 0 .. wanted'
        BY <3>2 DEF TimerTypeOK
      <4>3. doing' \in DelayAccesses \cup {"idle", "modify"}
        BY <3>1
      <4>4. QED
        BY <3>5, <3>6, <4>1, <4>2, <4>3 DEF TimerTypeOK
    <3>8. QED
      BY <3>1, <3>7 DEF TimerInv, DelayLasts
  <2>2. ASSUME CallDelay PROVE TimerInv'
    <3>1. TimerTypeOK'
      BY <2>2, TimerAssumption
      DEF TimerInv, TimerTypeOK, CallDelay, channel, Value, DelayAccesses, Control
    <3>2. QED
      BY <2>2, <3>1 DEF TimerInv, DelayLasts, CallDelay, channel
  <2>3. ASSUME UNCHANGED timerVars PROVE TimerInv'
    BY <2>3 DEF TimerInv, TimerTypeOK, DelayLasts, timerVars, channel, call
  <2>4. QED
    BY <2>1, <2>2, <2>3, TimerTickKeeps, DelayKeeps DEF TimerNext
<1>2. QED
  BY <1>1, TimerInitial, PTL DEF TimerSpec

\* The timer's registers, its prescaler and timer_delay's variables keep their
\* types, whatever the order of the guest's accesses and the ticks.
THEOREM TimerTypeCorrect == TimerSpec => []TimerTypeOK
<1>1. TimerInv => TimerTypeOK
  BY DEF TimerInv
<1>2. QED
  BY <1>1, TimerInvariant, PTL

\* timer_delay never returns early, for every width of COUNTER, every prescaler
\* and every delay, and whatever the channel was doing, unless its flag was set or
\* it ran with its interrupt enabled when timer_delay was called.
THEOREM TimerDelayLasts == TimerSpec => []DelayLasts
<1>1. TimerInv => DelayLasts
  BY DEF TimerInv
<1>2. QED
  BY <1>1, TimerInvariant, PTL
=============================================================================
