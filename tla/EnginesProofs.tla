---------------------------- MODULE EnginesProofs ----------------------------
(***************************************************************************)
(* What holds of the two engines that move data on their own: the DMA      *)
(* controller and the VirtIO block device.                                 *)
(***************************************************************************)
EXTENDS Dma, VirtioBlk, Facts

----------------------------------------------------------------------------
(* DMA: a channel by itself.  What the properties say of a channel is kept *)
(* by each thing that can happen to it: a write to one of its registers, a *)
(* byte moved, a failure.                                                  *)

History == [moved : DmaWord, clean : BOOLEAN, alone : BOOLEAN]

Accounted(ch, h) ==
    /\ ~(ch.busy /\ ch.done)
    /\ h.clean =>
         /\ ch.count + h.moved = ch.initial
         /\ SRC_INC(ch.ctrl) => ch.curSrc = (ch.src + h.moved) % DmaWordSize
         /\ DST_INC(ch.ctrl) => ch.curDst = (ch.dst + h.moved) % DmaWordSize
         /\ ch.done => h.moved = ch.initial

LEMMA ControlBits ==
    ASSUME NEW x \in 0 .. 31
    PROVE  /\ ClearStart(x) \in 0 .. 31
           /\ SRC_INC(ClearStart(x)) <=> SRC_INC(x)
           /\ DST_INC(ClearStart(x)) <=> DST_INC(x)
<1>1. CASE START(x)
  <2>1. x \in 2 .. 31
    BY <1>1 DEF START
  <2>2. /\ ((x - 2) \div 8) % 2 = (x \div 8) % 2
        /\ ((x - 2) \div 16) % 2 = (x \div 16) % 2
    BY <1>1 DEF START
  <2>3. ClearStart(x) = x - 2
    BY <1>1 DEF ClearStart
  <2>4. QED
    BY <2>1, <2>2, <2>3 DEF SRC_INC, DST_INC
<1>2. CASE ~START(x)
  BY <1>2 DEF ClearStart
<1>3. QED
  BY <1>1, <1>2

\* A write to a register keeps the channel's types and its account, BUSY too,
\* and what it leaves unaccounted for is not clean.
LEMMA WriteRegisterKeeps ==
    ASSUME NEW ch \in Channel, NEW h \in History, NEW r \in RegisterNames, NEW v \in DmaWord,
           Accounted(ch, h)
    PROVE  /\ WriteRegister(ch, r, v) \in Channel
           /\ Touched(h, ch, r, v) \in History
           /\ Accounted(WriteRegister(ch, r, v), Touched(h, ch, r, v))
           /\ ch.busy => WriteRegister(ch, r, v).busy
           /\ Touched(h, ch, r, v).clean => WriteRegister(ch, r, v).count = ch.count
<1>1. NoTransfer \in History /\ [moved |-> 0, clean |-> TRUE, alone |-> TRUE] \in History
  BY DmaAssumption DEF NoTransfer, History, DmaWord
<1>2. CASE r = "src"
  BY <1>1, <1>2 DEF WriteRegister, Touched, Channel, Accounted, NoTransfer
<1>3. CASE r = "dst"
  BY <1>1, <1>3 DEF WriteRegister, Touched, Channel, Accounted, NoTransfer
<1>4. CASE r = "count"
  BY <1>1, <1>4 DEF WriteRegister, Touched, Channel, Accounted, NoTransfer
<1>5. v % 32 \in 0 .. 31
  BY DmaAssumption DEF DmaWord
<1>6. CASE r = "ctrl" /\ Starts(ch, v)
  <2> DEFINE new == WriteRegister(ch, r, v)
             start == Touched(h, ch, r, v)
  <2>1. new = [Begun(ch) EXCEPT !.ctrl = v % 32]
    BY <1>6 DEF WriteRegister
  <2>2. start = [moved |-> 0, clean |-> TRUE, alone |-> TRUE]
    BY <1>6 DEF Touched
  <2>3. new \in Channel
    BY <1>5, <2>1 DEF Channel, Begun
  <2>4. /\ new.src = ch.src /\ new.dst = ch.dst /\ new.count = ch.count
        /\ new.initial = ch.count /\ new.curSrc = ch.src /\ new.curDst = ch.dst
        /\ new.busy = TRUE /\ new.done = FALSE
    BY <2>1 DEF Channel, Begun
  <2>5. /\ (ch.src + 0) % DmaWordSize = ch.src /\ (ch.dst + 0) % DmaWordSize = ch.dst
        /\ ch.count + 0 = ch.count
    <3>1. ch.src \in DmaWord /\ ch.dst \in DmaWord /\ ch.count \in DmaWord
      BY DEF Channel
    <3>2. QED
      BY <3>1, DmaAssumption DEF DmaWord
  <2> HIDE DEF new, start
  <2>6. Accounted(new, start)
    BY <2>2, <2>4, <2>5 DEF Accounted
  <2>7. QED
    BY <1>1, <2>2, <2>3, <2>4, <2>6 DEF new, start
<1>7. CASE r = "ctrl" /\ ~Starts(ch, v)
  <2> DEFINE new == WriteRegister(ch, r, v)
  <2>1. new = [ch EXCEPT !.ctrl = v % 32] /\ Touched(h, ch, r, v) = NoTransfer
    BY <1>7 DEF WriteRegister, Touched
  <2>2. new \in Channel
    BY <1>5, <2>1 DEF Channel
  <2>3. new.busy = ch.busy /\ new.done = ch.done
    BY <2>1 DEF Channel
  <2> HIDE DEF new
  <2>4. QED
    BY <1>1, <2>1, <2>2, <2>3 DEF new, Accounted, NoTransfer
<1>8. CASE r = "status"
  BY <1>1, <1>8 DEF WriteRegister, Touched, Channel, Accounted
<1>9. QED
  BY <1>2, <1>3, <1>4, <1>6, <1>7, <1>8 DEF RegisterNames

\* A byte moved: the count it loses is what the history gains, and DONE comes
\* with the last.
LEMMA AdvancedKeeps ==
    ASSUME NEW ch \in Channel, NEW h \in History, NEW g \in History,
           Accounted(ch, h), ch.busy, h.clean => ch.count > 0, g.clean = h.clean,
           g.moved = IF h.clean THEN (h.moved + 1) % DmaWordSize ELSE 0
    PROVE  /\ Advanced(ch) \in Channel /\ Accounted(Advanced(ch), g)
           /\ Advanced(ch).src = ch.src /\ Advanced(ch).dst = ch.dst
           /\ SRC_INC(Advanced(ch).ctrl) <=> SRC_INC(ch.ctrl)
           /\ DST_INC(Advanced(ch).ctrl) <=> DST_INC(ch.ctrl)
<1> DEFINE nc == (ch.count - 1) % DmaWordSize
           ns == IF SRC_INC(ch.ctrl) THEN (ch.curSrc + 1) % DmaWordSize ELSE ch.curSrc
           nd == IF DST_INC(ch.ctrl) THEN (ch.curDst + 1) % DmaWordSize ELSE ch.curDst
           next == [Stepped(ch) EXCEPT !.count = nc]
           new == Advanced(ch)
<1>1. /\ ch.src \in DmaWord /\ ch.dst \in DmaWord /\ ch.count \in DmaWord /\ ch.initial \in DmaWord
      /\ ch.curSrc \in DmaWord /\ ch.curDst \in DmaWord /\ ch.ctrl \in 0 .. 31
      /\ ch.busy \in BOOLEAN /\ ch.done \in BOOLEAN /\ ch.error \in BOOLEAN
  BY DEF Channel
<1>2. DmaWordSize \in Nat \ {0} /\ DmaWord = 0 .. DmaWordSize - 1
  BY DmaAssumption DEF DmaWord
<1>3. nc \in DmaWord /\ ns \in DmaWord /\ nd \in DmaWord
  <2>1. \A x \in Int : x % DmaWordSize \in DmaWord
    BY <1>2, ModRange
  <2>2. ch.count - 1 \in Int /\ ch.curSrc + 1 \in Int /\ ch.curDst + 1 \in Int
    BY <1>1, <1>2
  <2>3. QED
    BY <1>1, <2>1, <2>2
<1>4. next = [ch EXCEPT !.curSrc = ns, !.curDst = nd, !.count = nc]
  BY DEF Stepped, Channel
<1> HIDE DEF nc, ns, nd
<1>5. /\ next \in Channel /\ next.src = ch.src /\ next.dst = ch.dst /\ next.count = nc
      /\ next.initial = ch.initial /\ next.curSrc = ns /\ next.curDst = nd
      /\ next.ctrl = ch.ctrl /\ next.busy = ch.busy /\ next.done = ch.done
  BY <1>3, <1>4 DEF Channel
<1>6. new = IF next.count = 0 THEN [Stopped(next) EXCEPT !.done = TRUE] ELSE next
  <2>1. Stepped(ch).count = ch.count
    BY DEF Stepped, Channel
  <2>2. [Stepped(ch) EXCEPT !.count = (@ - 1) % DmaWordSize] = next
    BY <2>1 DEF nc
  <2>3. QED
    BY <2>2 DEF Advanced
<1> HIDE DEF next, new
<1>7. /\ new \in Channel /\ new.src = ch.src /\ new.dst = ch.dst /\ new.count = nc
      /\ new.initial = ch.initial /\ new.curSrc = ns /\ new.curDst = nd
      /\ SRC_INC(new.ctrl) <=> SRC_INC(ch.ctrl)
      /\ DST_INC(new.ctrl) <=> DST_INC(ch.ctrl)
      /\ nc = 0 => new.done = TRUE /\ new.busy = FALSE
      /\ nc # 0 => new.done = ch.done /\ new.busy = ch.busy
  <2>1. CASE nc = 0
    <3>1. new = [[next EXCEPT !.busy = FALSE, !.ctrl = ClearStart(@)] EXCEPT !.done = TRUE]
      BY <1>5, <1>6, <2>1 DEF Stopped
    <3>2. ClearStart(ch.ctrl) \in 0 .. 31
      BY <1>1, ControlBits
    <3>3. new = [next EXCEPT !.busy = FALSE, !.ctrl = ClearStart(ch.ctrl), !.done = TRUE]
      BY <1>5, <3>1
    <3>4. new \in Channel /\ new.ctrl = ClearStart(ch.ctrl)
      BY <1>5, <3>2, <3>3 DEF Channel
    <3>5. /\ new.src = next.src /\ new.dst = next.dst /\ new.count = next.count
          /\ new.initial = next.initial /\ new.curSrc = next.curSrc /\ new.curDst = next.curDst
          /\ new.done = TRUE /\ new.busy = FALSE
      BY <1>5, <3>3 DEF Channel
    <3>6. QED
      BY <1>1, <1>5, <2>1, <3>4, <3>5, ControlBits
  <2>2. CASE nc # 0
    BY <1>5, <1>6, <2>2
  <2>3. QED
    BY <2>1, <2>2
<1>8. ~(new.busy /\ new.done)
  BY <1>7 DEF Accounted
<1>9. ASSUME h.clean
      PROVE  /\ nc + g.moved = ch.initial
             /\ SRC_INC(ch.ctrl) => ns = (ch.src + g.moved) % DmaWordSize
             /\ DST_INC(ch.ctrl) => nd = (ch.dst + g.moved) % DmaWordSize
             /\ nc = 0 => g.moved = ch.initial
             /\ ~ch.done
  <2>1. /\ ch.count + h.moved = ch.initial /\ ch.count > 0 /\ h.moved \in DmaWord
        /\ SRC_INC(ch.ctrl) => ch.curSrc = (ch.src + h.moved) % DmaWordSize
        /\ DST_INC(ch.ctrl) => ch.curDst = (ch.dst + h.moved) % DmaWordSize
    BY <1>9 DEF Accounted, History
  <2> DEFINE left == ch.count
             moved == h.moved
  <2>0. left - 1 \in 0 .. DmaWordSize - 1 /\ moved + 1 \in 0 .. DmaWordSize - 1
    <3>1. left + moved = ch.initial /\ left > 0 /\ left \in DmaWord /\ moved \in DmaWord
      BY <1>1, <2>1
    <3>2. left \in Nat /\ moved \in Nat /\ left + moved \in 0 .. DmaWordSize - 1
      BY <1>1, <1>2, <3>1
    <3> HIDE DEF left, moved
    <3>3. QED
      BY <1>2, <3>1, <3>2, OneMoved
  <2>2. nc = ch.count - 1
    <3> DEFINE x == left - 1
    <3>1. x \in 0 .. DmaWordSize - 1
      BY <2>0
    <3> HIDE DEF x
    <3>2. x % DmaWordSize = x
      BY <1>2, <3>1
    <3>3. QED
      BY <3>2 DEF nc, x
  <2>3. g.moved = h.moved + 1
    BY <1>2, <1>9, <2>0
  <2>4. ASSUME NEW a \in DmaWord
        PROVE  (((a + h.moved) % DmaWordSize) + 1) % DmaWordSize = (a + (h.moved + 1)) % DmaWordSize
    <3> DEFINE x == a + h.moved
    <3>1. x \in 0 .. 2 * DmaWordSize - 1 /\ 1 \in 0 .. DmaWordSize
      BY <1>2, <2>1
    <3>2. a + (h.moved + 1) = x + 1
      BY <1>2, <2>1
    <3> HIDE DEF x
    <3>3. ((x % DmaWordSize) + 1) % DmaWordSize = (x + 1) % DmaWordSize
      BY <1>2, <3>1, ModPlus
    <3>4. QED
      BY <3>2, <3>3 DEF x
  <2>5. SRC_INC(ch.ctrl) => ns = (ch.src + g.moved) % DmaWordSize
    BY <1>1, <2>1, <2>3, <2>4 DEF ns
  <2>6. DST_INC(ch.ctrl) => nd = (ch.dst + g.moved) % DmaWordSize
    BY <1>1, <2>1, <2>3, <2>4 DEF nd
  <2>7. ~ch.done
    BY DEF Accounted
  <2>8. nc + g.moved = ch.initial /\ (nc = 0 => g.moved = ch.initial)
    <3>1. ch.count \in Int /\ h.moved \in Int /\ ch.initial \in Int
      BY <1>1, <1>2, <2>1
    <3>2. QED
      BY <2>1, <2>2, <2>3, <3>1
  <2>9. QED
    BY <2>5, <2>6, <2>7, <2>8
<1>10. QED
  BY <1>7, <1>8, <1>9 DEF Accounted, new

\* A failure stops a channel and leaves its account as it was.
LEMMA FailedKeeps ==
    ASSUME NEW ch \in Channel, NEW h \in History, Accounted(ch, h),
           NEW new, new = [Stopped(ch) EXCEPT !.error = TRUE]
    PROVE  /\ new \in Channel /\ Accounted(new, h)
           /\ new.src = ch.src /\ new.dst = ch.dst
           /\ SRC_INC(new.ctrl) <=> SRC_INC(ch.ctrl)
           /\ DST_INC(new.ctrl) <=> DST_INC(ch.ctrl)
<1>1. ch.ctrl \in 0 .. 31 /\ ClearStart(ch.ctrl) \in 0 .. 31
  BY ControlBits DEF Channel
<1>2. new = [ch EXCEPT !.busy = FALSE, !.ctrl = ClearStart(ch.ctrl), !.error = TRUE]
  BY DEF Stopped, Channel
<1>3. new \in Channel
  BY <1>1, <1>2 DEF Channel
<1>4. /\ new.src = ch.src /\ new.dst = ch.dst /\ new.count = ch.count
      /\ new.initial = ch.initial /\ new.curSrc = ch.curSrc /\ new.curDst = ch.curDst
      /\ new.busy = FALSE /\ new.done = ch.done /\ new.ctrl = ClearStart(ch.ctrl)
  BY <1>2 DEF Channel
<1>5. /\ SRC_INC(new.ctrl) <=> SRC_INC(ch.ctrl)
      /\ DST_INC(new.ctrl) <=> DST_INC(ch.ctrl)
  BY <1>1, <1>4, ControlBits
<1>6. Accounted(new, h)
  BY <1>4, <1>5 DEF Accounted
<1>7. QED
  BY <1>3, <1>4, <1>5, <1>6

----------------------------------------------------------------------------
(* DMA: what a transfer has copied.                                        *)

Copied(ch, h, m) ==
    LET n == h.moved
    IN  h.clean /\ h.alone /\ SRC_INC(ch.ctrl) /\ DST_INC(ch.ctrl)
        /\ ~(\E i, j \in 0 .. n - 1 : Further(ch.src, i) = Further(ch.dst, j))
        => \A i \in 0 .. n - 1 :
              {Further(ch.src, i), Further(ch.dst, i)} \subseteq Ram \cup Rom
              => m[Further(ch.dst, i)] = m[Further(ch.src, i)]

\* It is about where a channel copies from and to, not about the rest of it.
LEMMA CopiedSame ==
    ASSUME NEW ch, NEW h, NEW m, Copied(ch, h, m),
           NEW new, new.src = ch.src, new.dst = ch.dst,
           SRC_INC(new.ctrl) <=> SRC_INC(ch.ctrl), DST_INC(new.ctrl) <=> DST_INC(ch.ctrl)
    PROVE  Copied(new, h, m)
  BY DEF Copied

\* A write to a register leaves the transfer as it was, or starts one, or the
\* history no longer speaks for it.
LEMMA WriteRegisterCopied ==
    ASSUME NEW ch \in Channel, NEW h \in History, NEW r \in RegisterNames, NEW v \in DmaWord,
           NEW m, Copied(ch, h, m)
    PROVE  Copied(WriteRegister(ch, r, v), Touched(h, ch, r, v), m)
<1> DEFINE new == WriteRegister(ch, r, v)
           g == Touched(h, ch, r, v)
<1>1. CASE r = "status"
  <2>1. new.src = ch.src /\ new.dst = ch.dst /\ new.ctrl = ch.ctrl /\ g = h
    BY <1>1 DEF WriteRegister, Touched, Channel
  <2> HIDE DEF new, g
  <2>2. Copied(new, h, m)
    BY <2>1, CopiedSame
  <2>3. QED
    BY <2>1, <2>2 DEF new, g
<1>2. CASE r = "ctrl" /\ Starts(ch, v)
  <2>1. g.moved = 0
    BY <1>2 DEF Touched
  <2> HIDE DEF new, g
  <2>2. Copied(new, g, m)
    BY <2>1 DEF Copied
  <2>3. QED
    BY <2>2 DEF new, g
<1>3. CASE r # "status" /\ ~(r = "ctrl" /\ Starts(ch, v))
  BY <1>3 DEF Touched, NoTransfer, Copied
<1>4. QED
  BY <1>1, <1>2, <1>3

\* Where one more byte goes, and where it comes from, none of the earlier ones
\* went, nor came from if what is read and what is written are kept apart.
LEMMA FurtherApart ==
    ASSUME NEW a \in DmaWord, NEW n \in DmaWord, NEW i \in 0 .. n - 1
    PROVE  Further(a, i) # Further(a, n)
<1>1. DmaWordSize \in Nat \ {0} /\ DmaWord = 0 .. DmaWordSize - 1
  BY DmaAssumption DEF DmaWord
<1> DEFINE x == a + i
           y == a + n
<1>2. x \in 0 .. 2 * DmaWordSize - 1 /\ y \in 0 .. 2 * DmaWordSize - 1
      /\ x < y /\ y - x < DmaWordSize
  BY <1>1
<1> HIDE DEF x, y
<1>3. /\ x % DmaWordSize = IF x < DmaWordSize THEN x ELSE x - DmaWordSize
      /\ y % DmaWordSize = IF y < DmaWordSize THEN y ELSE y - DmaWordSize
  BY <1>1, <1>2, ModWrap
<1>4. x % DmaWordSize # y % DmaWordSize
  BY <1>1, <1>2, <1>3
<1>5. QED
  BY <1>4 DEF x, y, Further

\* A transfer copies the byte at its positions, in memory m, and has copied one
\* byte more.
LEMMA OneMoreCopied ==
    ASSUME NEW ch \in Channel, NEW h \in History, NEW m, Accounted(ch, h), Copied(ch, h, m),
           NEW w, NEW g, NEW new,
           h.moved + 1 \in DmaWord, g.moved = h.moved + 1,
           g.clean => h.clean, g.alone => h.alone,
           new.src = ch.src, new.dst = ch.dst,
           SRC_INC(new.ctrl) <=> SRC_INC(ch.ctrl), DST_INC(new.ctrl) <=> DST_INC(ch.ctrl),
           \A a \in Ram \cup Rom : a # ch.curDst => w[a] = m[a],
           ch.curSrc \in Ram \cup Rom /\ ch.curDst \in Ram \cup Rom
              => w[ch.curDst] = m[ch.curSrc]
    PROVE  Copied(new, g, w)
<1> DEFINE n == h.moved
           S(i) == Further(ch.src, i)
           D(i) == Further(ch.dst, i)
<1> SUFFICES ASSUME g.clean, g.alone, SRC_INC(ch.ctrl), DST_INC(ch.ctrl),
                    ~(\E i, j \in 0 .. n : S(i) = D(j)),
                    NEW k \in 0 .. n, S(k) \in Ram \cup Rom, D(k) \in Ram \cup Rom
             PROVE  w[D(k)] = w[S(k)]
  <2>1. h.moved \in Int
    BY DmaAssumption DEF History, DmaWord
  <2>2. g.moved - 1 = n
    BY <2>1
  <2>3. QED
    BY <2>2 DEF Copied
<1>1. n \in DmaWord /\ n \in Nat /\ ch.src \in DmaWord /\ ch.dst \in DmaWord
  BY DmaAssumption DEF History, DmaWord, Channel
<1>2. ch.curSrc = S(n) /\ ch.curDst = D(n)
  BY DEF Accounted, Further
<1>3. S(k) # D(n)
  BY <1>1
<1>4. w[S(k)] = m[S(k)]
  BY <1>2, <1>3
<1>5. CASE k = n
  BY <1>2, <1>4, <1>5
<1>6. CASE k # n
  <2>1. k \in 0 .. n - 1
    BY <1>1, <1>6
  <2>2. D(k) # D(n)
    BY <1>1, <2>1, FurtherApart
  <2>3. w[D(k)] = m[D(k)]
    BY <1>2, <2>2
  <2>4. ~(\E i, j \in 0 .. n - 1 : S(i) = D(j))
    BY <1>1
  <2>5. m[D(k)] = m[S(k)]
    BY <2>1, <2>4 DEF Copied
  <2>6. QED
    BY <1>4, <2>3, <2>5
<1>7. QED
  BY <1>5, <1>6

----------------------------------------------------------------------------
(* DMA: the states of a pass over the channels.                            *)

DmaStates ==
    [chs : [Channels -> Channel], mem : [Ram \cup Rom -> DmaWord], hist : [Channels -> History]]

AllAccounted(st) == \A c \in Channels : Accounted(st.chs[c], st.hist[c])

\* The states in which the account of every channel is right and what it has
\* moved is copied.  Process goes through several of them in one step.
SoundStates ==
    {st \in DmaStates :
        /\ AllAccounted(st)
        /\ \A c \in Channels : Copied(st.chs[c], st.hist[c], st.mem)}

LEMMA ReadType ==
    ASSUME NEW st \in DmaStates, NEW a, Readable(a)
    PROVE  Read(st, a) \in DmaWord
<1>1. CASE a \in DOMAIN Registers
  <2>1. PICK c \in Channels, r \in RegisterNames : Registers[a] = <<c, r>>
    BY <1>1, DmaAssumption
  <2>2. st.chs[c] \in Channel /\ Read(st, a) = ReadRegister(st.chs[c], r)
    BY <1>1, <2>1 DEF DmaStates, Read
  <2>3. ReadRegister(st.chs[c], r) \in DmaWord
    <3> DEFINE ch == st.chs[c]
    <3>1. ch.src \in DmaWord /\ ch.dst \in DmaWord /\ ch.count \in DmaWord /\ ch.ctrl \in 0 .. 31
      BY <2>2 DEF Channel
    <3>2. 0 .. 31 \subseteq DmaWord
      BY DmaAssumption DEF DmaWord
    <3>3. CASE r = "status"
      <4>1. ReadRegister(ch, r) \in 0 .. 7
        BY <3>3 DEF ReadRegister
      <4>2. QED
        BY <3>2, <4>1
    <3>4. QED
      BY <3>1, <3>2, <3>3 DEF ReadRegister, RegisterNames
  <2>4. QED
    BY <2>2, <2>3
<1>2. CASE a \notin DOMAIN Registers
  BY <1>2 DEF Readable, Read, DmaStates
<1>3. QED
  BY <1>1, <1>2

\* A byte written: what it does to the channels, and to memory.
LEMMA WriteKeeps ==
    ASSUME NEW st \in SoundStates, NEW a, Writable(a), NEW v \in DmaWord,
           NEW out, out = Write(st, a, v)
    PROVE  /\ out \in DmaStates /\ AllAccounted(out)
           /\ \A d \in Channels :
                 /\ Copied(out.chs[d], out.hist[d], st.mem)
                 /\ st.chs[d].busy => out.chs[d].busy
                 /\ out.hist[d].clean => out.chs[d].count = st.chs[d].count
           /\ a \in DOMAIN Registers => out.mem = st.mem
           /\ a \notin DOMAIN Registers =>
                 out.mem = [st.mem EXCEPT ![a] = v] /\ out.chs = st.chs /\ out.hist = st.hist
<1>1. /\ st.chs \in [Channels -> Channel] /\ st.mem \in [Ram \cup Rom -> DmaWord]
      /\ st.hist \in [Channels -> History] /\ AllAccounted(st)
      /\ \A d \in Channels : Copied(st.chs[d], st.hist[d], st.mem)
  BY DEF SoundStates, DmaStates
<1>2. CASE a \in DOMAIN Registers
  <2>1. PICK c \in Channels, r \in RegisterNames : Registers[a] = <<c, r>>
    BY <1>2, DmaAssumption
  <2> DEFINE ch == WriteRegister(st.chs[c], r, v)
             h == Touched(st.hist[c], st.chs[c], r, v)
  <2>2. out = [chs |-> [st.chs EXCEPT ![c] = ch], mem |-> st.mem,
               hist |-> [st.hist EXCEPT ![c] = h]]
    <3>1. Registers[a][1] = c /\ Registers[a][2] = r
      BY <2>1
    <3>2. out = [st EXCEPT !.chs[c] = ch, !.hist[c] = h]
      BY <1>2, <3>1 DEF Write
    <3> HIDE DEF ch, h
    <3>3. QED
      BY <3>2 DEF SoundStates, DmaStates
  <2>3. Accounted(st.chs[c], st.hist[c]) /\ Copied(st.chs[c], st.hist[c], st.mem)
    BY <1>1 DEF AllAccounted
  <2>4. /\ ch \in Channel /\ h \in History /\ Accounted(ch, h)
        /\ st.chs[c].busy => ch.busy
        /\ h.clean => ch.count = st.chs[c].count
    BY <1>1, <2>3, WriteRegisterKeeps
  <2>5. Copied(ch, h, st.mem)
    BY <1>1, <2>3, WriteRegisterCopied
  <2> HIDE DEF ch, h
  <2>6. /\ out.chs = [st.chs EXCEPT ![c] = ch] /\ out.hist = [st.hist EXCEPT ![c] = h]
        /\ out.mem = st.mem /\ out \in DmaStates
    BY <1>1, <2>2, <2>4 DEF DmaStates
  <2>7. ASSUME NEW d \in Channels
        PROVE  /\ Accounted(out.chs[d], out.hist[d])
               /\ Copied(out.chs[d], out.hist[d], st.mem)
               /\ st.chs[d].busy => out.chs[d].busy
               /\ out.hist[d].clean => out.chs[d].count = st.chs[d].count
    <3>1. CASE d = c
      <4>1. out.chs[d] = ch /\ out.hist[d] = h
        BY <1>1, <2>6, <3>1
      <4>2. QED
        BY <2>4, <2>5, <3>1, <4>1
    <3>2. CASE d # c
      <4>1. out.chs[d] = st.chs[d] /\ out.hist[d] = st.hist[d]
        BY <1>1, <2>6, <3>2
      <4>2. QED
        BY <1>1, <4>1 DEF AllAccounted
    <3>3. QED
      BY <3>1, <3>2
  <2>8. QED
    BY <1>2, <2>6, <2>7 DEF AllAccounted
<1>3. CASE a \notin DOMAIN Registers
  <2>1. a \in Ram /\ out = [st EXCEPT !.mem[a] = v]
    BY <1>3 DEF Writable, Write
  <2>2. /\ out.chs = st.chs /\ out.hist = st.hist /\ out.mem = [st.mem EXCEPT ![a] = v]
        /\ out \in DmaStates
    BY <1>1, <2>1 DEF SoundStates, DmaStates
  <2>3. QED
    BY <1>1, <1>3, <2>2 DEF AllAccounted
<1>4. QED
  BY <1>2, <1>3

\* A byte moved by channel c.
LEMMA MovedSound ==
    ASSUME NEW st \in SoundStates, NEW c \in Channels, Active(st.chs[c]),
           Readable(st.chs[c].curSrc), Writable(st.chs[c].curDst)
    PROVE  Moved(st, c) \in SoundStates
<1> DEFINE ch == st.chs[c]
           a == ch.curDst
           v == Read(st, ch.curSrc)
           out == Write(st, a, v)
           oc == out.chs[c]
           oh == out.hist[c]
           g == [oh EXCEPT !.moved = IF oh.clean THEN (@ + 1) % DmaWordSize ELSE 0,
                           !.alone = @ /\ oc = ch]
           new == Advanced(oc)
           end == Moved(st, c)
<1>1. /\ st \in DmaStates /\ AllAccounted(st) /\ ch \in Channel
      /\ st.mem \in [Ram \cup Rom -> DmaWord]
  BY DEF SoundStates, DmaStates
<1>2. v \in DmaWord
  BY <1>1, ReadType
<1>3. /\ out \in DmaStates /\ AllAccounted(out)
      /\ \A d \in Channels :
            /\ Copied(out.chs[d], out.hist[d], st.mem)
            /\ st.chs[d].busy => out.chs[d].busy
            /\ out.hist[d].clean => out.chs[d].count = st.chs[d].count
      /\ a \in DOMAIN Registers => out.mem = st.mem
      /\ a \notin DOMAIN Registers =>
            out.mem = [st.mem EXCEPT ![a] = v] /\ out.chs = st.chs /\ out.hist = st.hist
  <2> HIDE DEF v, a
  <2>1. Writable(a)
    BY DEF a
  <2>2. QED
    BY <1>2, <2>1, WriteKeeps
<1>4. /\ end.chs = [out.chs EXCEPT ![c] = new] /\ end.mem = out.mem
      /\ end.hist = [d \in Channels |-> IF d = c THEN g ELSE [out.hist[d] EXCEPT !.alone = FALSE]]
      /\ end = [chs |-> end.chs, mem |-> end.mem, hist |-> end.hist]
  BY DEF Moved
<1> HIDE DEF out
<1>5. /\ oc \in Channel /\ oh \in History /\ Accounted(oc, oh) /\ oc.busy
      /\ oh.clean => oc.count > 0
      /\ Copied(oc, oh, st.mem)
  BY <1>3 DEF DmaStates, AllAccounted, Active
<1>6. /\ g \in History /\ g.clean = oh.clean
      /\ g.moved = IF oh.clean THEN (oh.moved + 1) % DmaWordSize ELSE 0
      /\ g.alone = (oh.alone /\ oc = ch)
  <2>1. DmaWordSize \in Nat \ {0} /\ DmaWord = 0 .. DmaWordSize - 1
    BY DmaAssumption DEF DmaWord
  <2>2. oh.moved + 1 \in Int
    BY <1>5, <2>1 DEF History
  <2>3. (oh.moved + 1) % DmaWordSize \in DmaWord /\ 0 \in DmaWord
    <3> DEFINE x == oh.moved + 1
    <3>1. x \in Int
      BY <2>2
    <3> HIDE DEF x
    <3>2. x % DmaWordSize \in 0 .. DmaWordSize - 1
      BY <2>1, <3>1, ModRange
    <3>3. x % DmaWordSize \in DmaWord /\ 0 \in DmaWord
      BY <2>1, <3>2
    <3>4. QED
      BY <3>3 DEF x
  <2> HIDE DEF oh, oc, ch
  <2>4. QED
    BY <1>5, <2>3 DEF History
<1> HIDE DEF ch, oc, oh, g, end
<1>7. /\ new \in Channel /\ Accounted(new, g)
      /\ new.src = oc.src /\ new.dst = oc.dst
      /\ SRC_INC(new.ctrl) <=> SRC_INC(oc.ctrl)
      /\ DST_INC(new.ctrl) <=> DST_INC(oc.ctrl)
  BY <1>5, <1>6, AdvancedKeeps
<1>8. Copied(new, g, out.mem)
  <2>1. CASE ~(g.clean /\ g.alone)
    BY <2>1 DEF Copied
  <2>2. CASE g.clean /\ g.alone
    <3>1. oh.clean /\ oh.alone /\ oc = ch
      BY <1>6, <2>2
    <3>2. oh.moved + 1 \in DmaWord /\ g.moved = oh.moved + 1
      <4>1. oc.count + oh.moved = oc.initial /\ oc.count > 0
        BY <1>5, <3>1 DEF Accounted
      <4>2. /\ oc.count \in 0 .. DmaWordSize - 1 /\ oc.initial \in 0 .. DmaWordSize - 1
            /\ oh.moved \in 0 .. DmaWordSize - 1 /\ DmaWordSize \in Nat \ {0}
        BY <1>5, DmaAssumption DEF Channel, History, DmaWord
      <4>3. oh.moved + 1 \in 0 .. DmaWordSize - 1
        BY <4>1, <4>2
      <4>4. QED
        BY <1>6, <3>1, <4>2, <4>3 DEF DmaWord
    <3>3. \A b \in Ram \cup Rom : b # oc.curDst => out.mem[b] = st.mem[b]
      BY <1>1, <1>3, <3>1 DEF a
    <3>4. oc.curSrc \in Ram \cup Rom /\ oc.curDst \in Ram \cup Rom
             => out.mem[oc.curDst] = st.mem[oc.curSrc]
      <4> SUFFICES ASSUME ch.curSrc \in Ram \cup Rom, a \in Ram \cup Rom
                   PROVE  out.mem[a] = st.mem[ch.curSrc]
        BY <3>1 DEF a
      <4>1. a \notin DOMAIN Registers /\ ch.curSrc \notin DOMAIN Registers
        BY DmaAssumption
      <4>2. v = st.mem[ch.curSrc]
        BY <4>1 DEF Read
      <4>3. out.mem = [st.mem EXCEPT ![a] = v]
        BY <1>3, <4>1
      <4> HIDE DEF v, a
      <4>4. QED
        BY <1>1, <4>2, <4>3
    <3>5. QED
      BY <1>5, <1>6, <1>7, <3>1, <3>2, <3>3, <3>4, OneMoreCopied
  <2>3. QED
    BY <2>1, <2>2
<1>9. ASSUME NEW d \in Channels, d # c
       PROVE  /\ end.hist[d] \in History
              /\ Accounted(end.chs[d], end.hist[d]) /\ Copied(end.chs[d], end.hist[d], end.mem)
  <2> DEFINE h == out.hist[d]
             k == [h EXCEPT !.alone = FALSE]
  <2>1. h \in History /\ Accounted(out.chs[d], h)
    BY <1>3 DEF DmaStates, AllAccounted
  <2>2. end.chs[d] = out.chs[d] /\ end.hist[d] = k
    BY <1>3, <1>4, <1>9 DEF DmaStates
  <2> HIDE DEF h
  <2>3. k \in History /\ k.moved = h.moved /\ k.clean = h.clean /\ k.alone = FALSE
    BY <2>1 DEF History
  <2> HIDE DEF k
  <2>4. Accounted(out.chs[d], k)
    BY <2>1, <2>3 DEF Accounted
  <2>5. Copied(out.chs[d], k, end.mem)
    BY <2>3 DEF Copied
  <2>6. QED
    BY <2>2, <2>3, <2>4, <2>5
<1>10. end.chs[c] = new /\ end.hist[c] = g
  BY <1>3, <1>4 DEF DmaStates
<1>11. end \in DmaStates
  <2>1. end.chs \in [Channels -> Channel] /\ end.mem \in [Ram \cup Rom -> DmaWord]
    BY <1>3, <1>4, <1>7 DEF DmaStates
  <2>2. end.hist \in [Channels -> History]
    <3>1. \A d \in Channels : end.hist[d] \in History
      BY <1>6, <1>9, <1>10
    <3>2. end.hist = [d \in Channels |-> end.hist[d]]
      BY <1>4
    <3>3. QED
      BY <3>1, <3>2
  <2>3. QED
    BY <1>4, <2>1, <2>2 DEF DmaStates
<1>12. QED
  <2>1. \A d \in Channels :
           Accounted(end.chs[d], end.hist[d]) /\ Copied(end.chs[d], end.hist[d], end.mem)
    BY <1>4, <1>7, <1>8, <1>9, <1>10
  <2>2. end \in SoundStates
    BY <1>11, <2>1 DEF SoundStates, AllAccounted
  <2>3. QED
    BY <2>2 DEF end

\* A channel whose byte cannot be read, or has nowhere to go, stops.
LEMMA FailedSound ==
    ASSUME NEW st \in SoundStates, NEW c \in Channels
    PROVE  Failed(st, c) \in SoundStates
<1> DEFINE new == [Stopped(st.chs[c]) EXCEPT !.error = TRUE]
           end == Failed(st, c)
<1>1. /\ st.chs \in [Channels -> Channel] /\ st.mem \in [Ram \cup Rom -> DmaWord]
      /\ st.hist \in [Channels -> History] /\ st \in DmaStates
      /\ \A d \in Channels : /\ Accounted(st.chs[d], st.hist[d])
                             /\ Copied(st.chs[d], st.hist[d], st.mem)
  BY DEF SoundStates, DmaStates, AllAccounted
<1>2. /\ new \in Channel /\ Accounted(new, st.hist[c])
      /\ new.src = st.chs[c].src /\ new.dst = st.chs[c].dst
      /\ SRC_INC(new.ctrl) <=> SRC_INC(st.chs[c].ctrl)
      /\ DST_INC(new.ctrl) <=> DST_INC(st.chs[c].ctrl)
  <2> DEFINE ch == st.chs[c]
             h == st.hist[c]
  <2>1. ch \in Channel /\ h \in History /\ Accounted(ch, h)
    BY <1>1
  <2>2. new = [Stopped(ch) EXCEPT !.error = TRUE]
    OBVIOUS
  <2> HIDE DEF ch, h, new
  <2>3. /\ new \in Channel /\ Accounted(new, h) /\ new.src = ch.src /\ new.dst = ch.dst
        /\ SRC_INC(new.ctrl) <=> SRC_INC(ch.ctrl)
        /\ DST_INC(new.ctrl) <=> DST_INC(ch.ctrl)
    BY <2>1, <2>2, FailedKeeps
  <2>4. QED
    BY <2>3 DEF ch, h
<1>3. Copied(new, st.hist[c], st.mem)
  <2> HIDE DEF new
  <2>1. QED
    BY <1>1, <1>2, CopiedSame
<1>4. end = [st EXCEPT !.chs[c] = new]
  BY DEF Failed
<1> HIDE DEF new
<1>5. /\ end.chs = [st.chs EXCEPT ![c] = new] /\ end.mem = st.mem /\ end.hist = st.hist
      /\ end \in DmaStates
  BY <1>1, <1>2, <1>4 DEF DmaStates
<1> HIDE DEF end
<1>6. \A d \in Channels : end.chs[d] = IF d = c THEN new ELSE st.chs[d]
  BY <1>1, <1>5
<1>7. \A d \in Channels : /\ Accounted(end.chs[d], end.hist[d])
                          /\ Copied(end.chs[d], end.hist[d], end.mem)
  BY <1>1, <1>2, <1>3, <1>5, <1>6
<1>8. end \in SoundStates
  BY <1>5, <1>7 DEF SoundStates, AllAccounted
<1>9. QED
  BY <1>8 DEF end

LEMMA ProcessChannelSound ==
    ASSUME NEW st \in SoundStates, NEW c \in Channels
    PROVE  ProcessChannel(st, c) \in SoundStates
  BY MovedSound, FailedSound DEF ProcessChannel

\* The pass over the channels goes from sound states to sound states: its
\* recursive definition has a value, and each of the values before it is sound.
LEMMA PassSound ==
    ASSUME Now \in SoundStates
    PROVE  Pass \subseteq SoundStates
<1> DEFINE Loop(f) == f = [n \in 0 .. NumChannels |->
                             IF n = 0 THEN {Now}
                             ELSE {ProcessChannel(st, n - 1) : st \in f[n - 1]}]
           after == CHOOSE f : Loop(f)
           all == SUBSET SoundStates
           Image(n, X) == {ProcessChannel(st, n - 1) : st \in X}
           g == [n \in 1 .. NumChannels |-> [X \in all |-> Image(n, X)]]
<1>1. NumChannels \in Nat
  BY DmaAssumption
<1>2. \A n \in 1 .. NumChannels : n - 1 \in Channels
  BY <1>1 DEF Channels
<1>3. \A n \in 1 .. NumChannels : \A X \in all : Image(n, X) \in all
  BY <1>2, ProcessChannelSound
<1>4. \E f \in [0 .. NumChannels -> all] : Iterates(f, NumChannels, {Now}, g)
  <2>1. {Now} \in all
    OBVIOUS
  <2>2. g \in Steps(NumChannels, all)
    <3> HIDE DEF all, Image
    <3>1. QED
      BY <1>3 DEF Steps
  <2> HIDE DEF g, all
  <2>3. QED
    BY <1>1, <2>1, <2>2, Recursion
<1>5. \E f : Loop(f)
  <2>1. PICK f \in [0 .. NumChannels -> all] : Iterates(f, NumChannels, {Now}, g)
    BY <1>4
  <2>2. \A n \in 1 .. NumChannels : n - 1 \in 0 .. NumChannels /\ f[n - 1] \in all
    BY <1>1
  <2>3. f[0] = {Now} /\ \A n \in 1 .. NumChannels : f[n] = Image(n, f[n - 1])
    <3> HIDE DEF all, Image
    <3>1. QED
      BY <2>1, <2>2 DEF Iterates
  <2>4. \A n \in 0 .. NumChannels : n = 0 \/ n \in 1 .. NumChannels
    OBVIOUS
  <2>5. f = [n \in 0 .. NumChannels |-> IF n = 0 THEN {Now} ELSE Image(n, f[n - 1])]
    <3> HIDE DEF all, Image
    <3>1. QED
      BY <2>3, <2>4
  <2>6. Loop(f)
    BY <2>5
  <2>7. QED
    <3> HIDE DEF Loop
    <3>1. QED
      BY <2>6
<1>6. Loop(after)
  <2> HIDE DEF Loop
  <2>1. QED
    BY <1>5
<1>7. Pass = after[NumChannels]
  BY DEF Pass
<1> DEFINE A == {n \in 0 .. NumChannels : after[n] \in all}
<1>8. \A n \in 0 .. NumChannels : after[n] = IF n = 0 THEN {Now} ELSE Image(n, after[n - 1])
  <2> HIDE DEF after
  <2>1. QED
    BY <1>6
<1> HIDE DEF after, Image
<1>9. 0 \in A
  BY <1>1, <1>8
<1>10. \A n \in 1 .. NumChannels : n - 1 \in A => n \in A
  <2> SUFFICES ASSUME NEW n \in 1 .. NumChannels, n - 1 \in A
               PROVE  n \in A
    OBVIOUS
  <2>1. after[n - 1] \in all /\ n \in 0 .. NumChannels /\ n # 0
    OBVIOUS
  <2>2. after[n] = Image(n, after[n - 1])
    BY <1>8, <2>1
  <2> HIDE DEF all
  <2>3. QED
    BY <1>3, <2>1, <2>2
<1> HIDE DEF A
<1>11. \A n \in 0 .. NumChannels : n \in A
  BY <1>1, <1>9, <1>10, UpTo
<1>12. NumChannels \in A
  BY <1>1, <1>11
<1>13. QED
  BY <1>7, <1>12 DEF A

----------------------------------------------------------------------------
(* DMA: the theorems.  The invariant is that the state is sound.           *)

DmaInv == Now \in SoundStates

LEMMA InitSound ==
    ASSUME DmaInit
    PROVE  DmaInv
<1>1. 0 \in DmaWord /\ 0 \in 0 .. 31
  BY DmaAssumption DEF DmaWord
<1>2. NoTransfer \in History
  BY <1>1 DEF NoTransfer, History
<1>3. chs \in [Channels -> Channel] /\ mem \in [Ram \cup Rom -> DmaWord]
      /\ hist \in [Channels -> History]
  BY <1>1, <1>2, DmaAssumption DEF DmaInit, Channel
<1>4. \A c \in Channels : ~chs[c].busy /\ hist[c].clean = FALSE
  BY DEF DmaInit, NoTransfer
<1>5. \A c \in Channels : Accounted(chs[c], hist[c]) /\ Copied(chs[c], hist[c], mem)
  BY <1>4 DEF Accounted, Copied
<1>6. QED
  BY <1>3, <1>5 DEF DmaInv, SoundStates, DmaStates, AllAccounted, Now

LEMMA NextSound ==
    ASSUME DmaInv, [DmaNext]_dmaVars
    PROVE  DmaInv'
<1>1. /\ chs \in [Channels -> Channel] /\ mem \in [Ram \cup Rom -> DmaWord]
      /\ hist \in [Channels -> History]
      /\ \A d \in Channels : Accounted(chs[d], hist[d]) /\ Copied(chs[d], hist[d], mem)
  BY DEF DmaInv, SoundStates, DmaStates, AllAccounted, Now
<1>2. CASE GuestWrite
  <2>1. PICK c \in Channels, w \in GuestWrites :
           /\ chs' = [chs EXCEPT ![c] = WriteRegister(@, w[1], w[2])]
           /\ hist' = [hist EXCEPT ![c] = Touched(@, chs[c], w[1], w[2])]
           /\ mem' = mem
    BY <1>2 DEF GuestWrite
  <2>2. PICK r \in RegisterNames, v \in DmaWord : w[1] = r /\ w[2] = v
    BY DmaAssumption
  <2> DEFINE ch == WriteRegister(chs[c], r, v)
             h == Touched(hist[c], chs[c], r, v)
  <2>3. ch \in Channel /\ h \in History /\ Accounted(ch, h)
    BY <1>1, WriteRegisterKeeps
  <2>4. Copied(ch, h, mem)
    BY <1>1, WriteRegisterCopied
  <2>5. chs' = [chs EXCEPT ![c] = ch] /\ hist' = [hist EXCEPT ![c] = h] /\ mem' = mem
    BY <2>1, <2>2
  <2> HIDE DEF ch, h
  <2>6. chs' \in [Channels -> Channel] /\ hist' \in [Channels -> History]
    BY <1>1, <2>3, <2>5
  <2>7. \A d \in Channels : /\ chs'[d] = IF d = c THEN ch ELSE chs[d]
                            /\ hist'[d] = IF d = c THEN h ELSE hist[d]
    BY <1>1, <2>5
  <2>8. \A d \in Channels : Accounted(chs'[d], hist'[d]) /\ Copied(chs'[d], hist'[d], mem')
    BY <1>1, <2>3, <2>4, <2>5, <2>7
  <2>9. QED
    BY <1>1, <2>5, <2>6, <2>8 DEF DmaInv, SoundStates, DmaStates, AllAccounted, Now
<1>3. CASE Process
  <2>1. PICK pass \in Pass : chs' = pass.chs /\ mem' = pass.mem /\ hist' = pass.hist
    BY <1>3 DEF Process
  <2>2. pass \in SoundStates
    BY <2>1, PassSound DEF DmaInv
  <2>3. Now' = pass
    BY <2>1, <2>2 DEF SoundStates, DmaStates, Now
  <2>4. QED
    BY <2>2, <2>3 DEF DmaInv, SoundStates, DmaStates, AllAccounted, Accounted, Copied, Channels
<1>4. CASE UNCHANGED dmaVars
  BY <1>4 DEF dmaVars, DmaInv, Now, SoundStates, DmaStates, AllAccounted
<1>5. QED
  BY <1>2, <1>3, <1>4 DEF DmaNext

LEMMA DmaInvariant == DmaSpec => []DmaInv
<1>1. DmaInit => DmaInv
  BY InitSound
<1>2. DmaInv /\ [DmaNext]_dmaVars => DmaInv'
  BY NextSound
<1>3. QED
  BY <1>1, <1>2, PTL DEF DmaSpec

\* The channels' registers, the positions and the history stay in their types
\* whatever the guest writes and wherever a transfer goes.
THEOREM DmaTypeCorrect == DmaSpec => []DmaTypeOK
<1>1. DmaInv => DmaTypeOK
  BY DEF DmaInv, SoundStates, DmaStates, Now, DmaTypeOK, History
<1>2. QED
  BY <1>1, DmaInvariant, PTL

\* For any number of channels, over any memory and any registers: a transfer
\* left alone has moved the bytes its count has lost, all of them by DONE, and
\* DONE is never raised while BUSY.
THEOREM DmaTransferAccounted == DmaSpec => []TransferAccounted
<1>1. DmaInv => TransferAccounted
  BY DEF DmaInv, SoundStates, AllAccounted, Accounted, Now, TransferAccounted
<1>2. QED
  BY <1>1, DmaInvariant, PTL

\* A transfer that does not overlap itself, left alone by the guest and by the
\* other channels, has copied every byte it moved.
THEOREM DmaTransferCopies == DmaSpec => []TransferCopies
<1>1. DmaInv => TransferCopies
  BY DEF DmaInv, SoundStates, Copied, Now, TransferCopies
<1>2. QED
  BY <1>1, DmaInvariant, PTL

----------------------------------------------------------------------------
(* VirtIO: the rings.  The driver's tail, the device's index and the        *)
(* driver's index follow one another round a ring of IdxMod; what they     *)
(* point at goes round one of N.  Counted from the tail, the entries come   *)
(* in a row: Served that the driver may take, then Outstanding.             *)

Served == (used.idx - usedTail) % IdxMod

Place(k) == (usedTail + k) % N

\* The two counters of the device never part, and agree with the ring in
\* memory once the driver has set it up.
DeviceInStep ==
    /\ Used_Idx = Last_Avail_Idx
    /\ ~setUp => ~QueueReady /\ Last_Avail_Idx = 0
    /\ setUp => used.idx = Last_Avail_Idx % IdxMod

\* The rings do not overflow, no head is in them twice, and what was served is
\* in the order it was made available.
HeadsInOrder ==
    setUp =>
      /\ Served + Outstanding <= N
      /\ \A i, j \in 0 .. Served + Outstanding - 1 :
            avail.ring[Place(i)] = avail.ring[Place(j)] => i = j
      /\ \A i \in 0 .. Served - 1 : used.ring[Place(i)] = avail.ring[Place(i)]

BlkInv == BlkTypeOK /\ DeviceInStep /\ HeadsInOrder

LEMMA RingSizes ==
    /\ N \in Nat \ {0} /\ IdxMod \in Nat \ {0} /\ WordMod \in Nat \ {0}
    /\ N < IdxMod /\ IdxMod % N = 0 /\ WordMod % IdxMod = 0 /\ WordMod % N = 0
<1>1. N \in Nat \ {0} /\ IdxMod \in Nat \ {0} /\ WordMod \in Nat \ {0} /\ N < IdxMod
      /\ IdxMod % N = 0 /\ WordMod % IdxMod = 0
  BY VirtioAssumption
<1>2. (WordMod % IdxMod) % N = WordMod % N
  <2>1. WordMod \in Int
    BY <1>1
  <2>2. QED
    BY <1>1, <2>1, ModMod
<1>3. 0 % N = 0
  BY <1>1
<1>4. QED
  BY <1>1, <1>2, <1>3

LEMMA PlaceType ==
    ASSUME BlkTypeOK, NEW k \in Int
    PROVE  Place(k) \in Slots
<1> DEFINE x == usedTail + k
<1>1. x \in Int
  BY RingSizes DEF BlkTypeOK
<1> HIDE DEF x
<1>2. x % N \in 0 .. N - 1
  BY <1>1, RingSizes, ModRange
<1>3. QED
  BY <1>2 DEF x, Place, Slots

LEMMA PlacesApart ==
    ASSUME BlkTypeOK, NEW i \in 0 .. N - 1, NEW j \in 0 .. N - 1, Place(i) = Place(j)
    PROVE  i = j
<1> DEFINE x == usedTail + i
           y == usedTail + j
<1>1. N \in Nat \ {0} /\ usedTail \in Int
  BY RingSizes DEF BlkTypeOK
<1>2. x \in Int /\ y \in Int /\ x - y \in (1 - N) .. N - 1
  BY <1>1
<1>3. Congruent(x, y, N)
  BY DEF Place, Congruent
<1>4. x = y
  <2> HIDE DEF x, y
  <2>1. QED
    BY <1>1, <1>2, <1>3, CongruentEqual
<1>5. QED
  BY <1>1, <1>4

\* Where the next entry to serve is: the counter wraps later than the rings.
LEMMA DeviceSlots ==
    ASSUME BlkTypeOK, DeviceInStep, setUp, NEW n \in Nat
    PROVE  Avail_Slot(n) = Place(Served + n) /\ Used_Slot(n) = Place(Served + n)
<1> DEFINE l == Last_Avail_Idx
           w == used.idx - usedTail
           r == w % IdxMod
           x == l + n
           y == usedTail + (r + n)
<1>1. l \in Int /\ used.idx \in Int /\ usedTail \in Int /\ w \in Int
  BY RingSizes DEF BlkTypeOK
<1>2. Congruent(r, w, IdxMod) /\ r \in Int
  <2> HIDE DEF w
  <2>1. Congruent(r, w, IdxMod) /\ r \in 0 .. IdxMod - 1
    BY <1>1, RingSizes, CongruentRest
  <2> HIDE DEF r
  <2>2. QED
    BY <2>1, RingSizes
<1>3. Congruent(usedTail + r, used.idx, IdxMod)
  <2> DEFINE z == usedTail + r
             u == used.idx
  <2>1. z \in Int /\ u \in Int /\ z - r = u - w
    <3> HIDE DEF r
    <3>1. QED
      BY <1>1, <1>2
  <2> HIDE DEF z, u, r, w
  <2>2. QED
    BY <1>1, <1>2, <2>1, RingSizes, CongruentMoved DEF z, u
<1>4. Congruent(l, used.idx, IdxMod)
  <2>1. used.idx = l % IdxMod
    BY DEF DeviceInStep
  <2> HIDE DEF l
  <2>2. QED
    BY <1>1, <2>1, RingSizes, CongruentRest
<1>5. Congruent(l, usedTail + r, IdxMod)
  BY <1>3, <1>4 DEF Congruent
<1>6. Congruent(x, y, N)
  <2> DEFINE z == usedTail + r
  <2>1. z \in Int /\ x \in Int /\ y \in Int /\ x - l = y - z
    <3> HIDE DEF r, l
    <3>1. QED
      BY <1>1, <1>2
  <2>2. Congruent(l, z, IdxMod)
    BY <1>5
  <2> HIDE DEF l, x, y, z, r, w
  <2>3. Congruent(l, z, N)
    BY <1>1, <2>1, <2>2, RingSizes, CongruentCoarser
  <2>4. QED
    BY <1>1, <2>1, <2>3, RingSizes, CongruentMoved
<1>7. (x % WordMod) % N = x % N
  <2>1. x \in Int
    BY <1>1
  <2> HIDE DEF x
  <2>2. QED
    BY <2>1, RingSizes, ModMod
<1>8. Avail_Slot(n) = (x % WordMod) % N /\ Used_Slot(n) = (x % WordMod) % N
  BY DEF Avail_Slot, Used_Slot, IndexAfter, DeviceInStep
<1>9. Place(Served + n) = y % N
  BY DEF Place, Served
<1> HIDE DEF x, y
<1>10. QED
  BY <1>6, <1>7, <1>8, <1>9 DEF Congruent

\* How many heads are in flight, and where the next goes.
LEMMA DriverSlots ==
    ASSUME BlkTypeOK, DeviceInStep, setUp, Served + Outstanding <= N
    PROVE  /\ Served \in Nat /\ Outstanding \in Nat
           /\ (avail.idx - usedTail) % IdxMod = Served + Outstanding
           /\ Congruent(usedTail + (Served + Outstanding), avail.idx, N)
           /\ avail.idx % N = Place(Served + Outstanding)
<1> DEFINE l == Last_Avail_Idx
           t == usedTail
           a == avail.idx
           u == used.idx
           w == u - t
           v == a - l
           i == Served
           j == Outstanding
           x == t + i
           y == l + j
           s == t + (i + j)
<1>1. l \in Int /\ u \in Int /\ t \in Int /\ a \in Int /\ w \in Int /\ v \in Int
  BY RingSizes DEF BlkTypeOK
<1>2. i = w % IdxMod /\ j = v % IdxMod
  BY DEF Served, Outstanding
<1>3. Congruent(i, w, IdxMod) /\ i \in 0 .. IdxMod - 1
      /\ Congruent(j, v, IdxMod) /\ j \in 0 .. IdxMod - 1
  <2> HIDE DEF w, v, i, j
  <2>1. QED
    BY <1>1, <1>2, RingSizes, CongruentRest
<1> HIDE DEF i, j
<1>4. i \in Nat /\ j \in Nat /\ i \in Int /\ j \in Int /\ i + j < IdxMod
  <2>1. i + j <= N
    BY DEF i, j
  <2>2. QED
    BY <1>3, <2>1, RingSizes
<1>5. x \in Int /\ y \in Int /\ s \in Int /\ x - i = u - w /\ y - j = a - v
  BY <1>1, <1>4
<1>6. Congruent(l, u, IdxMod)
  <2>1. u = l % IdxMod
    BY DEF DeviceInStep
  <2> HIDE DEF l, u
  <2>2. QED
    BY <1>1, <2>1, RingSizes, CongruentRest
<1>7. Congruent(x, l, IdxMod) /\ Congruent(y, a, IdxMod)
  <2> HIDE DEF l, t, a, u, w, v, x, y
  <2>1. Congruent(x, u, IdxMod) /\ Congruent(y, a, IdxMod)
    BY <1>1, <1>3, <1>4, <1>5, RingSizes, CongruentMoved
  <2>2. QED
    BY <1>6, <2>1 DEF Congruent
<1>8. (a - t) % IdxMod = i + j /\ Congruent(s, a, IdxMod)
  <2> HIDE DEF l, t, a, u
  <2>1. QED
    BY <1>1, <1>4, <1>7, RingSizes, CongruentSum, Zenon
<1>9. Congruent(s, a, N)
  <2> HIDE DEF s, a
  <2>1. QED
    BY <1>1, <1>5, <1>8, RingSizes, CongruentCoarser
<1>10. QED
  BY <1>4, <1>8, <1>9 DEF i, j, Place, Congruent

\* What lies between the tail and the driver's index is in flight.
LEMMA PlacesInFlight ==
    ASSUME BlkTypeOK, DeviceInStep, setUp, Served + Outstanding <= N,
           NEW k \in 0 .. Served + Outstanding - 1
    PROVE  avail.ring[Place(k)] \in InFlight
<1> DEFINE i == Served + Outstanding
           a == avail.idx
           n == i - k
           x == a - n
           s == usedTail + i
           y == usedTail + k
<1>1. i \in Nat /\ (a - usedTail) % IdxMod = i /\ Congruent(s, a, N)
  BY DriverSlots
<1>2. a \in Int /\ usedTail \in Int
  BY RingSizes DEF BlkTypeOK
<1>3. k \in 0 .. i - 1
  BY DriverSlots
<1> HIDE DEF i, a
<1>4. /\ n \in 1 .. i /\ x \in Int /\ y \in Int /\ s \in Int /\ y - s = x - a
  BY <1>1, <1>2, <1>3
<1>5. Congruent(y, x, N)
  <2> HIDE DEF x, y, s
  <2>1. QED
    BY <1>1, <1>2, <1>4, RingSizes, CongruentMoved
<1>6. Place(k) = (a - n) % N
  BY <1>5 DEF Congruent, Place
<1> HIDE DEF n
<1>7. QED
  BY <1>1, <1>4, <1>6 DEF InFlight, a

----------------------------------------------------------------------------
(* VirtIO: the batch the device serves in one store.                       *)

Disks == [Abs!Sectors -> Tags \cup {0}]

\* What a batch works on.
Batches == [disk : Disks, result : [Heads -> Abs!Answers], ring : [Slots -> Heads]]

\* The head of the n-th outstanding request, from 0.
Entry(n) == avail.ring[Avail_Slot(n)]

OneServed(n, st) ==
    LET h == Entry(n - 1)
    IN  [disk |-> Abs!Stored(st.disk, desc[h]),
         result |-> [st.result EXCEPT ![h] = Abs!Answer(st.disk, desc[h])],
         ring |-> [st.ring EXCEPT ![Used_Slot(n - 1)] = h]]

LEMMA RequestTypes ==
    ASSUME NEW d \in Disks, NEW r \in Abs!Requests
    PROVE  Abs!Stored(d, r) \in Disks /\ Abs!Answer(d, r) \in Abs!Answers
<1>1. /\ r.type \in {"IN", "OUT"} /\ r.sector \in 0 .. MaxSectors
      /\ r.tag \in Tags \cup {0}
  BY DEF Abs!Requests
<1>2. Abs!Stored(d, r) \in Disks
  BY <1>1 DEF Abs!Stored, Disks
<1>3. Abs!Answer(d, r) \in Abs!Answers
  BY <1>1 DEF Abs!Answer, Abs!Answers, Disks
<1>4. QED
  BY <1>2, <1>3

LEMMA OneServedType ==
    ASSUME BlkTypeOK, NEW n \in Int, Avail_Slot(n - 1) \in Slots, NEW st \in Batches
    PROVE  Entry(n - 1) \in Heads /\ OneServed(n, st) \in Batches
<1> DEFINE h == Entry(n - 1)
<1>1. h \in Heads /\ desc[h] \in Abs!Requests /\ st.disk \in Disks
      /\ st.result \in [Heads -> Abs!Answers] /\ st.ring \in [Slots -> Heads]
  BY DEF Entry, BlkTypeOK, Batches
<1>2. Abs!Stored(st.disk, desc[h]) \in Disks /\ Abs!Answer(st.disk, desc[h]) \in Abs!Answers
  BY <1>1, RequestTypes
<1> HIDE DEF h
<1>3. [st.result EXCEPT ![h] = Abs!Answer(st.disk, desc[h])] \in [Heads -> Abs!Answers]
  BY <1>1, <1>2
<1>4. [st.ring EXCEPT ![Used_Slot(n - 1)] = h] \in [Slots -> Heads]
  BY <1>1
<1>5. OneServed(n, st) \in Batches
  BY <1>2, <1>3, <1>4 DEF OneServed, Batches, h
<1>6. QED
  BY <1>1, <1>5 DEF h

\* The recursive definition of Batch has a value.
LEMMA BatchLoop ==
    ASSUME BlkTypeOK, DeviceInStep, setUp, Served \in Nat, Outstanding \in Nat
    PROVE  \E f \in [0 .. Outstanding -> Batches] :
              /\ f[0] = [disk |-> disk, result |-> result, ring |-> used.ring]
              /\ \A n \in 1 .. Outstanding : f[n] = OneServed(n, f[n - 1])
              /\ Batch = f[Outstanding]
<1> DEFINE O == Outstanding
           a == [disk |-> disk, result |-> result, ring |-> used.ring]
           Loop(f) == f = [n \in 0 .. O |->
                             IF n = 0 THEN [disk |-> disk, result |-> result, ring |-> used.ring]
                             ELSE LET st == f[n - 1]
                                      h  == avail.ring[Avail_Slot(n - 1)]
                                  IN  [disk |-> Abs!Stored(st.disk, desc[h]),
                                       result |-> [st.result EXCEPT
                                                     ![h] = Abs!Answer(st.disk, desc[h])],
                                       ring |-> [st.ring EXCEPT ![Used_Slot(n - 1)] = h]]]
           after == CHOOSE f : Loop(f)
           g == [n \in 1 .. O |-> [st \in Batches |-> OneServed(n, st)]]
<1>1. O \in Nat
  OBVIOUS
<1>2. Batch = after[O]
  BY DEF Batch
<1>3. \A f : Loop(f) <=> f = [n \in 0 .. O |-> IF n = 0 THEN a ELSE OneServed(n, f[n - 1])]
  BY DEF OneServed, Entry
<1> HIDE DEF Loop
<1>4. a \in Batches
  BY DEF Batches, BlkTypeOK, Disks
<1>5. \A n \in 1 .. O : \A st \in Batches : OneServed(n, st) \in Batches
  <2> SUFFICES ASSUME NEW n \in 1 .. O, NEW st \in Batches
               PROVE  OneServed(n, st) \in Batches
    OBVIOUS
  <2> HIDE DEF O
  <2>1. n - 1 \in Nat /\ n \in Int
    BY <1>1
  <2>2. Avail_Slot(n - 1) = Place(Served + (n - 1)) /\ Served + (n - 1) \in Int
    BY <2>1, DeviceSlots
  <2>3. Avail_Slot(n - 1) \in Slots
    BY <2>2, PlaceType
  <2>4. QED
    BY <2>1, <2>3, OneServedType
<1> HIDE DEF O, a, after
<1>6. \E f \in [0 .. O -> Batches] : Iterates(f, O, a, g)
  <2>1. g \in Steps(O, Batches)
    BY <1>5 DEF Steps
  <2> HIDE DEF g
  <2>2. QED
    BY <1>1, <1>4, <2>1, Recursion
<1>7. \E f : Loop(f)
  <2>1. PICK f \in [0 .. O -> Batches] : Iterates(f, O, a, g)
    BY <1>6
  <2>2. \A n \in 1 .. O : n - 1 \in 0 .. O /\ f[n - 1] \in Batches
    BY <1>1
  <2>3. f[0] = a /\ \A n \in 1 .. O : f[n] = OneServed(n, f[n - 1])
    BY <2>1, <2>2 DEF Iterates
  <2>4. \A n \in 0 .. O : n = 0 \/ n \in 1 .. O
    OBVIOUS
  <2>5. f = [n \in 0 .. O |-> IF n = 0 THEN a ELSE OneServed(n, f[n - 1])]
    BY <2>3, <2>4
  <2>6. QED
    BY <1>3, <2>5
<1>8. Loop(after)
  BY <1>7 DEF after
<1>9. after = [n \in 0 .. O |-> IF n = 0 THEN a ELSE OneServed(n, after[n - 1])]
  BY <1>3, <1>8
<1> DEFINE A == {n \in 0 .. O : after[n] \in Batches}
<1>10. 0 \in A /\ \A n \in 1 .. O : n - 1 \in A => n \in A
  <2>1. after[0] = a
    BY <1>1, <1>9
  <2>2. ASSUME NEW n \in 1 .. O, after[n - 1] \in Batches
        PROVE  after[n] \in Batches
    <3>1. n \in 0 .. O /\ n # 0
      OBVIOUS
    <3>2. after[n] = OneServed(n, after[n - 1])
      BY <1>9, <3>1
    <3>3. QED
      BY <1>5, <2>2, <3>2
  <2>3. QED
    BY <1>1, <1>4, <2>1, <2>2
<1> HIDE DEF A
<1>11. \A n \in 0 .. O : n \in A
  BY <1>1, <1>10, UpTo
<1>12. \A n \in 0 .. O : after[n] \in Batches
  BY <1>11 DEF A
<1>13. after \in [0 .. O -> Batches]
  BY <1>9, <1>12
<1>14. after[0] = a /\ \A n \in 1 .. O : after[n] = OneServed(n, after[n - 1])
  <2>1. 0 \in 0 .. O /\ \A n \in 1 .. O : n \in 0 .. O /\ n # 0
    BY <1>1
  <2>2. QED
    BY <1>9, <2>1
<1>15. QED
  BY <1>2, <1>13, <1>14 DEF O, a

\* Where the outstanding entries are, apart from one another and from those
\* the driver has still to take.
LEMMA Entries ==
    ASSUME BlkInv, setUp
    PROVE  /\ Served \in Nat /\ Outstanding \in Nat /\ Served + Outstanding <= N
           /\ \A k \in 0 .. Outstanding - 1 :
                 /\ Entry(k) \in Heads /\ Used_Slot(k) \in Slots
                 /\ Used_Slot(k) = Place(Served + k) /\ Entry(k) = avail.ring[Place(Served + k)]
                 /\ \A j \in 0 .. Outstanding - 1 :
                       (Entry(j) = Entry(k) \/ Used_Slot(j) = Used_Slot(k)) => j = k
                 /\ \A i \in 0 .. Served - 1 :
                       Used_Slot(k) # Place(i) /\ Entry(k) # avail.ring[Place(i)]
<1>1. /\ Served \in Nat /\ Outstanding \in Nat /\ Served + Outstanding <= N
      /\ BlkTypeOK /\ DeviceInStep
  BY DriverSlots DEF BlkInv, HeadsInOrder
<1> DEFINE U == Served
           O == Outstanding
<1>2. \A i, j \in 0 .. U + O - 1 : avail.ring[Place(i)] = avail.ring[Place(j)] => i = j
  BY DEF BlkInv, HeadsInOrder
<1>3. N \in Nat /\ U \in Nat /\ O \in Nat /\ U + O <= N
  BY <1>1, RingSizes
<1> HIDE DEF U, O
<1>4. \A i, j \in 0 .. N - 1 : Place(i) = Place(j) => i = j
  BY <1>1, PlacesApart
<1>5. ASSUME NEW k \in 0 .. O - 1
      PROVE  /\ U + k \in 0 .. U + O - 1 /\ U + k \in 0 .. N - 1
             /\ Entry(k) \in Heads /\ Used_Slot(k) \in Slots
             /\ Used_Slot(k) = Place(U + k) /\ Entry(k) = avail.ring[Place(U + k)]
  <2>1. k \in Nat /\ U + k \in 0 .. U + O - 1 /\ U + k \in 0 .. N - 1 /\ U + k \in Int
    BY <1>3
  <2>2. Avail_Slot(k) = Place(U + k) /\ Used_Slot(k) = Place(U + k)
    BY <1>1, <2>1, DeviceSlots DEF U
  <2>3. Place(U + k) \in Slots
    BY <1>1, <2>1, PlaceType
  <2>4. QED
    BY <1>1, <2>1, <2>2, <2>3 DEF Entry, BlkTypeOK
<1>6. ASSUME NEW k \in 0 .. O - 1, NEW j \in 0 .. O - 1,
             Entry(j) = Entry(k) \/ Used_Slot(j) = Used_Slot(k)
      PROVE  j = k
  <2>1. U + j = U + k
    BY <1>2, <1>4, <1>5, <1>6
  <2>2. QED
    BY <1>3, <2>1
<1>7. ASSUME NEW k \in 0 .. O - 1, NEW i \in 0 .. U - 1
      PROVE  Used_Slot(k) # Place(i) /\ Entry(k) # avail.ring[Place(i)]
  <2>1. i \in 0 .. U + O - 1 /\ i \in 0 .. N - 1 /\ i # U + k
    BY <1>3
  <2>2. QED
    BY <1>2, <1>4, <1>5, <2>1
<1>8. QED
  BY <1>1, <1>5, <1>6, <1>7 DEF U, O

\* What a batch leaves: on the used ring the heads in order, behind those that
\* were there; in their buffers, the answers from a disk that each request finds
\* as the one before left it; and all other buffers as they were.
LEMMA BatchServes ==
    ASSUME BlkInv, setUp
    PROVE  \E d \in [0 .. Outstanding -> Disks] :
              /\ d[0] = disk
              /\ \A n \in 1 .. Outstanding : d[n] = Abs!Stored(d[n - 1], desc[Entry(n - 1)])
              /\ Batch \in Batches /\ Batch.disk = d[Outstanding]
              /\ \A k \in 0 .. Outstanding - 1 :
                    /\ Batch.result[Entry(k)] = Abs!Answer(d[k], desc[Entry(k)])
                    /\ Batch.ring[Used_Slot(k)] = Entry(k)
              /\ \A i \in 0 .. Served - 1 : Batch.ring[Place(i)] = used.ring[Place(i)]
              /\ \A h \in Heads :
                    (\A k \in 0 .. Outstanding - 1 : Entry(k) # h) => Batch.result[h] = result[h]
<1>1. Served \in Nat /\ Outstanding \in Nat /\ BlkTypeOK /\ DeviceInStep
  BY Entries DEF BlkInv
<1> DEFINE O == Outstanding
           U == Served
<1>2. PICK f \in [0 .. O -> Batches] :
         /\ f[0] = [disk |-> disk, result |-> result, ring |-> used.ring]
         /\ \A n \in 1 .. O : f[n] = OneServed(n, f[n - 1])
         /\ Batch = f[O]
  BY <1>1, BatchLoop
<1>3. \A k \in 0 .. O - 1 :
         /\ Entry(k) \in Heads /\ Used_Slot(k) \in Slots
         /\ \A j \in 0 .. O - 1 : (Entry(j) = Entry(k) \/ Used_Slot(j) = Used_Slot(k)) => j = k
         /\ \A i \in 0 .. U - 1 : Used_Slot(k) # Place(i)
  BY Entries
<1>4. O \in Nat /\ U \in Nat
  BY <1>1
<1>5. \A i \in 0 .. U - 1 : Place(i) \in Slots
  <2>1. \A i \in 0 .. U - 1 : i \in Int
    BY <1>4
  <2>2. QED
    BY <1>1, <2>1, PlaceType
<1> HIDE DEF O, U
<1> DEFINE Good(n) ==
             /\ \A k \in 0 .. n - 1 :
                   /\ f[n].result[Entry(k)] = Abs!Answer(f[k].disk, desc[Entry(k)])
                   /\ f[n].ring[Used_Slot(k)] = Entry(k)
             /\ \A i \in 0 .. U - 1 : f[n].ring[Place(i)] = used.ring[Place(i)]
             /\ \A h \in Heads :
                   (\A k \in 0 .. n - 1 : Entry(k) # h) => f[n].result[h] = result[h]
           A == {n \in 0 .. O : Good(n)}
<1>6. 0 \in A
  <2>1. f[0].ring = used.ring /\ f[0].result = result
    BY <1>2
  <2>2. QED
    BY <1>4, <2>1
<1>7. ASSUME NEW n \in 1 .. O, Good(n - 1)
      PROVE  Good(n)
  <2> DEFINE m == n - 1
             h == Entry(m)
             s == Used_Slot(m)
             before == f[m]
             next == f[n]
  <2>1. m \in 0 .. O - 1 /\ m \in 0 .. O
    BY <1>4
  <2>2. before \in Batches
    BY <1>2, <2>1
  <2>3. h \in Heads /\ s \in Slots
    BY <1>3, <2>1
  <2>4. next = OneServed(n, before)
    BY <1>2
  <2>5. /\ next.result = [before.result EXCEPT ![h] = Abs!Answer(before.disk, desc[h])]
        /\ next.ring = [before.ring EXCEPT ![s] = h]
    BY <2>4 DEF OneServed
  <2>6. before.result \in [Heads -> Abs!Answers] /\ before.ring \in [Slots -> Heads]
    BY <2>2 DEF Batches
  <2>7. Good(m)
    BY <1>7
  <2>8. \A k \in 0 .. n - 1 : k \in 0 .. O - 1 /\ (k = m \/ (k # m /\ k \in 0 .. m - 1))
    BY <1>4
  <2>9. \A k \in 0 .. m - 1 : k \in 0 .. n - 1
    BY <1>4
  <2>10. \A k \in 0 .. n - 1 :
            /\ next.result[Entry(k)] = Abs!Answer(f[k].disk, desc[Entry(k)])
            /\ next.ring[Used_Slot(k)] = Entry(k)
    <3> SUFFICES ASSUME NEW k \in 0 .. n - 1
                 PROVE  /\ next.result[Entry(k)] = Abs!Answer(f[k].disk, desc[Entry(k)])
                        /\ next.ring[Used_Slot(k)] = Entry(k)
      OBVIOUS
    <3>1. CASE k = m
      <4> HIDE DEF next, m
      <4>1. QED
        BY <2>3, <2>5, <2>6, <3>1
    <3>2. CASE k # m
      <4>1. k \in 0 .. m - 1 /\ k \in 0 .. O - 1
        BY <2>8, <3>2
      <4>2. Entry(k) # h /\ Used_Slot(k) # s /\ Entry(k) \in Heads /\ Used_Slot(k) \in Slots
        BY <1>3, <2>1, <3>2, <4>1
      <4>3. /\ before.result[Entry(k)] = Abs!Answer(f[k].disk, desc[Entry(k)])
            /\ before.ring[Used_Slot(k)] = Entry(k)
        BY <2>7, <4>1
      <4> HIDE DEF next, before, h, s, m
      <4>4. QED
        BY <2>5, <2>6, <4>2, <4>3
    <3>3. QED
      BY <3>1, <3>2
  <2>11. \A i \in 0 .. U - 1 : next.ring[Place(i)] = used.ring[Place(i)]
    <3>1. \A i \in 0 .. U - 1 : s # Place(i) /\ Place(i) \in Slots
      BY <1>3, <1>5, <2>1
    <3>2. \A i \in 0 .. U - 1 : before.ring[Place(i)] = used.ring[Place(i)]
      BY <2>7
    <3> HIDE DEF next, before, h, s, m
    <3>3. QED
      BY <2>5, <2>6, <3>1, <3>2
  <2>12. ASSUME NEW e \in Heads, \A k \in 0 .. n - 1 : Entry(k) # e
         PROVE  next.result[e] = result[e]
    <3>1. before.result[e] = result[e]
      BY <2>7, <2>9, <2>12
    <3>2. m \in 0 .. n - 1
      BY <1>4
    <3>3. h # e
      BY <2>12, <3>2
    <3> HIDE DEF next, before, h, s, m
    <3>4. QED
      BY <2>5, <2>6, <3>1, <3>3
  <2>13. QED
    BY <2>10, <2>11, <2>12
<1> HIDE DEF Good
<1>8. \A n \in 1 .. O : n - 1 \in A => n \in A
  BY <1>7
<1> HIDE DEF A
<1>9. \A n \in 0 .. O : n \in A
  BY <1>4, <1>6, <1>8, UpTo
<1>10. Good(O)
  <2>1. O \in 0 .. O
    BY <1>4
  <2>2. QED
    BY <1>9, <2>1 DEF A
<1> DEFINE d == [n \in 0 .. O |-> f[n].disk]
<1>11. d \in [0 .. O -> Disks]
  BY <1>2 DEF Batches
<1>12. \A n \in 1 .. O : d[n] = Abs!Stored(d[n - 1], desc[Entry(n - 1)])
  <2> SUFFICES ASSUME NEW n \in 1 .. O
               PROVE  d[n] = Abs!Stored(d[n - 1], desc[Entry(n - 1)])
    OBVIOUS
  <2>1. n \in 0 .. O /\ n - 1 \in 0 .. O
    BY <1>4
  <2>2. f[n] = OneServed(n, f[n - 1])
    BY <1>2
  <2>3. f[n].disk = Abs!Stored(f[n - 1].disk, desc[Entry(n - 1)])
    BY <2>2 DEF OneServed
  <2>4. QED
    BY <2>1, <2>3
<1>13. d[0] = disk /\ Batch.disk = d[O] /\ Batch \in Batches
  <2>1. 0 \in 0 .. O /\ O \in 0 .. O
    BY <1>4
  <2>2. f[0].disk = disk
    BY <1>2
  <2>3. QED
    BY <1>2, <2>1, <2>2
<1>14. \A k \in 0 .. O - 1 :
          /\ Batch.result[Entry(k)] = Abs!Answer(d[k], desc[Entry(k)])
          /\ Batch.ring[Used_Slot(k)] = Entry(k)
  <2>1. \A k \in 0 .. O - 1 : k \in 0 .. O
    BY <1>4
  <2>2. \A k \in 0 .. O - 1 : d[k] = f[k].disk
    BY <2>1
  <2> HIDE DEF d
  <2>3. QED
    BY <1>2, <1>10, <2>2 DEF Good
<1> HIDE DEF d
<1>15. /\ \A i \in 0 .. U - 1 : Batch.ring[Place(i)] = used.ring[Place(i)]
       /\ \A h \in Heads :
             (\A k \in 0 .. O - 1 : Entry(k) # h) => Batch.result[h] = result[h]
  BY <1>2, <1>10 DEF Good
<1>16. QED
  BY <1>11, <1>12, <1>13, <1>14, <1>15 DEF O, U

----------------------------------------------------------------------------
(* VirtIO: how each action moves round the rings.                          *)

\* Where the rings stand, as congruences.
LEMMA RingCongruences ==
    ASSUME BlkInv, setUp
    PROVE  /\ Served \in Nat /\ Outstanding \in Nat /\ Served + Outstanding < IdxMod
           /\ Last_Avail_Idx \in Int /\ usedTail \in Int /\ avail.idx \in Int /\ used.idx \in Int
           /\ Congruent(usedTail + Served, Last_Avail_Idx, IdxMod)
           /\ Congruent(used.idx, Last_Avail_Idx, IdxMod)
           /\ Congruent(Last_Avail_Idx + Outstanding, avail.idx, IdxMod)
<1>1. /\ Served \in Nat /\ Outstanding \in Nat /\ Served + Outstanding <= N
      /\ BlkTypeOK /\ DeviceInStep
  BY Entries DEF BlkInv
<1>2. Served + Outstanding < IdxMod
  BY <1>1, RingSizes
<1>3. Last_Avail_Idx \in Int /\ usedTail \in Int /\ avail.idx \in Int /\ used.idx \in Int
  BY <1>1, RingSizes DEF BlkTypeOK
<1>4. Congruent(used.idx, Last_Avail_Idx, IdxMod)
  <2> DEFINE l == Last_Avail_Idx
  <2>1. used.idx = l % IdxMod /\ l \in Int
    BY <1>1, <1>3 DEF DeviceInStep
  <2> HIDE DEF l
  <2>2. Congruent(l % IdxMod, l, IdxMod)
    BY <2>1, RingSizes, CongruentRest
  <2>3. QED
    BY <2>1, <2>2 DEF l
<1>5. /\ Congruent(usedTail + Served, used.idx, IdxMod)
      /\ Congruent(Last_Avail_Idx + Outstanding, avail.idx, IdxMod)
  <2> DEFINE l == Last_Avail_Idx
             t == usedTail
             a == avail.idx
             u == used.idx
  <2>1. l \in Int /\ t \in Int /\ a \in Int /\ u \in Int
    BY <1>3
  <2> HIDE DEF l, t, a, u
  <2>2. /\ Congruent(t + ((u - t) % IdxMod), u, IdxMod)
        /\ Congruent(l + ((a - l) % IdxMod), a, IdxMod)
    BY <2>1, RingSizes, RingOffset
  <2>3. QED
    BY <2>2 DEF l, t, a, u, Served, Outstanding
<1>6. QED
  BY <1>1, <1>2, <1>3, <1>4, <1>5 DEF Congruent

LEMMA ProcessRings ==
    ASSUME BlkInv, setUp, Process_Queue, UNCHANGED driver
    PROVE  /\ Served' = Served + Outstanding /\ Outstanding' = 0
           /\ used'.idx = Last_Avail_Idx' % IdxMod /\ Used_Idx' = Last_Avail_Idx'
           /\ Last_Avail_Idx' \in 0 .. WordMod - 1 /\ used'.idx \in 0 .. IdxMod - 1
           /\ used'.ring = Batch.ring
<1> DEFINE l == Last_Avail_Idx
           m == Last_Avail_Idx'
           t == usedTail
           a == avail.idx
           v == used'.idx
           i == Served
           j == Outstanding
           e == l + j
           b == a - m
           c == v - t
           z == e - t
<1>1. /\ i \in Nat /\ j \in Nat /\ i + j < IdxMod
      /\ l \in Int /\ t \in Int /\ a \in Int
      /\ Congruent(t + i, l, IdxMod) /\ Congruent(l + j, a, IdxMod)
  BY RingCongruences
<1>2. /\ m = e % WordMod /\ v = e % IdxMod /\ Used_Idx' = m
      /\ usedTail' = t /\ avail' = avail /\ used'.ring = Batch.ring
  BY DEF Process_Queue, IndexAfter, driver, BlkInv, DeviceInStep
<1>3. Served' = c % IdxMod /\ Outstanding' = b % IdxMod
  BY <1>2 DEF Served, Outstanding
<1> HIDE DEF l, m, t, a, v, i, j
<1>4. e \in Int /\ Congruent(e, a, IdxMod)
  BY <1>1
<1> HIDE DEF e
<1>5. m \in 0 .. WordMod - 1 /\ v \in 0 .. IdxMod - 1
  BY <1>2, <1>4, RingSizes, ModRange
<1>6. Congruent(m, e, IdxMod)
  <2>1. (e % WordMod) % IdxMod = e % IdxMod
    BY <1>4, RingSizes, ModMod
  <2>2. QED
    BY <1>2, <2>1 DEF Congruent
<1>7. v = m % IdxMod
  BY <1>2, <1>6 DEF Congruent
<1>8. Congruent(v, e, IdxMod)
  <2>1. Congruent(e % IdxMod, e, IdxMod)
    BY <1>4, RingSizes, CongruentRest
  <2>2. QED
    BY <1>2, <2>1
<1>9. Outstanding' = 0
  <2>1. m \in Int /\ b \in Int /\ b - a = 0 - m /\ Congruent(a, m, IdxMod) /\ 0 \in Int
    BY <1>1, <1>4, <1>5, <1>6, RingSizes DEF Congruent
  <2> HIDE DEF b
  <2>2. Congruent(b, 0, IdxMod)
    BY <1>1, <2>1, RingSizes, CongruentMoved
  <2>3. 0 \in 0 .. IdxMod - 1
    BY RingSizes
  <2>4. b % IdxMod = 0
    BY <2>1, <2>2, <2>3, RingSizes, RestIs
  <2>5. QED
    BY <1>3, <2>4
<1>10. Served' = i + j
  <2>1. Congruent(l + j, e, IdxMod)
    BY DEF e, Congruent
  <2>2. (e - t) % IdxMod = i + j /\ Congruent(t + (i + j), e, IdxMod)
    BY <1>1, <1>4, <2>1, RingSizes, CongruentSum, Zenon
  <2>3. c \in Int /\ z \in Int /\ c - v = z - e /\ v \in Int
    BY <1>1, <1>4, <1>5, RingSizes
  <2> HIDE DEF c, z
  <2>4. Congruent(c, z, IdxMod)
    BY <1>4, <1>8, <2>3, RingSizes, CongruentMoved
  <2>5. QED
    BY <1>3, <2>2, <2>4 DEF Congruent, z
<1>11. QED
  BY <1>2, <1>5, <1>7, <1>9, <1>10 DEF i, j, m, v

LEMMA SubmitRings ==
    ASSUME BlkInv, setUp, (avail.idx - usedTail) % IdxMod < N,
           UNCHANGED <<queue, used, usedTail>>, avail'.idx = (avail.idx + 1) % IdxMod
    PROVE  /\ Served + Outstanding < N
           /\ Served' = Served /\ Outstanding' = Outstanding + 1
           /\ avail'.idx \in 0 .. IdxMod - 1
<1> DEFINE l == Last_Avail_Idx
           a == avail.idx
           b == a + 1
           n == avail'.idx
           j == Outstanding
           k == j + 1
           x == n - l
           e == l + j
<1>1. /\ j \in Nat /\ Served \in Nat /\ l \in Int /\ a \in Int
      /\ Congruent(e, a, IdxMod) /\ Served + j < N
  <2>1. (avail.idx - usedTail) % IdxMod = Served + Outstanding
    BY Entries, DriverSlots DEF BlkInv
  <2>2. QED
    BY <2>1, RingCongruences
<1>2. n = b % IdxMod /\ b \in Int
  BY <1>1
<1>3. Served' = Served /\ Outstanding' = x % IdxMod
  BY DEF Served, Outstanding, queue
<1> HIDE DEF l, a, n, j
<1>4. Congruent(n, b, IdxMod) /\ n \in 0 .. IdxMod - 1
  <2> HIDE DEF b
  <2>1. Congruent(b % IdxMod, b, IdxMod) /\ b % IdxMod \in 0 .. IdxMod - 1
    BY <1>2, RingSizes, CongruentRest
  <2>2. QED
    BY <1>2, <2>1
<1>5. k \in 0 .. IdxMod - 1
  BY <1>1, RingSizes
<1>6. /\ e \in Int /\ x \in Int /\ k \in Int /\ n \in Int
      /\ b - a = (e + 1) - e /\ e + 1 \in Int
  BY <1>1, <1>4, RingSizes
<1> DEFINE f == e + 1
<1>7. f \in Int /\ f - e = b - a /\ k - f = x - n
  BY <1>1, <1>4, RingSizes
<1> HIDE DEF e, b, k, x, f
<1>8. Congruent(f, b, IdxMod)
  BY <1>1, <1>2, <1>6, <1>7, RingSizes, CongruentMoved
<1>9. Congruent(f, n, IdxMod)
  BY <1>4, <1>8 DEF Congruent
<1>10. Congruent(k, x, IdxMod)
  BY <1>6, <1>7, <1>9, RingSizes, CongruentMoved
<1>11. x % IdxMod = k
  <2>1. Congruent(x, k, IdxMod)
    BY <1>10 DEF Congruent
  <2>2. QED
    BY <1>5, <1>6, <2>1, RingSizes, RestIs
<1>12. QED
  BY <1>1, <1>3, <1>4, <1>11 DEF k, j, n

LEMMA TakeRings ==
    ASSUME BlkInv, setUp, usedTail # used.idx, usedTail' = (usedTail + 1) % IdxMod,
           UNCHANGED <<queue, avail, used>>
    PROVE  /\ Served > 0 /\ Served' = Served - 1 /\ Outstanding' = Outstanding
           /\ usedTail' \in 0 .. IdxMod - 1
           /\ \A k \in Nat : Place(k)' = Place(k + 1)
<1> DEFINE t == usedTail
           n == usedTail'
           u == used.idx
           b == t + 1
           i == Served
           w == u - t
           x == u - n
           k == i - 1
<1>1. /\ t \in Int /\ u \in Int /\ i \in Nat /\ b \in Int /\ w \in Int /\ i < IdxMod
      /\ t \in 0 .. IdxMod - 1 /\ u \in 0 .. IdxMod - 1
  BY RingCongruences, RingSizes DEF BlkInv, BlkTypeOK
<1>2. n = b % IdxMod /\ i = w % IdxMod
  BY DEF Served
<1>3. Served' = x % IdxMod /\ Outstanding' = Outstanding
  BY DEF Served, Outstanding, queue
<1>4. u # t
  OBVIOUS
<1>5. \A m \in Nat : Place(m)' = (n + m) % N /\ Place(m + 1) = (t + (m + 1)) % N
  BY DEF Place
<1> HIDE DEF t, n, u, i
<1>6. Congruent(n, b, IdxMod) /\ n \in 0 .. IdxMod - 1
  <2> HIDE DEF b
  <2>1. Congruent(b % IdxMod, b, IdxMod) /\ b % IdxMod \in 0 .. IdxMod - 1
    BY <1>1, RingSizes, CongruentRest
  <2>2. QED
    BY <1>2, <2>1
<1>7. Congruent(i, w, IdxMod)
  <2> HIDE DEF w
  <2>1. Congruent(w % IdxMod, w, IdxMod)
    BY <1>1, RingSizes, CongruentRest
  <2>2. QED
    BY <1>2, <2>1
<1>8. i > 0
  <2> SUFFICES ASSUME i = 0
               PROVE  FALSE
    BY <1>1
  <2>1. Congruent(w, 0, IdxMod) /\ u - w = t - 0 /\ 0 \in Int
    BY <1>1, <1>7 DEF Congruent
  <2> HIDE DEF w
  <2>2. Congruent(u, t, IdxMod)
    BY <1>1, <2>1, RingSizes, CongruentMoved
  <2>3. u - t \in (1 - IdxMod) .. IdxMod - 1
    BY <1>1, RingSizes
  <2>4. u = t
    BY <1>1, <2>2, <2>3, RingSizes, CongruentEqual
  <2>5. QED
    BY <1>4, <2>4
<1>9. Served' = k
  <2> DEFINE y == w - 1
  <2>1. /\ k \in Int /\ k \in 0 .. IdxMod - 1 /\ y \in Int /\ x \in Int /\ n \in Int /\ i \in Int
        /\ k - i = y - w /\ b - n = x - y
    BY <1>1, <1>6, <1>8, RingSizes
  <2>2. x - b = y - n
    BY <1>1, <2>1
  <2> HIDE DEF b, w, x, k, y
  <2>3. Congruent(k, y, IdxMod)
    BY <1>1, <1>7, <2>1, RingSizes, CongruentMoved
  <2>4. Congruent(b, n, IdxMod)
    BY <1>6 DEF Congruent
  <2>5. Congruent(x, y, IdxMod)
    BY <1>1, <2>1, <2>2, <2>4, RingSizes, CongruentMoved
  <2>6. Congruent(x, k, IdxMod)
    BY <2>3, <2>5 DEF Congruent
  <2>7. x % IdxMod = k
    BY <2>1, <2>6, RingSizes, RestIs
  <2>8. QED
    BY <1>3, <2>7
<1>10. ASSUME NEW m \in Nat
       PROVE  (n + m) % N = (t + (m + 1)) % N
  <2> DEFINE p == n + m
             q == t + (m + 1)
  <2>1. n \in Int /\ p \in Int /\ q \in Int /\ p - n = q - b
    BY <1>1, <1>6, RingSizes
  <2> HIDE DEF b, p, q
  <2>2. Congruent(n, b, N)
    BY <1>1, <1>6, <2>1, RingSizes, CongruentCoarser
  <2>3. Congruent(p, q, N)
    BY <1>1, <2>1, <2>2, RingSizes, CongruentMoved
  <2>4. QED
    BY <2>3 DEF Congruent, p, q
<1>11. QED
  BY <1>3, <1>5, <1>6, <1>8, <1>9, <1>10 DEF i, n

----------------------------------------------------------------------------
(* VirtIO: the invariant.                                                  *)

LEMMA BlkInitInv ==
    ASSUME BlkInit
    PROVE  BlkInv
<1>1. BlkTypeOK
  <2>1. (CHOOSE h \in Heads : TRUE) \in Heads
    BY VirtioAssumption
  <2>2. 0 \in 0 .. IdxMod - 1 /\ 0 \in 0 .. WordMod - 1
    BY RingSizes
  <2>3. NoRequest \in Abs!Requests /\ NoAnswer \in Abs!Answers
    <3>1. MaxSectors \in 0 .. MaxSectors
      BY VirtioAssumption
    <3>2. QED
      BY <3>1 DEF NoRequest, NoAnswer, Abs!Requests, Abs!Answers
  <2>4. avail \in [idx : 0 .. IdxMod - 1, ring : [Slots -> Heads]]
    BY <2>1, <2>2 DEF BlkInit
  <2>5. QED
    BY <2>2, <2>3, <2>4 DEF BlkInit, BlkTypeOK
<1>2. Served = 0 /\ Outstanding = 0
  <2>1. 0 - 0 = 0 /\ 0 % IdxMod = 0
    BY RingSizes
  <2>2. QED
    BY <2>1 DEF BlkInit, Served, Outstanding
<1>3. DeviceInStep
  <2>1. 0 % IdxMod = 0
    BY RingSizes
  <2>2. QED
    BY <2>1 DEF BlkInit, DeviceInStep
<1>4. HeadsInOrder
  <2>1. 0 + 0 <= N
    BY RingSizes
  <2>2. QED
    BY <1>2, <2>1 DEF HeadsInOrder
<1>5. QED
  BY <1>1, <1>3, <1>4 DEF BlkInv

\* A step that leaves the rings and the counters alone.
LEMMA StillKeeps ==
    ASSUME BlkInv, UNCHANGED <<disk, used, result, driver, Last_Avail_Idx, Used_Idx>>,
           {QueueReady', Notify_Pending', InterruptStatus'} \subseteq BOOLEAN,
           ~setUp => ~QueueReady'
    PROVE  BlkInv'
<1>1. BlkTypeOK'
  BY DEF BlkInv, BlkTypeOK, driver
<1>2. DeviceInStep'
  BY DEF BlkInv, DeviceInStep, driver
<1>3. Served' = Served /\ Outstanding' = Outstanding /\ \A k : Place(k)' = Place(k)
  BY DEF Served, Outstanding, Place, driver
<1>4. HeadsInOrder'
  BY <1>3 DEF BlkInv, HeadsInOrder, driver
<1>5. QED
  BY <1>1, <1>2, <1>4 DEF BlkInv

LEMMA ProcessKeeps ==
    ASSUME BlkInv, setUp, Process_Queue, UNCHANGED driver, QueueReady' \in BOOLEAN
    PROVE  BlkInv'
<1>1. /\ Served' = Served + Outstanding /\ Outstanding' = 0
      /\ used'.idx = Last_Avail_Idx' % IdxMod /\ Used_Idx' = Last_Avail_Idx'
      /\ Last_Avail_Idx' \in 0 .. WordMod - 1 /\ used'.idx \in 0 .. IdxMod - 1
      /\ used'.ring = Batch.ring
  BY ProcessRings
<1>2. BlkTypeOK /\ DeviceInStep /\ HeadsInOrder
  BY DEF BlkInv
<1>3. /\ Batch \in Batches
      /\ \A k \in 0 .. Outstanding - 1 : Batch.ring[Used_Slot(k)] = Entry(k)
      /\ \A i \in 0 .. Served - 1 : Batch.ring[Place(i)] = used.ring[Place(i)]
  BY BatchServes
<1>4. BlkTypeOK'
  <2>1. /\ disk' \in Disks /\ result' \in [Heads -> Abs!Answers]
        /\ Batch.ring \in [Slots -> Heads]
    BY <1>3 DEF Process_Queue, Batches
  <2>2. used' = [idx |-> used'.idx, ring |-> Batch.ring]
    BY DEF Process_Queue
  <2>3. used' \in [idx : 0 .. IdxMod - 1, ring : [Slots -> Heads]]
    BY <1>1, <2>1, <2>2
  <2>4. InterruptStatus' = TRUE /\ Notify_Pending' = FALSE
    BY DEF Process_Queue
  <2>5. avail' = avail /\ desc' = desc /\ usedTail' = usedTail /\ setUp' = setUp
    BY DEF driver
  <2>6. Used_Idx' \in 0 .. WordMod - 1 /\ Last_Avail_Idx' \in 0 .. WordMod - 1
    BY <1>1
  <2>7. QED
    BY <1>2, <2>1, <2>3, <2>4, <2>5, <2>6 DEF BlkTypeOK, Disks
<1>5. DeviceInStep'
  BY <1>1 DEF DeviceInStep, driver
<1>6. HeadsInOrder'
  <2>1. \A k : Place(k)' = Place(k)
    BY DEF Place, driver
  <2>2. avail' = avail
    BY DEF driver
  <2> DEFINE U == Served
             O == Outstanding
  <2>3. /\ U \in Nat /\ O \in Nat /\ U + O <= N
        /\ \A k \in 0 .. O - 1 :
              Used_Slot(k) = Place(U + k) /\ Entry(k) = avail.ring[Place(U + k)]
    BY Entries
  <2>4. /\ \A i, j \in 0 .. U + O - 1 : avail.ring[Place(i)] = avail.ring[Place(j)] => i = j
        /\ \A i \in 0 .. U - 1 : used.ring[Place(i)] = avail.ring[Place(i)]
    BY <1>2 DEF HeadsInOrder
  <2>5. /\ \A k \in 0 .. O - 1 : Batch.ring[Used_Slot(k)] = Entry(k)
        /\ \A i \in 0 .. U - 1 : Batch.ring[Place(i)] = used.ring[Place(i)]
    BY <1>3
  <2>6. Served' = U + O /\ Outstanding' = 0
    BY <1>1
  <2> HIDE DEF U, O
  <2>7. ASSUME NEW i \in 0 .. U + O - 1
        PROVE  Batch.ring[Place(i)] = avail.ring[Place(i)]
    <3>1. CASE i < U
      <4>1. i \in 0 .. U - 1
        BY <2>3, <3>1
      <4>2. QED
        BY <2>4, <2>5, <4>1
    <3>2. CASE U <= i
      <4> DEFINE k == i - U
      <4>1. k \in 0 .. O - 1 /\ U + k = i
        BY <2>3, <3>2
      <4> HIDE DEF k
      <4>2. QED
        BY <2>3, <2>5, <4>1
    <3>3. QED
      BY <2>3, <3>1, <3>2
  <2>8. /\ U + O + 0 = U + O
        /\ Served' + Outstanding' = U + O
    BY <2>3, <2>6
  <2>9. QED
    BY <1>1, <2>1, <2>2, <2>3, <2>4, <2>6, <2>7, <2>8 DEF HeadsInOrder
<1>7. QED
  BY <1>4, <1>5, <1>6 DEF BlkInv

LEMMA SubmitKeeps ==
    ASSUME BlkInv, Submit
    PROVE  BlkInv'
<1>1. PICK h \in Heads \ InFlight, r \in Abs!Requests :
         /\ desc' = [desc EXCEPT ![h] = r]
         /\ avail' = [idx |-> (avail.idx + 1) % IdxMod,
                      ring |-> [avail.ring EXCEPT ![avail.idx % N] = h]]
  BY DEF Submit
<1>2. /\ setUp /\ (avail.idx - usedTail) % IdxMod < N /\ setUp' = setUp
      /\ UNCHANGED <<queue, disk, used, result, usedTail>>
      /\ avail'.idx = (avail.idx + 1) % IdxMod
  BY <1>1 DEF Submit
<1>3. /\ Served + Outstanding < N
      /\ Served' = Served /\ Outstanding' = Outstanding + 1
      /\ avail'.idx \in 0 .. IdxMod - 1
  BY <1>2, SubmitRings
<1>4. BlkTypeOK /\ DeviceInStep /\ HeadsInOrder
  BY DEF BlkInv
<1>5. BlkTypeOK'
  <2>1. avail.ring \in [Slots -> Heads] /\ desc \in [Heads -> Abs!Requests]
    BY <1>4 DEF BlkTypeOK
  <2>2. avail' = [idx |-> avail'.idx, ring |-> [avail.ring EXCEPT ![avail.idx % N] = h]]
    BY <1>1
  <2>3. avail' \in [idx : 0 .. IdxMod - 1, ring : [Slots -> Heads]]
    BY <1>3, <2>1, <2>2
  <2>4. desc' \in [Heads -> Abs!Requests]
    BY <1>1, <2>1
  <2>5. QED
    BY <1>2, <1>4, <2>3, <2>4 DEF BlkTypeOK, queue
<1>6. DeviceInStep'
  BY <1>2, <1>4 DEF DeviceInStep, queue
<1>7. HeadsInOrder'
  <2> DEFINE U == Served
             O == Outstanding
             F == U + O
  <2>1. U \in Nat /\ O \in Nat /\ avail.idx % N = Place(F) /\ N \in Nat
    BY <1>2, <1>4, Entries, DriverSlots, RingSizes DEF BlkInv
  <2>2. \A k \in 0 .. F - 1 : avail.ring[Place(k)] \in InFlight
    <3> SUFFICES ASSUME NEW k \in 0 .. Served + Outstanding - 1
                 PROVE  avail.ring[Place(k)] \in InFlight
      BY <2>1
    <3>1. Served + Outstanding <= N
      BY <1>2, Entries
    <3>2. QED
      BY <1>2, <1>4, <3>1, PlacesInFlight
  <2>3. \A i, j \in 0 .. F - 1 : avail.ring[Place(i)] = avail.ring[Place(j)] => i = j
    BY <1>2, <1>4, <2>1 DEF HeadsInOrder
  <2>4. \A i \in 0 .. U - 1 : used.ring[Place(i)] = avail.ring[Place(i)]
    BY <1>2, <1>4 DEF HeadsInOrder
  <2>5. F < N /\ Served' = U /\ Outstanding' = O + 1
    BY <1>3
  <2>6. \A k : Place(k)' = Place(k)
    BY <1>2 DEF Place
  <2> HIDE DEF U, O
  <2>7. F \in 0 .. N - 1 /\ F \in Nat /\ F + 1 <= N /\ U <= F /\ Served' + Outstanding' = F + 1
    BY <2>1, <2>5
  <2> HIDE DEF F
  <2>8. Place(F) \in Slots /\ avail.ring \in [Slots -> Heads]
    <3>1. F \in Int
      BY <2>7
    <3>2. QED
      BY <1>4, <3>1, PlaceType DEF BlkTypeOK
  <2>9. avail'.ring = [avail.ring EXCEPT ![Place(F)] = h]
    BY <1>1, <2>1
  <2>10. avail'.ring[Place(F)] = h
    BY <2>8, <2>9
  <2>11. ASSUME NEW k \in 0 .. F - 1
         PROVE  avail'.ring[Place(k)] = avail.ring[Place(k)] /\ avail.ring[Place(k)] # h
    <3>1. k \in 0 .. N - 1 /\ k # F /\ k \in Int
      BY <2>1, <2>7
    <3>2. Place(k) # Place(F) /\ Place(k) \in Slots
      BY <1>4, <2>7, <3>1, PlacesApart, PlaceType
    <3>3. QED
      BY <1>1, <2>2, <2>8, <2>9, <3>2
  <2>12. ASSUME NEW i \in 0 .. F + 1 - 1, NEW j \in 0 .. F + 1 - 1,
                avail'.ring[Place(i)] = avail'.ring[Place(j)]
         PROVE  i = j
    <3>1. (i = F \/ i \in 0 .. F - 1) /\ (j = F \/ j \in 0 .. F - 1)
      BY <2>7
    <3>2. QED
      BY <2>3, <2>10, <2>11, <2>12, <3>1
  <2>13. \A i \in 0 .. U - 1 : used.ring[Place(i)] = avail'.ring[Place(i)]
    <3>1. \A i \in 0 .. U - 1 : i \in 0 .. F - 1
      BY <2>1, <2>7
    <3>2. QED
      BY <2>4, <2>11, <3>1
  <2>14. used' = used /\ Served' = U
    BY <1>2, <2>5
  <2> DEFINE total == Served' + Outstanding'
  <2>15. total <= N /\ total - 1 = F
    BY <2>7
  <2>16. \A i, j \in 0 .. total - 1 : avail'.ring[Place(i)'] = avail'.ring[Place(j)'] => i = j
    <3> HIDE DEF total
    <3>1. QED
      BY <2>6, <2>7, <2>12, <2>15
  <2>17. \A i \in 0 .. Served' - 1 : used'.ring[Place(i)'] = avail'.ring[Place(i)']
    BY <2>6, <2>13, <2>14
  <2>18. QED
    BY <2>1, <2>5, <2>15, <2>16, <2>17 DEF HeadsInOrder
<1>8. QED
  BY <1>5, <1>6, <1>7 DEF BlkInv

LEMMA TakeKeeps ==
    ASSUME BlkInv, Take
    PROVE  BlkInv'
<1>1. /\ setUp /\ setUp' = setUp /\ usedTail # used.idx
      /\ usedTail' = (usedTail + 1) % IdxMod
      /\ UNCHANGED <<queue, disk, used, result, avail, desc>>
  BY DEF Take
<1>2. /\ Served > 0 /\ Served' = Served - 1 /\ Outstanding' = Outstanding
      /\ usedTail' \in 0 .. IdxMod - 1
      /\ \A k \in Nat : Place(k)' = Place(k + 1)
  BY <1>1, TakeRings
<1>3. BlkTypeOK /\ DeviceInStep /\ HeadsInOrder
  BY DEF BlkInv
<1>4. BlkTypeOK'
  BY <1>1, <1>2, <1>3 DEF BlkTypeOK, queue
<1>5. DeviceInStep'
  BY <1>1, <1>3 DEF DeviceInStep, queue
<1>6. HeadsInOrder'
  <2> DEFINE U == Served
             O == Outstanding
  <2>1. U \in Nat /\ O \in Nat /\ U + O <= N /\ N \in Nat
    BY <1>1, Entries, RingSizes
  <2>2. /\ \A i, j \in 0 .. U + O - 1 : avail.ring[Place(i)] = avail.ring[Place(j)] => i = j
        /\ \A i \in 0 .. U - 1 : used.ring[Place(i)] = avail.ring[Place(i)]
    BY <1>1, <1>3 DEF HeadsInOrder
  <2>3. U > 0 /\ Served' = U - 1 /\ Outstanding' = O
    BY <1>2
  <2> HIDE DEF U, O
  <2>4. (U - 1) + O <= N
    BY <2>1
  <2>5. ASSUME NEW i \in 0 .. (U - 1) + O - 1, NEW j \in 0 .. (U - 1) + O - 1,
               avail'.ring[Place(i)'] = avail'.ring[Place(j)']
        PROVE  i = j
    <3>1. /\ i \in Nat /\ i + 1 \in 0 .. U + O - 1
          /\ j \in Nat /\ j + 1 \in 0 .. U + O - 1
      BY <2>1, <2>3
    <3>2. avail.ring[Place(i + 1)] = avail.ring[Place(j + 1)]
      BY <1>1, <1>2, <2>5, <3>1
    <3>3. i + 1 = j + 1
      BY <2>2, <3>1, <3>2
    <3>4. QED
      BY <3>1, <3>3
  <2>6. ASSUME NEW i \in 0 .. (U - 1) - 1
        PROVE  used'.ring[Place(i)'] = avail'.ring[Place(i)']
    <3>1. i \in Nat /\ i + 1 \in 0 .. U - 1
      BY <2>1, <2>3
    <3>2. used.ring[Place(i + 1)] = avail.ring[Place(i + 1)]
      BY <2>2, <3>1
    <3>3. QED
      BY <1>1, <1>2, <3>1, <3>2
  <2>7. QED
    BY <2>3, <2>4, <2>5, <2>6 DEF HeadsInOrder
<1>7. QED
  BY <1>4, <1>5, <1>6 DEF BlkInv

\* The driver zeroes the rings of a device that a reset has put back to 0.
LEMMA SetUpRings ==
    ASSUME BlkInv, SetUp
    PROVE  BlkInv' /\ Served' = 0 /\ Outstanding' = 0
<1>1. /\ ~setUp /\ setUp' = TRUE /\ usedTail' = 0
      /\ avail' = [avail EXCEPT !.idx = 0] /\ used' = [used EXCEPT !.idx = 0]
      /\ UNCHANGED <<queue, disk, result, desc>>
  BY DEF SetUp
<1>2. BlkTypeOK /\ Last_Avail_Idx = 0 /\ Used_Idx = 0 /\ ~QueueReady
  BY <1>1 DEF BlkInv, DeviceInStep
<1>3. 0 \in 0 .. IdxMod - 1 /\ 0 - 0 = 0 /\ 0 % IdxMod = 0 /\ 0 + 0 <= N
  BY RingSizes
<1>4. /\ avail' \in [idx : 0 .. IdxMod - 1, ring : [Slots -> Heads]] /\ avail'.idx = 0
      /\ used' \in [idx : 0 .. IdxMod - 1, ring : [Slots -> Heads]] /\ used'.idx = 0
  BY <1>1, <1>2, <1>3 DEF BlkTypeOK
<1>5. BlkTypeOK'
  BY <1>1, <1>2, <1>3, <1>4 DEF BlkTypeOK, queue
<1>6. Last_Avail_Idx' = 0 /\ Used_Idx' = 0
  BY <1>1, <1>2 DEF queue
<1>7. Served' = 0 /\ Outstanding' = 0
  BY <1>1, <1>3, <1>4, <1>6 DEF Served, Outstanding
<1>8. DeviceInStep'
  BY <1>1, <1>3, <1>4, <1>6 DEF DeviceInStep
<1>9. HeadsInOrder'
  BY <1>3, <1>7 DEF HeadsInOrder
<1>10. QED
  BY <1>5, <1>7, <1>8, <1>9 DEF BlkInv

LEMMA ResetKeeps ==
    ASSUME BlkInv, Reset
    PROVE  BlkInv'
<1>1. 0 \in 0 .. WordMod - 1
  BY RingSizes
<1>2. /\ Last_Avail_Idx' = 0 /\ Used_Idx' = 0 /\ setUp' = FALSE
      /\ QueueReady' = FALSE /\ Notify_Pending' = FALSE /\ InterruptStatus' = FALSE
      /\ UNCHANGED <<disk, result, used, avail, desc, usedTail>>
  BY DEF Reset, CounterAfterReset
<1>3. BlkTypeOK'
  BY <1>1, <1>2 DEF BlkInv, BlkTypeOK
<1>4. DeviceInStep' /\ HeadsInOrder'
  BY <1>2 DEF DeviceInStep, HeadsInOrder
<1>5. QED
  BY <1>3, <1>4 DEF BlkInv

LEMMA BlkInvariant == BlkSpec => []BlkInv
<1>1. BlkInit => BlkInv
  BY BlkInitInv
<1>2. BlkInv /\ [BlkNext]_blkVars => BlkInv'
  <2> SUFFICES ASSUME BlkInv, [BlkNext]_blkVars
               PROVE  BlkInv'
    OBVIOUS
  <2>1. BlkTypeOK /\ (~setUp => ~QueueReady)
    BY DEF BlkInv, DeviceInStep
  <2>2. CASE Notify
    <3>1. setUp /\ UNCHANGED <<QueueReady, driver>>
      BY <2>2 DEF Notify
    <3>2. CASE Process_Queue
      BY <2>1, <3>1, <3>2, ProcessKeeps DEF BlkTypeOK
    <3>3. CASE ~QueueReady /\ Notify_Pending' = TRUE /\ Idle /\ UNCHANGED InterruptStatus
      BY <2>1, <3>1, <3>3, StillKeeps DEF BlkTypeOK, Idle
    <3>4. QED
      BY <2>2, <3>2, <3>3 DEF Notify
  <2>3. CASE MakeReady
    <3>1. setUp /\ QueueReady' = TRUE /\ UNCHANGED driver
      BY <2>3 DEF MakeReady
    <3>2. CASE Process_Queue
      BY <3>1, <3>2, ProcessKeeps
    <3>3. CASE Idle /\ UNCHANGED <<Notify_Pending, InterruptStatus>>
      BY <2>1, <3>1, <3>3, StillKeeps DEF BlkTypeOK, Idle
    <3>4. QED
      BY <2>3, <3>2, <3>3 DEF MakeReady
  <2>4. CASE MakeUnready
    BY <2>1, <2>4, StillKeeps DEF MakeUnready, BlkTypeOK, Idle
  <2>5. CASE Acknowledge
    BY <2>1, <2>5, StillKeeps DEF Acknowledge, BlkTypeOK, Idle
  <2>6. CASE UNCHANGED blkVars
    BY <2>1, <2>6, StillKeeps DEF blkVars, queue, BlkTypeOK
  <2>7. QED
    BY <2>2, <2>3, <2>4, <2>5, <2>6, ResetKeeps, SubmitKeeps, TakeKeeps, SetUpRings DEF BlkNext
<1>3. QED
  BY <1>1, <1>2, PTL DEF BlkSpec

----------------------------------------------------------------------------
(* VirtIO: the device implements BlockQueue.                               *)

LEMMA SameEffect ==
    ASSUME NEW d, NEW r
    PROVE  Queue!Stored(d, r) = Abs!Stored(d, r) /\ Queue!Answer(d, r) = Abs!Answer(d, r)
  BY DEF Queue!Stored, Abs!Stored, Queue!Answer, Abs!Answer, Queue!Sectors, Abs!Sectors

\* The abstract queues, by what the invariant says of the rings.
LEMMA TodoIs ==
    ASSUME BlkInv, setUp
    PROVE  /\ Todo \in Seq(Heads \X Abs!Requests) /\ Len(Todo) = Outstanding
           /\ \A n \in 1 .. Outstanding : Todo[n] = <<Entry(n - 1), desc[Entry(n - 1)]>>
<1> DEFINE O == Outstanding
           S == Heads \X Abs!Requests
<1>1. O \in Nat /\ \A k \in 0 .. O - 1 : Entry(k) \in Heads
  BY Entries
<1>2. Todo = [n \in 1 .. O |-> <<Entry(n - 1), desc[Entry(n - 1)]>>]
  BY DEF Todo, Entry
<1> HIDE DEF O
<1>3. \A n \in 1 .. O : Entry(n - 1) \in Heads
  <2>1. \A n \in 1 .. O : n - 1 \in 0 .. O - 1
    BY <1>1
  <2>2. QED
    BY <1>1, <2>1
<1>4. \A n \in 1 .. O : <<Entry(n - 1), desc[Entry(n - 1)]>> \in S
  BY <1>3 DEF BlkInv, BlkTypeOK
<1> HIDE DEF S
<1>5. Todo \in [1 .. O -> S]
  BY <1>2, <1>4
<1>6. Todo \in Seq(S) /\ Len(Todo) = O
  BY <1>1, <1>5
<1>7. QED
  BY <1>2, <1>6 DEF O, S

LEMMA DoneIs ==
    ASSUME BlkInv, setUp
    PROVE  /\ Done \in Seq(Heads \X Abs!Answers) /\ Len(Done) = Served
           /\ \A n \in 1 .. Served :
                 Done[n] = <<avail.ring[Place(n - 1)], result[avail.ring[Place(n - 1)]]>>
           /\ \A n \in 1 .. Served : avail.ring[Place(n - 1)] \in Heads
<1> DEFINE U == Served
           S == Heads \X Abs!Answers
           h(n) == avail.ring[Place(n - 1)]
<1>1. U \in Nat /\ BlkTypeOK /\ usedTail \in Int
  BY Entries, RingCongruences DEF BlkInv
<1>2. \A i \in 0 .. U - 1 : used.ring[Place(i)] = avail.ring[Place(i)]
  BY DEF BlkInv, HeadsInOrder
<1>3. Done = [n \in 1 .. U |-> LET e == used.ring[(usedTail + n - 1) % N] IN <<e, result[e]>>]
  BY DEF Done, Served
<1> HIDE DEF U
<1>4. ASSUME NEW n \in 1 .. U
      PROVE  used.ring[(usedTail + n - 1) % N] = h(n) /\ h(n) \in Heads
  <2>1. n - 1 \in 0 .. U - 1 /\ n - 1 \in Int /\ usedTail + n - 1 = usedTail + (n - 1)
    BY <1>1
  <2>2. (usedTail + n - 1) % N = Place(n - 1)
    BY <2>1 DEF Place
  <2>3. Place(n - 1) \in Slots
    BY <1>1, <2>1, PlaceType
  <2>4. QED
    BY <1>1, <1>2, <2>1, <2>2, <2>3 DEF BlkTypeOK
<1>5. Done = [n \in 1 .. U |-> <<h(n), result[h(n)]>>]
  <2> HIDE DEF h
  <2>1. QED
    BY <1>3, <1>4
<1>6. \A n \in 1 .. U : <<h(n), result[h(n)]>> \in S
  <2> HIDE DEF h
  <2>1. QED
    BY <1>1, <1>4 DEF BlkTypeOK
<1> HIDE DEF S
<1>7. Done \in [1 .. U -> S]
  BY <1>5, <1>6
<1>8. Done \in Seq(S) /\ Len(Done) = U
  BY <1>1, <1>7
<1>9. QED
  BY <1>4, <1>5, <1>8 DEF U, S

\* A batch is one Serve: the abstract disk goes through the same states, and
\* what it appends to the answers is what the buffers hold.
LEMMA ProcessServes ==
    ASSUME BlkInv, setUp, Process_Queue, UNCHANGED driver
    PROVE  Queue!Serve
<1> DEFINE O == Outstanding
           U == Served
           Loop(f) == f = [n \in 0 .. Len(Todo) |->
                             IF n = 0 THEN disk ELSE Queue!Stored(f[n - 1], Todo[n][2])]
           after == CHOOSE f : Loop(f)
           added == [n \in 1 .. Len(Todo) |->
                        <<Todo[n][1], Queue!Answer(after[n - 1], Todo[n][2])>>]
<1>1. O \in Nat /\ U \in Nat /\ Len(Todo) = O
      /\ \A n \in 1 .. O : Todo[n] = <<Entry(n - 1), desc[Entry(n - 1)]>>
  BY Entries, TodoIs
<1>2. PICK d \in [0 .. O -> Disks] :
         /\ d[0] = disk
         /\ \A n \in 1 .. O : d[n] = Abs!Stored(d[n - 1], desc[Entry(n - 1)])
         /\ Batch \in Batches /\ Batch.disk = d[O]
         /\ \A k \in 0 .. O - 1 :
               /\ Batch.result[Entry(k)] = Abs!Answer(d[k], desc[Entry(k)])
               /\ Batch.ring[Used_Slot(k)] = Entry(k)
         /\ \A i \in 0 .. U - 1 : Batch.ring[Place(i)] = used.ring[Place(i)]
         /\ \A h \in Heads : (\A k \in 0 .. O - 1 : Entry(k) # h) => Batch.result[h] = result[h]
  BY BatchServes
<1>3. /\ Served' = U + O /\ Outstanding' = 0 /\ used'.ring = Batch.ring
      /\ disk' = Batch.disk /\ result' = Batch.result
      /\ setUp' /\ usedTail' = usedTail
  BY ProcessRings DEF Process_Queue, driver
<1>4. \A k \in 0 .. O - 1 :
         /\ Used_Slot(k) = Place(U + k) /\ Entry(k) \in Heads
         /\ \A i \in 0 .. U - 1 : Entry(k) # avail.ring[Place(i)]
  BY Entries
<1>5. /\ Done \in Seq(Heads \X Abs!Answers) /\ Len(Done) = U
      /\ \A n \in 1 .. U :
            /\ Done[n] = <<avail.ring[Place(n - 1)], result[avail.ring[Place(n - 1)]]>>
            /\ avail.ring[Place(n - 1)] \in Heads
  BY DoneIs
<1>6. \A i \in 0 .. U - 1 : used.ring[Place(i)] = avail.ring[Place(i)]
  BY DEF BlkInv, HeadsInOrder
<1>7. Done' = [n \in 1 .. Served' |->
                 LET h == Batch.ring[(usedTail + n - 1) % N] IN <<h, Batch.result[h]>>]
  BY <1>3 DEF Done, Served
<1>8. Todo' = <<>>
  BY <1>3 DEF Todo
<1> HIDE DEF O, U
<1>9. \A n \in 1 .. O : n - 1 \in 0 .. O - 1 /\ n - 1 \in 0 .. O /\ n \in 0 .. O /\ n # 0
  BY <1>1
<1>10. Loop(d)
  <2>1. \A n \in 1 .. O : d[n] = Queue!Stored(d[n - 1], Todo[n][2])
    <3> SUFFICES ASSUME NEW n \in 1 .. O
                 PROVE  d[n] = Queue!Stored(d[n - 1], Todo[n][2])
      OBVIOUS
    <3>1. Todo[n][2] = desc[Entry(n - 1)]
      BY <1>1
    <3>2. QED
      BY <1>2, <3>1, SameEffect
  <2>2. \A n \in 0 .. O : n = 0 \/ n \in 1 .. O
    OBVIOUS
  <2>3. QED
    BY <1>1, <1>2, <2>1, <2>2
<1>11. Loop(after)
  <2> HIDE DEF Loop
  <2>1. QED
    BY <1>10
<1>12. \A n \in 0 .. O : after[n] = d[n]
  <2> DEFINE A == {n \in 0 .. O : after[n] = d[n]}
  <2>1. after = [n \in 0 .. O |-> IF n = 0 THEN disk ELSE Queue!Stored(after[n - 1], Todo[n][2])]
    BY <1>1, <1>11
  <2>2. d = [n \in 0 .. O |-> IF n = 0 THEN disk ELSE Queue!Stored(d[n - 1], Todo[n][2])]
    BY <1>1, <1>10
  <2> HIDE DEF after
  <2>3. 0 \in 0 .. O
    BY <1>1
  <2>4. 0 \in A
    BY <2>1, <2>2, <2>3
  <2>5. \A n \in 1 .. O : n - 1 \in A => n \in A
    BY <1>9, <2>1, <2>2
  <2> HIDE DEF A
  <2>6. \A n \in 0 .. O : n \in A
    BY <1>1, <2>4, <2>5, UpTo
  <2>7. QED
    BY <2>6 DEF A
<1>13. added = [n \in 1 .. O |-> <<Entry(n - 1), Batch.result[Entry(n - 1)]>>]
  <2> HIDE DEF after, Loop
  <2>1. ASSUME NEW n \in 1 .. O
        PROVE  <<Todo[n][1], Queue!Answer(after[n - 1], Todo[n][2])>>
                 = <<Entry(n - 1), Batch.result[Entry(n - 1)]>>
    <3>1. Todo[n][1] = Entry(n - 1) /\ Todo[n][2] = desc[Entry(n - 1)]
      BY <1>1
    <3>2. after[n - 1] = d[n - 1]
      BY <1>9, <1>12
    <3>3. Batch.result[Entry(n - 1)] = Abs!Answer(d[n - 1], desc[Entry(n - 1)])
      BY <1>2, <1>9
    <3>4. QED
      BY <3>1, <3>2, <3>3, SameEffect
  <2>2. QED
    BY <1>1, <2>1
<1>14. Done' = Done \o added
  <2> DEFINE S == Heads \X Abs!Answers
             all == Done \o added
             h(n) == Batch.ring[(usedTail + n - 1) % N]
  <2> HIDE DEF after, Loop
  <2>1. \A n \in 1 .. O : Entry(n - 1) \in Heads
    BY <1>4, <1>9
  <2>2. \A e \in Heads : Batch.result[e] \in Abs!Answers
    BY <1>2 DEF Batches
  <2>3. \A n \in 1 .. O : <<Entry(n - 1), Batch.result[Entry(n - 1)]>> \in S
    BY <2>1, <2>2
  <2> HIDE DEF S, added
  <2>4. added \in [1 .. O -> S]
    BY <1>13, <2>3
  <2>5. added \in Seq(S) /\ Len(added) = O
    BY <1>1, <2>4
  <2>6. Done \in Seq(S)
    BY <1>5 DEF S
  <2>7. all \in Seq(S) /\ Len(all) = U + O
    BY <1>5, <2>5, <2>6, Concatenation
  <2>8. ASSUME NEW n \in 1 .. U + O
        PROVE  all[n] = <<h(n), Batch.result[h(n)]>>
    <3>1. usedTail \in Int
      BY RingCongruences
    <3>2. CASE n \in 1 .. U
      <4> DEFINE k == n - 1
                 e == avail.ring[Place(k)]
      <4>1. all[n] = Done[n]
        BY <1>5, <2>5, <2>6, <3>2
      <4>2. k \in 0 .. U - 1 /\ usedTail + n - 1 = usedTail + k
        BY <1>1, <3>1, <3>2
      <4>3. h(n) = Batch.ring[Place(k)]
        <5> HIDE DEF k
        <5>1. QED
          BY <4>2 DEF Place
      <4>4. h(n) = e
        BY <1>2, <1>6, <4>2, <4>3
      <4>5. Done[n] = <<e, result[e]>> /\ e \in Heads
        BY <1>5, <3>2
      <4>6. Batch.result[e] = result[e]
        <5> HIDE DEF e
        <5>1. \A j \in 0 .. O - 1 : Entry(j) # e
          BY <1>4, <4>2 DEF e
        <5>2. QED
          BY <1>2, <4>5, <5>1
      <4>7. QED
        BY <4>1, <4>4, <4>5, <4>6
    <3>3. CASE n \in U + 1 .. U + O
      <4> DEFINE m == n - U
                 k == m - 1
      <4>1. m \in 1 .. O /\ k \in 0 .. O - 1 /\ usedTail + n - 1 = usedTail + (U + k)
        BY <1>1, <3>1, <3>3
      <4>2. all[n] = added[m]
        BY <1>1, <1>5, <2>5, <2>6, <3>3
      <4>3. added[m] = <<Entry(k), Batch.result[Entry(k)]>>
        BY <1>13, <4>1
      <4>4. h(n) = Entry(k)
        <5> HIDE DEF k
        <5>1. h(n) = Batch.ring[Place(U + k)]
          BY <4>1 DEF Place
        <5>2. QED
          BY <1>2, <1>4, <4>1, <5>1
      <4>5. QED
        BY <4>2, <4>3, <4>4
    <3>4. n \in 1 .. U \/ n \in U + 1 .. U + O
      BY <1>1
    <3>5. QED
      BY <3>2, <3>3, <3>4
  <2>9. Done' = [n \in 1 .. U + O |-> <<h(n), Batch.result[h(n)]>>]
    <3>1. Served' = U + O
      BY <1>3 DEF U, O
    <3>2. QED
      BY <1>7, <3>1
  <2> HIDE DEF all, h
  <2>10. all = [n \in 1 .. U + O |-> all[n]]
    BY <1>1, <2>7
  <2>11. Done' = all
    BY <2>8, <2>9, <2>10
  <2>12. QED
    BY <2>11 DEF all
<1>15. disk' = after[Len(Todo)]
  <2> HIDE DEF after
  <2>1. O \in 0 .. O
    BY <1>1
  <2>2. QED
    BY <1>1, <1>2, <1>3, <1>12, <2>1
<1>16. QED
  <2>1. disk' = after[Len(Todo)] /\ Done' = Done \o added /\ Todo' = <<>>
    BY <1>8, <1>14, <1>15
  <2>2. QED
    BY <2>1 DEF Queue!Serve

\* A submission puts the request behind those outstanding.
LEMMA SubmitAppends ==
    ASSUME BlkInv, Submit
    PROVE  Queue!Submit
<1>1. PICK h \in Heads \ InFlight, r \in Abs!Requests :
         /\ desc' = [desc EXCEPT ![h] = r]
         /\ avail' = [idx |-> (avail.idx + 1) % IdxMod,
                      ring |-> [avail.ring EXCEPT ![avail.idx % N] = h]]
  BY DEF Submit
<1>2. /\ setUp /\ (avail.idx - usedTail) % IdxMod < N /\ setUp' = setUp
      /\ UNCHANGED <<queue, disk, used, result, usedTail>>
      /\ avail'.idx = (avail.idx + 1) % IdxMod
  BY <1>1 DEF Submit
<1> DEFINE O == Outstanding
           U == Served
           new == Append(Todo, <<h, r>>)
           S == Heads \X Abs!Requests
<1>3. U + O < N /\ Outstanding' = O + 1
  BY <1>2, SubmitRings
<1>4. /\ BlkTypeOK /\ U \in Nat /\ O \in Nat /\ N \in Nat
      /\ \A k \in 0 .. O - 1 : /\ Avail_Slot(k) = Place(U + k)
                               /\ Entry(k) = avail.ring[Place(U + k)] /\ Entry(k) \in Heads
      /\ avail.idx % N = Place(U + O)
  <2>1. BlkTypeOK /\ DeviceInStep /\ Served \in Nat /\ Outstanding \in Nat
        /\ Served + Outstanding <= N
    BY <1>2, Entries DEF BlkInv
  <2>2. \A k \in 0 .. Outstanding - 1 : k \in Nat
    BY <2>1
  <2>3. QED
    BY <1>2, <2>1, <2>2, Entries, DeviceSlots, DriverSlots, RingSizes
<1>5. Avail_Slot(O) = Place(U + O)
  BY <1>2, <1>4, DeviceSlots DEF BlkInv
<1>6. \A k \in 0 .. O - 1 : avail.ring[Place(U + k)] \in InFlight
  <2>1. \A i \in 0 .. Served + Outstanding - 1 : avail.ring[Place(i)] \in InFlight
    <3>1. Served + Outstanding <= N
      BY <1>3, <1>4
    <3>2. QED
      BY <1>2, <3>1, PlacesInFlight DEF BlkInv
  <2>2. \A k \in 0 .. O - 1 : U + k \in 0 .. Served + Outstanding - 1
    BY <1>4
  <2>3. QED
    BY <2>1, <2>2
<1>7. /\ Todo \in Seq(S) /\ Len(Todo) = O
      /\ \A n \in 1 .. O : Todo[n] = <<Entry(n - 1), desc[Entry(n - 1)]>>
  BY <1>2, TodoIs
<1>8. Todo' = [n \in 1 .. Outstanding' |->
                 LET e == avail'.ring[Avail_Slot(n - 1)] IN <<e, desc'[e]>>]
  <2>1. \A k : Avail_Slot(k)' = Avail_Slot(k)
    BY <1>2 DEF Avail_Slot, IndexAfter, queue
  <2>2. QED
    BY <1>2, <2>1 DEF Todo
<1>9. Done' = Done
  BY <1>2 DEF Done
<1> HIDE DEF O, U, S
<1>10. <<h, r>> \in S
  BY <1>1 DEF S
<1> DEFINE p == <<h, r>>
<1> HIDE DEF p
<1>11. Append(Todo, p) \in Seq(S) /\ Len(Append(Todo, p)) = O + 1
       /\ \A n \in 1 .. O : Append(Todo, p)[n] = Todo[n]
       /\ Append(Todo, p)[O + 1] = p
  BY <1>7, <1>10 DEF p
<1>12. ASSUME NEW n \in 1 .. O + 1
       PROVE  LET e == avail'.ring[Avail_Slot(n - 1)]
              IN  <<e, desc'[e]>> = Append(Todo, p)[n]
  <2> DEFINE k == n - 1
             e == avail'.ring[Avail_Slot(k)]
  <2>1. avail.ring \in [Slots -> Heads] /\ desc \in [Heads -> Abs!Requests]
    BY <1>4 DEF BlkTypeOK
  <2>2. avail'.ring = [avail.ring EXCEPT ![Place(U + O)] = h]
    BY <1>1, <1>4
  <2>3. U + O \in 0 .. N - 1 /\ U + O \in Int
    BY <1>3, <1>4 DEF U, O
  <2>4. Place(U + O) \in Slots
    BY <1>4, <2>3, PlaceType
  <2>5. CASE n = O + 1
    <3>1. k = O
      BY <1>4, <2>5
    <3>2. e = h
      BY <1>5, <2>1, <2>2, <2>4, <3>1
    <3>3. desc'[h] = r
      BY <1>1, <2>1
    <3>4. QED
      BY <1>11, <2>5, <3>2, <3>3 DEF p
  <2>6. CASE n # O + 1
    <3>1. n \in 1 .. O /\ k \in 0 .. O - 1 /\ U + k \in 0 .. N - 1 /\ U + k \in Int
          /\ U + k # U + O
      BY <1>4, <2>3, <2>6
    <3> HIDE DEF k
    <3>2. Place(U + k) # Place(U + O) /\ Place(U + k) \in Slots
      BY <1>4, <2>3, <3>1, PlacesApart, PlaceType
    <3>3. e = Entry(k)
      BY <1>4, <2>1, <2>2, <3>1, <3>2
    <3>4. Entry(k) \in Heads /\ Entry(k) # h
      BY <1>1, <1>4, <1>6, <3>1
    <3>5. desc'[Entry(k)] = desc[Entry(k)]
      BY <1>1, <2>1, <3>4
    <3>6. Append(Todo, p)[n] = <<Entry(k), desc[Entry(k)]>>
      BY <1>7, <1>11, <3>1 DEF k
    <3>7. QED
      BY <3>3, <3>5, <3>6 DEF k
  <2>7. QED
    BY <2>5, <2>6
<1>13. Todo' = Append(Todo, p)
  <2> DEFINE all == Append(Todo, p)
             e(n) == avail'.ring[Avail_Slot(n - 1)]
  <2>1. Todo' = [n \in 1 .. O + 1 |-> <<e(n), desc'[e(n)]>>]
    BY <1>3, <1>8 DEF O
  <2>2. \A n \in 1 .. O + 1 : <<e(n), desc'[e(n)]>> = all[n]
    BY <1>12
  <2>3. all \in Seq(S) /\ Len(all) = O + 1
    BY <1>11
  <2> HIDE DEF all, e
  <2>4. all = [n \in 1 .. O + 1 |-> all[n]]
    BY <2>3
  <2>5. Todo' = all
    BY <2>1, <2>2, <2>4
  <2>6. QED
    BY <2>5 DEF all
<1>14. h \in Heads /\ r \in Queue!Requests
  BY DEF Abs!Requests, Queue!Requests
<1>15. QED
  BY <1>2, <1>9, <1>13, <1>14 DEF Queue!Submit, p

\* The driver takes the first answer.
LEMMA TakeTakes ==
    ASSUME BlkInv, Take
    PROVE  Queue!Take
<1>1. /\ setUp /\ setUp' = setUp /\ usedTail # used.idx
      /\ usedTail' = (usedTail + 1) % IdxMod
      /\ UNCHANGED <<queue, disk, used, result, avail, desc>>
  BY DEF Take
<1> DEFINE U == Served
           S == Heads \X Abs!Answers
           h(n) == avail.ring[Place(n - 1)]
<1>2. U > 0 /\ Served' = U - 1 /\ Outstanding' = Outstanding
      /\ \A k \in Nat : Place(k)' = Place(k + 1)
  BY <1>1, TakeRings
<1>3. BlkTypeOK /\ U \in Nat /\ \A i \in 0 .. U - 1 : used.ring[Place(i)] = avail.ring[Place(i)]
  BY <1>1, Entries DEF BlkInv, HeadsInOrder
<1>4. /\ Done \in Seq(S) /\ Len(Done) = U
      /\ \A n \in 1 .. U : Done[n] = <<h(n), result[h(n)]>>
  BY <1>1, DoneIs
<1>5. Todo' = Todo
  <2>1. \A k : Avail_Slot(k)' = Avail_Slot(k)
    BY <1>1 DEF Avail_Slot, IndexAfter, queue
  <2>2. QED
    BY <1>1, <1>2, <2>1 DEF Todo
<1>6. Done' = [n \in 1 .. Served' |->
                 LET e == used.ring[(usedTail' + n - 1) % N] IN <<e, result[e]>>]
  BY <1>1 DEF Done, Served
<1>7. usedTail' \in Int
  <2>1. usedTail' \in 0 .. IdxMod - 1
    BY <1>1, TakeRings
  <2>2. QED
    BY <2>1, RingSizes
<1> HIDE DEF U, S
<1>8. ASSUME NEW n \in 1 .. U - 1
      PROVE  used.ring[(usedTail' + n - 1) % N] = h(n + 1)
  <2> DEFINE k == n - 1
  <2>1. k \in Nat /\ k + 1 \in 0 .. U - 1 /\ usedTail' + n - 1 = usedTail' + k
        /\ k + 1 = (n + 1) - 1
    BY <1>3, <1>7
  <2>2. (usedTail' + n - 1) % N = Place(k)'
    <3> HIDE DEF k
    <3>1. QED
      BY <2>1 DEF Place
  <2>3. used.ring[Place(k + 1)] = avail.ring[Place(k + 1)]
    BY <1>3, <2>1
  <2>4. QED
    BY <1>2, <2>1, <2>2, <2>3
<1>9. \A n \in 1 .. U - 1 : n + 1 \in 1 .. U
  BY <1>3
<1>10. Done' = [n \in 1 .. U - 1 |-> Done[n + 1]]
  <2>1. Served' = U - 1
    BY <1>2 DEF U
  <2>2. Done' = [n \in 1 .. U - 1 |->
                   LET e == used.ring[(usedTail' + n - 1) % N] IN <<e, result[e]>>]
    BY <1>6, <2>1
  <2>3. \A n \in 1 .. U - 1 :
           <<used.ring[(usedTail' + n - 1) % N], result[used.ring[(usedTail' + n - 1) % N]]>>
             = Done[n + 1]
    BY <1>4, <1>8, <1>9
  <2>4. QED
    BY <2>2, <2>3
<1>11. Done # <<>> /\ Tail(Done) = [n \in 1 .. U - 1 |-> Done[n + 1]]
  <2> DEFINE q == Done
             rest == Tail(q)
  <2>1. U > 0 /\ q \in Seq(S) /\ Len(q) = U
    BY <1>2, <1>4 DEF U
  <2> HIDE DEF q
  <2>2. q # <<>> /\ rest \in Seq(S) /\ Len(rest) = U - 1
    BY <1>3, <2>1
  <2>3. \A n \in 1 .. U - 1 : rest[n] = q[n + 1]
    BY <1>3, <2>1
  <2> HIDE DEF rest
  <2>4. rest = [n \in 1 .. U - 1 |-> rest[n]]
    BY <1>3, <2>2
  <2>5. rest = [n \in 1 .. U - 1 |-> q[n + 1]]
    BY <2>3, <2>4
  <2>6. QED
    BY <2>2, <2>5 DEF rest, q
<1>12. QED
  BY <1>1, <1>5, <1>10, <1>11 DEF Queue!Take

LEMMA BlkQueueStep ==
    ASSUME BlkInv, [BlkNext]_blkVars
    PROVE  [Queue!Next]_Queue!vars
<1> DEFINE Still == UNCHANGED <<disk, used, result, driver, Last_Avail_Idx>>
<1>1. ASSUME Still
      PROVE  UNCHANGED Queue!vars
  <2>1. Outstanding' = Outstanding /\ \A k : Avail_Slot(k)' = Avail_Slot(k)
    BY <1>1 DEF Outstanding, Avail_Slot, IndexAfter, driver
  <2>2. Todo' = Todo
    BY <1>1, <2>1 DEF Todo, driver
  <2>3. Done' = Done
    BY <1>1 DEF Done, driver
  <2>4. QED
    BY <1>1, <2>2, <2>3 DEF Queue!vars
<1>2. CASE Notify
  <2>1. setUp /\ UNCHANGED driver
    BY <1>2 DEF Notify
  <2>2. CASE Process_Queue
    BY <2>1, <2>2, ProcessServes DEF Queue!Next
  <2>3. CASE Idle
    BY <1>1, <2>1, <2>3 DEF Idle
  <2>4. QED
    BY <1>2, <2>2, <2>3 DEF Notify
<1>3. CASE MakeReady
  <2>1. setUp /\ UNCHANGED driver
    BY <1>3 DEF MakeReady
  <2>2. CASE Process_Queue
    BY <2>1, <2>2, ProcessServes DEF Queue!Next
  <2>3. CASE Idle
    BY <1>1, <2>1, <2>3 DEF Idle
  <2>4. QED
    BY <1>3, <2>2, <2>3 DEF MakeReady
<1>4. CASE MakeUnready
  BY <1>1, <1>4 DEF MakeUnready, Idle
<1>5. CASE Acknowledge
  BY <1>1, <1>5 DEF Acknowledge, Idle
<1>6. CASE Reset
  <2>1. Todo' = <<>> /\ Done' = <<>> /\ disk' = disk
    BY <1>6 DEF Reset, Todo, Done
  <2>2. QED
    BY <2>1 DEF Queue!Next, Queue!Reset
<1>7. CASE SetUp
  <2>1. ~setUp /\ disk' = disk
    BY <1>7 DEF SetUp
  <2>2. Todo = <<>> /\ Done = <<>>
    BY <2>1 DEF Todo, Done
  <2>3. Served' = 0 /\ Outstanding' = 0
    BY <1>7, SetUpRings
  <2>4. Todo' = <<>>
    BY <2>3 DEF Todo
  <2>5. Done' = <<>>
    BY <2>3 DEF Done, Served
  <2>6. QED
    BY <2>1, <2>2, <2>4, <2>5 DEF Queue!vars
<1>8. CASE UNCHANGED blkVars
  BY <1>1, <1>8 DEF blkVars, queue
<1>9. QED
  BY <1>2, <1>3, <1>4, <1>5, <1>6, <1>7, <1>8, SubmitAppends, TakeTakes
  DEF BlkNext, Queue!Next

LEMMA BlkQueueInit ==
    ASSUME BlkInit
    PROVE  Queue!Init
<1>1. 0 - 0 = 0 /\ 0 % IdxMod = 0
  BY RingSizes
<1>2. Todo = <<>>
  BY <1>1 DEF BlkInit, Todo, Outstanding
<1>3. Done = <<>>
  BY <1>1 DEF BlkInit, Done
<1>4. QED
  BY <1>2, <1>3 DEF BlkInit, Queue!Init, Queue!Sectors, Abs!Sectors

\* The device's registers and the rings stay in their types.
THEOREM BlkTypeCorrect == BlkSpec => []BlkTypeOK
<1>1. BlkInv => BlkTypeOK
  BY DEF BlkInv
<1>2. QED
  BY <1>1, BlkInvariant, PTL

\* For every queue size, every width of the indices that it divides, every disk
\* and every driver that keeps to the protocol: requests are served once each,
\* in order, and their answers wait until they are taken.
THEOREM VirtioQueueIsBlockQueue == BlkSpec => QueueSpec
<1>1. BlkInit => Queue!Init
  BY BlkQueueInit
<1>2. BlkInv /\ [BlkNext]_blkVars => [Queue!Next]_Queue!vars
  BY BlkQueueStep
<1>3. QED
  BY <1>1, <1>2, BlkInvariant, PTL DEF BlkSpec, QueueSpec, Queue!Spec

\* A notification that came before the queue was ready is not left behind.
THEOREM VirtioNoStaleNotification == BlkSpec => []NoStaleNotification
<1>1. BlkInit => NoStaleNotification
  BY DEF BlkInit, NoStaleNotification
<1>2. NoStaleNotification /\ [BlkNext]_blkVars => NoStaleNotification'
  BY DEF NoStaleNotification, BlkNext, blkVars, queue, Notify, MakeReady, MakeUnready,
         Acknowledge, Reset, Submit, Take, SetUp, Process_Queue
<1>3. QED
  BY <1>1, <1>2, PTL DEF BlkSpec
=============================================================================
