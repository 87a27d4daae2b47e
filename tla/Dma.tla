-------------------------------- MODULE Dma --------------------------------
(***************************************************************************)
(* The DMA controller (riscv-dma.adb) on the memory it copies over         *)
(* (DMA_Process in riscv-memory.adb).  Run calls Process between           *)
(* instructions, so guest register writes and byte moves interleave; a     *)
(* destination may be one of the controller's own registers.               *)
(*                                                                         *)
(* A register is one digit wide: DmaWord plays both the 32-bit register    *)
(* and the byte, and a write replaces it whole.  The control register is   *)
(* kept as its low five bits.  INT_EN is inert: nothing calls              *)
(* Interrupt_Pending.                                                      *)
(***************************************************************************)
EXTENDS Integers

CONSTANTS
    NumChannels,   \* 4 in the code
    DmaWordSize,      \* modulus of registers and addresses
    Ram, Rom,      \* readable addresses; only Ram is writable
    Registers,     \* addresses of registers of the controller -> <<channel, register>>
    Contents,      \* what Ram and Rom hold at first
    GuestWrites    \* <<register, value>> pairs the guest's driver writes

Channels == 0 .. NumChannels - 1
DmaWord == 0 .. DmaWordSize - 1
RegisterNames == {"src", "dst", "count", "ctrl", "status"}

ASSUME DmaAssumption ==
    /\ NumChannels \in Nat \ {0}
    /\ DmaWordSize \in Nat /\ DmaWordSize >= 32
    /\ Ram \subseteq DmaWord /\ Rom \subseteq DmaWord /\ Ram \cap Rom = {}
    /\ Contents \in [Ram \cup Rom -> DmaWord]
    /\ DOMAIN Registers \subseteq DmaWord \ (Ram \cup Rom)
    /\ \A a \in DOMAIN Registers : Registers[a] \in Channels \X RegisterNames
    /\ GuestWrites \subseteq RegisterNames \X DmaWord

VARIABLES
    chs,    \* the channel registers and their internal positions
    mem,    \* contents of Ram and Rom
    hist    \* history, per channel: since START, the bytes moved; clean: nothing
            \* wrote its registers; alone: no other channel moved, and what it
            \* moved itself changed none of its registers

dmaVars == <<chs, mem, hist>>

Channel == [src : DmaWord, dst : DmaWord, count : DmaWord, initial : DmaWord, ctrl : 0 .. 31,
            busy : BOOLEAN, done : BOOLEAN, error : BOOLEAN, curSrc : DmaWord, curDst : DmaWord]

\* The bits of the control register.
ENABLE(ctrl)  == ctrl % 2 = 1
START(ctrl)   == (ctrl \div 2) % 2 = 1
SRC_INC(ctrl) == (ctrl \div 8) % 2 = 1
DST_INC(ctrl) == (ctrl \div 16) % 2 = 1
ClearStart(ctrl) == IF START(ctrl) THEN ctrl - 2 ELSE ctrl

\* The history of a channel no START accounts for.
NoTransfer == [moved |-> 0, clean |-> FALSE, alone |-> FALSE]

DmaInit ==
    /\ chs = [c \in Channels |->
                [src |-> 0, dst |-> 0, count |-> 0, initial |-> 0, ctrl |-> 0,
                 busy |-> FALSE, done |-> FALSE, error |-> FALSE,
                 curSrc |-> 0, curDst |-> 0]]
    /\ mem = Contents
    /\ hist = [c \in Channels |-> NoTransfer]

----------------------------------------------------------------------------
(* Register writes *)

\* A transfer starts on the rising edge of START.
Starts(ch, v) == START(v) /\ ~START(ch.ctrl)

\* The channel with its addresses latched and BUSY raised.
Begun(ch) ==
    [ch EXCEPT !.curSrc = ch.src, !.curDst = ch.dst, !.initial = ch.count,
               !.busy = TRUE, !.done = FALSE]

\* Write, to register r of channel ch.
WriteRegister(ch, r, v) ==
    CASE r = "src"    -> [ch EXCEPT !.src = v]
      [] r = "dst"    -> [ch EXCEPT !.dst = v]
      [] r = "count"  -> [ch EXCEPT !.count = v]
      [] r = "ctrl"   -> [(IF Starts(ch, v) THEN Begun(ch) ELSE ch) EXCEPT !.ctrl = v % 32]
      [] r = "status" -> [ch EXCEPT !.done = @ /\ (v \div 2) % 2 = 0,
                                    !.error = @ /\ (v \div 4) % 2 = 0]

\* Read, of register r of channel ch.
ReadRegister(ch, r) ==
    CASE r = "src"    -> ch.src
      [] r = "dst"    -> ch.dst
      [] r = "count"  -> ch.count
      [] r = "ctrl"   -> ch.ctrl
      [] r = "status" -> (IF ch.busy THEN 1 ELSE 0) + (IF ch.done THEN 2 ELSE 0)
                         + (IF ch.error THEN 4 ELSE 0)

\* The history of a channel after a write to one of its registers.
Touched(h, ch, r, v) ==
    IF r = "ctrl" /\ Starts(ch, v)
    THEN [moved |-> 0, clean |-> TRUE, alone |-> TRUE]
    ELSE IF r = "status" THEN h ELSE NoTransfer

GuestWrite ==
    \E c \in Channels, w \in GuestWrites :
        /\ chs' = [chs EXCEPT ![c] = WriteRegister(@, w[1], w[2])]
        /\ hist' = [hist EXCEPT ![c] = Touched(@, chs[c], w[1], w[2])]
        /\ mem' = mem

----------------------------------------------------------------------------
(* Process: every active channel in turn moves one byte. *)

\* Fault variant: a count of zero moved like any other.
ActiveZero(ch) == ENABLE(ch.ctrl) /\ ch.busy

Active(ch) == ENABLE(ch.ctrl) /\ ch.busy /\ ch.count > 0

\* A state of a pass over the channels.
Now == [chs |-> chs, mem |-> mem, hist |-> hist]

Readable(a) == a \in DOMAIN Registers \cup Ram \cup Rom
Writable(a) == a \in DOMAIN Registers \cup Ram

\* DMA_Read: registers shadow memory.
Read(st, a) ==
    IF a \in DOMAIN Registers
    THEN ReadRegister(st.chs[Registers[a][1]], Registers[a][2])
    ELSE st.mem[a]

\* DMA_Write of byte v.
Write(st, a, v) ==
    IF a \in DOMAIN Registers
    THEN LET c == Registers[a][1]
             r == Registers[a][2]
         IN  [st EXCEPT !.chs[c] = WriteRegister(@, r, v),
                        !.hist[c] = Touched(@, st.chs[c], r, v)]
    ELSE [st EXCEPT !.mem[a] = v]

Stopped(ch) == [ch EXCEPT !.busy = FALSE, !.ctrl = ClearStart(@)]

Failed(st, c) == [st EXCEPT !.chs[c] = [Stopped(@) EXCEPT !.error = TRUE]]

\* Fault variant: a destination that stays put.
SteppedFixed(ch) ==
    [ch EXCEPT !.curSrc = IF SRC_INC(ch.ctrl) THEN (@ + 1) % DmaWordSize ELSE @]

\* A channel with its incrementing positions one further.
Stepped(ch) ==
    [ch EXCEPT !.curSrc = IF SRC_INC(ch.ctrl) THEN (@ + 1) % DmaWordSize ELSE @,
               !.curDst = IF DST_INC(ch.ctrl) THEN (@ + 1) % DmaWordSize ELSE @]

\* A channel after a byte has moved.
Advanced(ch) ==
    LET next == [Stepped(ch) EXCEPT !.count = (@ - 1) % DmaWordSize]
    IN  IF next.count = 0 THEN [Stopped(next) EXCEPT !.done = TRUE] ELSE next

\* The byte goes out before the positions advance: when its destination is a
\* register, Advanced works on what the write left there.
Moved(st, c) ==
    LET ch  == st.chs[c]
        out == Write(st, ch.curDst, Read(st, ch.curSrc))
    IN  [chs |-> [out.chs EXCEPT ![c] = Advanced(@)],
         mem |-> out.mem,
         hist |-> [d \in Channels |->
                     IF d = c
                     THEN [out.hist[d] EXCEPT
                             !.moved = IF out.hist[d].clean THEN (@ + 1) % DmaWordSize ELSE 0,
                             !.alone = @ /\ out.chs[c] = ch]
                     ELSE [out.hist[d] EXCEPT !.alone = FALSE]]]

ProcessChannel(st, c) ==
    LET ch == st.chs[c]
    IN  IF ~Active(ch) THEN st
        ELSE IF Readable(ch.curSrc) /\ Writable(ch.curDst) THEN Moved(st, c)
        ELSE Failed(st, c)

\* Fault variant: the last channel left out of the loop.
PassShort ==
    LET after[n \in 0 .. NumChannels] ==
            IF n = 0 THEN {Now}
            ELSE IF n = NumChannels THEN after[n - 1]
            ELSE {ProcessChannel(st, n - 1) : st \in after[n - 1]}
    IN  after[NumChannels]

\* What one pass over the channels, lowest first, leads to: one state.
Pass ==
    LET after[n \in 0 .. NumChannels] ==
            IF n = 0 THEN {Now} ELSE {ProcessChannel(st, n - 1) : st \in after[n - 1]}
    IN  after[NumChannels]

Process ==
    \E pass \in Pass :
        /\ chs' = pass.chs
        /\ mem' = pass.mem
        /\ hist' = pass.hist

DmaNext == GuestWrite \/ Process

DmaSpec == DmaInit /\ [][DmaNext]_dmaVars

\* Run reaches a multiple of ten cycles again and again while the hart runs.
DmaFairSpec == DmaSpec /\ WF_dmaVars(Process)

----------------------------------------------------------------------------
(* Properties *)

DmaTypeOK ==
    /\ chs \in [Channels -> Channel]
    /\ mem \in [Ram \cup Rom -> DmaWord]
    /\ hist \in [Channels -> [moved : DmaWord, clean : BOOLEAN, alone : BOOLEAN]]

\* Whatever the other channels do, a transfer whose registers are left alone
\* has moved exactly the bytes its count has lost, its positions agree, and
\* when it reports DONE it has moved them all; and the DONE a driver polls is
\* never that of the transfer before.
TransferAccounted ==
    \A c \in Channels :
        LET ch == chs[c]
        IN  /\ ~(ch.busy /\ ch.done)
            /\ hist[c].clean =>
                 /\ ch.count + hist[c].moved = ch.initial
                 /\ SRC_INC(ch.ctrl) => ch.curSrc = (ch.src + hist[c].moved) % DmaWordSize
                 /\ DST_INC(ch.ctrl) => ch.curDst = (ch.dst + hist[c].moved) % DmaWordSize
                 /\ ch.done => hist[c].moved = ch.initial

Further(a, i) == (a + i) % DmaWordSize

\* A transfer that has not read what it wrote, its registers and memory left
\* alone, has put every byte it moved where it belongs.
TransferCopies ==
    \A c \in Channels :
        LET ch == chs[c]
            n  == hist[c].moved
        IN  hist[c].clean /\ hist[c].alone /\ SRC_INC(ch.ctrl) /\ DST_INC(ch.ctrl)
            /\ ~(\E i, j \in 0 .. n - 1 : Further(ch.src, i) = Further(ch.dst, j))
            => \A i \in 0 .. n - 1 :
                  {Further(ch.src, i), Further(ch.dst, i)} \subseteq Ram \cup Rom
                  => mem[Further(ch.dst, i)] = mem[Further(ch.src, i)]

\* No channel is starved: an active one comes to an end unless the guest, or a
\* transfer that has registers for its destination, keeps writing registers.
ActiveEnds ==
    \A c \in Channels :
        \/ []<><<GuestWrite>>_dmaVars
        \/ \E d \in Channels : []<>(Active(chs[d]) /\ chs[d].curDst \in DOMAIN Registers)
        \/ []<>~Active(chs[c])
=============================================================================
