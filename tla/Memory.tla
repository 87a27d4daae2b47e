------------------------------- MODULE Memory -------------------------------
(***************************************************************************)
(* The memory unit in region mode (riscv-memory.adb) as the instructions   *)
(* of the CPU and the DMA engine use it: regions registered by a profile,  *)
(* the hint that remembers the last region matched, the fast path for      *)
(* accesses that lie in one region, the byte-by-byte path for all others,  *)
(* and the fault latch the CPU clears before an access and reads after it. *)
(*                                                                         *)
(* Device registers are bytes that hold what is written to them; what else *)
(* a device does is in its own module.                                     *)
(***************************************************************************)
EXTENDS Integers, Sequences

CONSTANTS
    AddrMod,       \* 2^32
    MaxRegions,    \* Max_Regions
    Candidates,    \* regions a profile may ask for
    Devices,       \* addresses of enabled device registers
    PeriphMin, PeriphMax,  \* the padded span kept by Note_Peripheral
    Bytes,
    GuestData         \* what the guest stores: sequences of at least four bytes

Address == 0 .. AddrMod - 1
Regions == [base : Address, size : Nat, read : BOOLEAN, write : BOOLEAN]

ASSUME MemoryAssumption ==
    /\ AddrMod \in Nat /\ AddrMod > 4
    /\ MaxRegions \in Nat
    /\ Candidates \subseteq Regions
    /\ PeriphMin \in Address /\ PeriphMax \in Address
    /\ Devices \subseteq PeriphMin .. PeriphMax
    /\ 0 \in Bytes
    /\ GuestData \subseteq Seq(Bytes) /\ \A s \in GuestData : Len(s) >= 4

VARIABLES
    regions,      \* Regions (0 .. Region_Count-1), numbered from 1 here
    running,      \* the profile has been applied
    data,         \* the byte behind every address
    hint,         \* Region_Hint
    fault,        \* Fault_Address while Fault_Result is not OK, else NoFault
    tracking,     \* Track_Access, or an Access_Hook
    last          \* history: the last access of the CPU

memVars == <<regions, running, data, hint, fault, tracking, last>>

NoFault == AddrMod

NoAccess == [kind |-> "none", addr |-> 0, size |-> 0, value |-> <<>>,
             fault |-> NoFault, before |-> [a \in Address |-> 0]]

MemTypeOK ==
    /\ regions \in Seq(Candidates) /\ Len(regions) <= MaxRegions
    /\ running \in BOOLEAN
    /\ data \in [Address -> Bytes]
    /\ hint \in 1 .. MaxRegions + 1
    /\ fault \in Address \cup {NoFault}
    /\ tracking \in BOOLEAN
    /\ last.kind \in {"none", "load", "store", "fetch"}

MemInit ==
    /\ regions = <<>>
    /\ running = FALSE
    /\ data = [a \in Address |-> 0]
    /\ hint = 1
    /\ fault = NoFault
    /\ tracking = FALSE
    /\ last = NoAccess

----------------------------------------------------------------------------
(* Regions *)

\* Offsets are compared, not ends: base + size may wrap to 0.
Inside(r, a) == a >= r.base /\ a - r.base < r.size

\* Neither region runs into the other.
ClearOf(r, old) ==
    IF r.base <= old.base THEN r.size <= old.base - r.base ELSE old.size <= r.base - old.base

\* Add_Region drops a region it cannot accept.
Acceptable(r) ==
    /\ Len(regions) < MaxRegions
    /\ r.size > 0
    /\ AddrMod - 1 - r.base >= r.size - 1
    /\ \A i \in DOMAIN regions : ClearOf(r, regions[i])

Add_Region ==
    /\ ~running
    /\ \E r \in Candidates : regions' = IF Acceptable(r) THEN Append(regions, r) ELSE regions
    /\ UNCHANGED <<running, data, hint, fault, tracking, last>>

Start ==
    /\ ~running /\ running' = TRUE
    /\ UNCHANGED <<regions, data, hint, fault, tracking, last>>

NotFound == Len(regions) + 1

\* The first region holding a, NotFound if none does.
Scan(a) ==
    IF \E i \in DOMAIN regions : Inside(regions[i], a)
    THEN CHOOSE i \in DOMAIN regions :
            Inside(regions[i], a) /\ \A j \in 1 .. i - 1 : ~Inside(regions[j], a)
    ELSE NotFound

\* Find_Region with hint h.
Find_Region(h, a) ==
    IF h <= Len(regions) /\ Inside(regions[h], a) THEN h ELSE Scan(a)

----------------------------------------------------------------------------
(* Bytes and blocks.  A path is walked with a cursor: the hint, the latch     *)
(* and, for a store, the memory as they stand.                              *)

Allows(i, writing) ==
    i <= Len(regions) /\ (IF writing THEN regions[i].write ELSE regions[i].read)

\* Read_Byte and Write_Byte: devices first, then the regions.  The latch keeps
\* the first failure.
ByteAccess(c, a, writing, b) ==
    LET i == Find_Region(c.hint, a)
        stored == IF writing THEN [c.data EXCEPT ![a] = b] ELSE c.data
    IN  IF a \in Devices THEN [c EXCEPT !.data = stored]
        ELSE [hint  |-> IF i <= Len(regions) THEN i ELSE c.hint,
              fault |-> IF Allows(i, writing) \/ c.fault # NoFault THEN c.fault ELSE a,
              data  |-> IF Allows(i, writing) THEN stored ELSE c.data]

\* The k-th byte of an access at a: addresses wrap.
Byte(a, k) == (a + k) % AddrMod

\* Fault variant: a region one byte too long.
FitsLong(h, a, size, writing) ==
    LET i == Find_Region(h, a)
    IN  /\ ~tracking
        /\ ~(Byte(a, size - 1) >= PeriphMin /\ a <= PeriphMax)
        /\ Allows(i, writing) /\ a - regions[i].base + (size - 1) <= regions[i].size

\* Direct_Block: the access may go straight to one region's storage.
Fits(h, a, size, writing) ==
    LET i == Find_Region(h, a)
    IN  /\ ~tracking
        /\ ~(Byte(a, size - 1) >= PeriphMin /\ a <= PeriphMax)
        /\ Allows(i, writing) /\ a - regions[i].base + (size - 1) < regions[i].size

ByBytes(c, a, size, writing, v) ==
    LET after[k \in 0 .. size] ==
            IF k = 0 THEN c ELSE ByteAccess(after[k - 1], Byte(a, k - 1), writing, v[k])
    IN  after[size]

\* An access of 1, 2 or 4 bytes; bytes alone have no fast path.
Block(c, a, size, writing, v) ==
    IF size > 1 /\ Fits(c.hint, a, size, writing)
    THEN [c EXCEPT !.hint = Find_Region(c.hint, a),
                   !.data = IF ~writing THEN c.data
                            ELSE [x \in Address |-> IF x - a \in 0 .. size - 1 THEN v[x - a + 1]
                                                                           ELSE c.data[x]]]
    ELSE ByBytes(c, a, size, writing, v)

\* Fault variant: the latch left from whatever accessed memory before.
FaultKept == fault

\* Clear_Access_Fault, in front of every access of an instruction.
FaultCleared == NoFault

Cursor == [hint |-> hint, fault |-> FaultCleared, data |-> data]

Applied(c) == hint' = c.hint /\ fault' = c.fault /\ data' = c.data

----------------------------------------------------------------------------
(* The CPU and the DMA engine *)

Sizes == {1, 2, 4}

Load(a, size) ==
    LET c == Block(Cursor, a, size, FALSE, <<0, 0, 0, 0>>)
    IN  /\ Applied(c)
        /\ last' = [kind |-> "load", addr |-> a, size |-> size,
                    value |-> <<>>, fault |-> c.fault, before |-> data]

Store(a, size, v) ==
    LET c == Block(Cursor, a, size, TRUE, v)
    IN  /\ Applied(c)
        /\ last' = [kind |-> "store", addr |-> a, size |-> size, value |-> v,
                    fault |-> c.fault, before |-> data]

\* An instruction whose low byte is zero is a compressed one here.
Compressed(a) == data[a] = 0

\* Read_Insn_Halves, and the upper half only when the lower one asks for it.  SRET
\* may leave the PC odd.
Fetch(a) ==
    LET none == <<0, 0, 0, 0>>
        lo   == Block(Cursor, a, 2, FALSE, none)
        c    == IF Fits(hint, a, 4, FALSE) THEN Block(Cursor, a, 4, FALSE, none)
                ELSE IF lo.fault # NoFault \/ Compressed(a) THEN lo
                ELSE Block(lo, Byte(a, 2), 2, FALSE, none)
    IN  /\ Applied(c)
        /\ last' = [kind |-> "fetch", addr |-> a, size |-> IF Compressed(a) THEN 2 ELSE 4,
                    value |-> <<>>, fault |-> c.fault, before |-> data]

CpuAccess ==
    /\ running
    /\ \E a \in Address :
          \/ Fetch(a)
          \/ \E size \in Sizes : Load(a, size) \/ \E v \in GuestData : Store(a, size, v)
    /\ UNCHANGED <<regions, running, tracking>>

\* DMA_Read and DMA_Write: one byte, behind the back of the latch's owner.
DmaAccess ==
    /\ running
    /\ \E a \in Address, writing \in BOOLEAN, b \in Bytes :
          Applied(ByteAccess([Cursor EXCEPT !.fault = fault], a, writing, b))
    /\ last' = NoAccess
    /\ UNCHANGED <<regions, running, tracking>>

\* The debugger arms or drops its watchpoints.
Watch == running /\ tracking' = ~tracking /\ UNCHANGED <<regions, running, data, hint, fault, last>>

MemNext == Add_Region \/ Start \/ CpuAccess \/ DmaAccess \/ Watch

MemSpec == MemInit /\ [][MemNext]_memVars

----------------------------------------------------------------------------
(* Properties *)

\* A byte is open to an access when a device or some region admits it.
Open(a, writing) ==
    a \in Devices \/ \E i \in DOMAIN regions : Inside(regions[i], a) /\ Allows(i, writing)

Shut == {k \in 0 .. last.size - 1 : ~Open(Byte(last.addr, k), last.kind = "store")}

\* An access faults exactly when one of its bytes is shut, at the first such
\* byte: neither the hint, the fast path, an armed watchpoint nor a failed DMA
\* access in between shows, and a compressed instruction in the last half-word
\* of a region does not fault on the two bytes past it.
FaultExact ==
    last.kind # "none" =>
        IF Shut = {} THEN last.fault = NoFault
        ELSE last.fault = Byte(last.addr, CHOOSE k \in Shut : \A j \in Shut : k <= j)

\* A store writes the open bytes it names, each with its own byte, and nothing
\* else, by whichever path it goes.
StoreExact ==
    last.kind = "store" =>
        \A a \in Address :
            LET k == (a - last.addr) % AddrMod
            IN  data[a] = IF k < last.size /\ Open(a, TRUE) THEN last.value[k + 1]
                          ELSE last.before[a]
=============================================================================
