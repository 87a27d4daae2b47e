------------------------------ MODULE CsrFile ------------------------------
(***************************************************************************)
(* The CSR register file (riscv-csr.adb): a table of Max_CSR_Count slots,  *)
(* filled from the front as addresses are first written, searched from the *)
(* front on every access, with the supervisor views computed from the      *)
(* machine registers behind them.                                          *)
(*                                                                         *)
(* A register is the set of its bits.  The privilege check in front of an  *)
(* access and the registers kept outside the table (the counters, misa.C,  *)
(* the FP and vector state) are not part of this module.                   *)
(***************************************************************************)
EXTENDS Naturals, FiniteSets, Sequences, SequencesExt

CONSTANTS
    Slots,       \* Max_CSR_Count (52 in the code)
    Preset,      \* the addresses Initialize writes, in order (17 in the code)
    TrapWrites,  \* what Trap_Entry writes, in order, by level trapped to
    Bits, Stored, ReadOnly, Stubs, Reset, Values, TrapValues,
    LineBits,    \* the bits of mip the CLINT drives: MTIP and MSIP
    WindowBits,  \* SSTATUS_MASK and SIP_MASK
    WindowWrite  \* SSTATUS_MASK, SIP_MASK for sie, SIP_WRITE_MASK for sip

Windows == {"sstatus", "sie", "sip"}
Behind  == [sstatus |-> "mstatus", sie |-> "mie", sip |-> "mip"]
Ops     == {"rw", "rs", "rc", "read"}

ASSUME CsrAssumption ==
    /\ Slots \in Nat /\ Len(Preset) <= Slots
    /\ \A i, j \in DOMAIN Preset : Preset[i] = Preset[j] => i = j
    /\ ToSet(Preset) \subseteq Stored
    /\ {"mstatus", "mie", "mip"} \subseteq Stored \ ReadOnly
    /\ ReadOnly \subseteq ToSet(Preset)
    /\ Stored \cap (Stubs \cup Windows) = {} /\ Stubs \cap Windows = {}
    /\ \A w \in TrapWrites : w \in Seq(Stored \ ReadOnly)
    /\ Reset \in [Stored -> SUBSET Bits]
    /\ \A c \in Stored \ ToSet(Preset) : Reset[c] = {}
    /\ Values \subseteq (SUBSET Bits) /\ TrapValues \subseteq (SUBSET Bits)
    /\ LineBits \subseteq Bits
    /\ WindowBits \in [Windows -> SUBSET Bits]
    /\ WindowWrite \in [Windows -> SUBSET Bits]

VARIABLES
    file,    \* Entries (0 .. Count-1)
    rd       \* what the last CSR instruction returned

vars == <<file, rd>>

Entry == [addr : Stored, value : SUBSET Bits]

TypeOK ==
    /\ file \in Seq(Entry) /\ Len(file) <= Slots
    /\ rd \in SUBSET Bits

----------------------------------------------------------------------------
(* Read *)

\* The slots of f holding addr.
At(f, addr) == {i \in DOMAIN f : f[i].addr = addr}

\* The slot the search stops at.
Search(f, addr) == CHOOSE i \in At(f, addr) : \A j \in At(f, addr) : i <= j

Lookup(f, addr) == IF At(f, addr) = {} THEN {} ELSE f[Search(f, addr)].value

Read(f, csr) ==
    IF csr \in Stubs THEN {}
    ELSE IF csr \in Windows THEN Lookup(f, Behind[csr]) \cap WindowBits[csr]
    ELSE Lookup(f, csr)

----------------------------------------------------------------------------
(* Write *)

\* Fault variant: one slot wasted.
PutShort(f, addr, v) ==
    IF At(f, addr) # {} THEN [f EXCEPT ![Search(f, addr)].value = v]
    ELSE IF Len(f) + 1 < Slots THEN Append(f, [addr |-> addr, value |-> v]) ELSE f

\* The table with v at addr: a full table drops a new address.
Put(f, addr, v) ==
    IF At(f, addr) # {} THEN [f EXCEPT ![Search(f, addr)].value = v]
    ELSE IF Len(f) < Slots THEN Append(f, [addr |-> addr, value |-> v]) ELSE f

\* What a write through a view stores in the register behind it.
Merged(f, csr, v) ==
    (Lookup(f, Behind[csr]) \ WindowWrite[csr]) \cup (v \cap WindowWrite[csr])

Write(f, csr, v) ==
    IF csr \in Stubs THEN f
    ELSE IF csr \in Windows THEN Put(f, Behind[csr], Merged(f, csr, v))
    ELSE Put(f, csr, v)

----------------------------------------------------------------------------

\* Initialize
Init ==
    /\ file = [i \in DOMAIN Preset |-> [addr |-> Preset[i], value |-> Reset[Preset[i]]]]
    /\ rd = {}

\* Trap_Entry's writes, one after the other.
Trapped(f, w, v) ==
    LET after[n \in 0 .. Len(w)] == IF n = 0 THEN f ELSE Put(after[n - 1], w[n], v[n])
    IN  after[Len(w)]

Record ==
    \E w \in TrapWrites : \E v \in [DOMAIN w -> TrapValues] :
        file' = Trapped(file, w, v)

Trap == Record /\ UNCHANGED rd

\* Check_Interrupts stores mip with the CLINT's lines in it.
Sample ==
    /\ \E on \in SUBSET LineBits : file' = Write(file, "mip", (Read(file, "mip") \ LineBits) \cup on)
    /\ UNCHANGED rd

\* CSRRS and CSRRC with x0, and their immediate forms, only read.
ReadInsn(csr) == rd' = Read(file, csr) /\ UNCHANGED file

New_Val(op, old, v) ==
    CASE op = "rw" -> v [] op = "rs" -> old \cup v [] op = "rc" -> old \ v

\* The others write; rd is written before a read-only address is refused.
WriteInsn(csr, op, v) ==
    /\ op # "read"
    /\ rd' = Read(file, csr)
    /\ \/ csr \in ReadOnly /\ Record
       \/ csr \notin ReadOnly /\ file' = Write(file, csr, New_Val(op, Read(file, csr), v))

Instruction ==
    \E csr \in Stored \cup Stubs \cup Windows :
       ReadInsn(csr) \/ \E op \in Ops, v \in Values : WriteInsn(csr, op, v)

Next == Instruction \/ Trap \/ Sample

Spec == Init /\ [][Next]_vars

----------------------------------------------------------------------------
(* Properties *)

\* The table has a slot for every address in use.
Roomy == IsFiniteSet(Stored) /\ Cardinality(Stored) <= Slots

\* With a slot for every address in use the table is a map of independent
\* registers, the views are windows on them, and no write is lost (CsrMap).
Map == INSTANCE CsrMap WITH
    regs <- [c \in Stored |-> Lookup(file, c)],
    Frames <- {ToSet(w) : w \in TrapWrites}
MapSpec == Map!Spec
=============================================================================
