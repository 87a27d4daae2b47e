------------------------------- MODULE CsrMap -------------------------------
(***************************************************************************)
(* What a guest may expect of the CSRs riscv-csr.adb keeps by name: each   *)
(* is a register of its own, holding what was last written to it, and      *)
(* sstatus, sie and sip are windows on mstatus, mie and mip.  How the      *)
(* registers are stored is CsrFile's business.                             *)
(***************************************************************************)
CONSTANTS
    Bits,        \* bit positions of a register
    Stored,      \* addresses with a register of their own
    ReadOnly,    \* those of them whose address says read-only (bits 11:10)
    Stubs,       \* hardware performance counters: read zero, ignore writes
    Reset,       \* the value of every stored register after reset
    Values,      \* operands of guest instructions
    LineBits,    \* the bits of mip the CLINT drives
    Frames,      \* register sets a trap records itself in, one for each level
    TrapValues,  \* what a trap may leave in them
    WindowBits,  \* the bits a window shows, by window
    WindowWrite  \* the bits a write through a window may change

Windows == {"sstatus", "sie", "sip"}
Behind  == [sstatus |-> "mstatus", sie |-> "mie", sip |-> "mip"]
Ops     == {"rw", "rs", "rc", "read"}   \* read: csrrs or csrrc with x0

VARIABLES
    regs,   \* the registers
    rd      \* what the last CSR instruction returned

vars == <<regs, rd>>

Init == regs = Reset /\ rd = {}

Shown(csr) ==
    IF csr \in Stubs THEN {}
    ELSE IF csr \in Windows THEN regs[Behind[csr]] \cap WindowBits[csr]
    ELSE regs[csr]

Result(op, old, v) ==
    CASE op = "rw" -> v [] op = "rs" -> old \cup v [] op = "rc" -> old \ v

\* A trap is recorded in one level's registers; nothing else changes.
Record ==
    \E F \in Frames : \E saved \in [F -> TrapValues] :
        regs' = [c \in Stored |-> IF c \in F THEN saved[c] ELSE regs[c]]

\* A CSR instruction returns what the register showed.
Access(csr) == rd' = Shown(csr)

Look(csr) == Access(csr) /\ UNCHANGED regs

\* Writing a window changes the bits the window may change.
Through(csr, new) ==
    regs' = [regs EXCEPT ![Behind[csr]] =
                 {b \in Bits : IF b \in WindowWrite[csr] THEN b \in new ELSE b \in @}]

Write(csr, op, v) ==
    LET new == Result(op, Shown(csr), v)
    IN  /\ op # "read"
        /\ Access(csr)
        /\ \/ csr \in Stubs /\ UNCHANGED regs
           \/ csr \in Windows /\ Through(csr, new)
           \/ csr \in Stored \ ReadOnly /\ regs' = [regs EXCEPT ![csr] = new]
           \/ csr \in ReadOnly /\ Record     \* an illegal instruction

Trap == Record /\ UNCHANGED rd

\* The CLINT drives its own bits of mip and no others.
Sample ==
    /\ \E on \in SUBSET LineBits :
          regs' = [regs EXCEPT !["mip"] = {b \in Bits : IF b \in LineBits THEN b \in on ELSE b \in @}]
    /\ UNCHANGED rd

Next ==
    \/ \E csr \in Stored \cup Stubs \cup Windows :
          Look(csr) \/ \E op \in Ops, v \in Values : Write(csr, op, v)
    \/ Trap
    \/ Sample

Spec == Init /\ [][Next]_vars
=============================================================================
