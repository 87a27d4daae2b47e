-------------------------------- MODULE Hart --------------------------------
(***************************************************************************)
(* The privileged core of one hart (riscv-cpu.adb, riscv-csr.adb): trap    *)
(* entry and delegation, MRET and SRET, interrupt selection, the           *)
(* privileged instructions and the CSR writes that steer them.  The RV64   *)
(* hart (riscv-cpu64.adb, riscv-csr64.adb) has the same rules, and a PLIC. *)
(*                                                                         *)
(* Run calls Check_Interrupts, Step and the ticks in turn; phase says      *)
(* which is next.                                                          *)
(* Ordinary instructions are abstract: one retires at a nondeterministic   *)
(* next address, jumps, or raises an exception.  Cause and tval values are *)
(* data no decision reads and are left out; mstatus keeps the nine fields  *)
(* the code tests, a set-valued CSR the interrupt or exception codes whose *)
(* bits are set.  The CSR file is taken to have room (see CsrFile).        *)
(***************************************************************************)
EXTENDS Integers

CONSTANTS
    WordSize,      \* addresses are 0 .. WordSize-1 (2^32 in the code)
    InsnPCs,       \* addresses an instruction may continue or jump to
    BootTvec,      \* trap vectors firmware may have set before the run (0 at reset)
    GuestCSRs,     \* CSRs the guest's instructions name
    Exceptions,    \* exception codes ordinary instructions raise
    StatusValues,  \* values the guest writes to mstatus and sstatus
    TvecValues,    \* ... to mtvec and stvec
    EpcValues,     \* ... to mepc and sepc
    MedelegValues, \* ... to medeleg
    IntSets,       \* ... to mideleg, mie, sie, mip and sip
    Driven,        \* bits of mip the CLINT and, on RV64, the PLIC drive
    SbiEnabled     \* Mem.SBI_Enabled and not Mem.HTIF_Enabled

U == 0
S == 1
M == 3
Privs == {U, S, M}
Target == {S, M}               \* levels a trap can be taken to

SSI == 1
MSI == 3
STI == 5
MTI == 7
SEI == 9
MEI == 11
IntCodes  == {SSI, MSI, STI, MTI, SEI, MEI}
SLevel    == {SSI, STI, SEI}   \* SIP_MASK
ExcCodes  == 0 .. 15
Word      == 0 .. WordSize - 1

MachineCSRs == {"mstatus", "mtvec", "mepc", "medeleg", "mideleg", "mie", "mip", "misa"}
SupervisorCSRs == {"sstatus", "stvec", "sepc", "sie", "sip", "satp"}

Status == [MIE : BOOLEAN, MPIE : BOOLEAN, MPP : 0 .. 3,
           SIE : BOOLEAN, SPIE : BOOLEAN, SPP : BOOLEAN,
           TVM : BOOLEAN, TW : BOOLEAN, TSR : BOOLEAN]

ASSUME HartAssumption ==
    /\ WordSize \in Nat /\ WordSize >= 64
    /\ InsnPCs \subseteq Word
    /\ BootTvec \subseteq Word
    /\ GuestCSRs \subseteq MachineCSRs \cup SupervisorCSRs
    /\ Exceptions \subseteq ExcCodes
    /\ StatusValues \subseteq Status
    /\ TvecValues \subseteq Word
    /\ EpcValues \subseteq Word
    /\ MedelegValues \subseteq (SUBSET ExcCodes)
    /\ IntSets \subseteq (SUBSET IntCodes)
    /\ Driven \subseteq {MTI, MSI, MEI, SEI}
    /\ SbiEnabled \in BOOLEAN

VARIABLES
    pc, priv, halted,
    resv,          \* Reservation_Valid: an LR is outstanding
    status,        \* mstatus
    tvec, epc,     \* stvec/mtvec and sepc/mepc, by level
    medeleg, mideleg, mie, mip,
    cExt,          \* misa.C: compressed instructions enabled, IALIGN=16
    lines,         \* the bits of mip that the CLINT and the PLIC assert
    phase,         \* "check", "step" or "tick": the next call of Run
    transfer       \* history: the last step moved pc by a jump or a return

csrVars == <<status, tvec, epc, medeleg, mideleg, mie, mip, cExt>>
vars == <<pc, priv, halted, resv, csrVars, lines, phase, transfer>>

TypeOK ==
    /\ pc \in Word
    /\ priv \in Privs
    /\ halted \in BOOLEAN
    /\ resv \in BOOLEAN
    /\ status \in Status
    /\ tvec \in [Target -> Word]
    /\ epc \in [Target -> Word]
    /\ medeleg \in SUBSET ExcCodes
    /\ mideleg \in SUBSET IntCodes
    /\ mie \in SUBSET IntCodes
    /\ mip \in SUBSET IntCodes
    /\ cExt \in BOOLEAN
    /\ lines \in SUBSET Driven
    /\ phase \in {"check", "step", "tick"}
    /\ transfer \in BOOLEAN

\* Initialize and CSR.Initialize: machine mode, everything else zero, C on; a
\* run may start after firmware has written the trap vectors.
Init ==
    /\ pc \in InsnPCs
    /\ priv = M
    /\ halted = FALSE
    /\ resv = FALSE
    /\ status = [MIE |-> FALSE, MPIE |-> FALSE, MPP |-> 0,
                 SIE |-> FALSE, SPIE |-> FALSE, SPP |-> FALSE,
                 TVM |-> FALSE, TW |-> FALSE, TSR |-> FALSE]
    /\ tvec \in [Target -> BootTvec]
    /\ epc = [t \in Target |-> 0]
    /\ medeleg = {} /\ mideleg = {} /\ mie = {} /\ mip = {}
    /\ cExt = TRUE
    /\ lines = {}
    /\ phase = "check"
    /\ transfer = FALSE

----------------------------------------------------------------------------
(* Trap entry and the two returns. *)

Delegated(isInt, code) ==
    priv # M /\ code \in (IF isInt THEN mideleg ELSE medeleg)

TrapLevel(isInt, code) == IF Delegated(isInt, code) THEN S ELSE M

\* v with its low bits cleared (v and not (n - 1)).
AlignDown(v, n) == v - (v % n)

\* Where tvec v sends a trap: base, or base + 4*code for a vectored interrupt.
Vector(v, isInt, code) ==
    IF v % 4 = 1 /\ isInt THEN (AlignDown(v, 4) + 4 * code) % WordSize ELSE AlignDown(v, 4)

\* Fault variant: the handler entered with its interrupts still enabled.
PushedUnmasked(t) ==
    IF t = S
    THEN [status EXCEPT !.SPIE = status.SIE, !.SPP = (priv = S)]
    ELSE [status EXCEPT !.MPIE = status.MIE, !.MPP = priv]

\* The interrupt-enable stack of level t pushed, the interrupted level saved.
Pushed(t) ==
    IF t = S
    THEN [status EXCEPT !.SPIE = status.SIE, !.SIE = FALSE, !.SPP = (priv = S)]
    ELSE [status EXCEPT !.MPIE = status.MIE, !.MIE = FALSE, !.MPP = priv]

\* Trap_Entry: a zero trap vector halts the hart and records nothing.
Trap_Entry(isInt, code) ==
    LET t == TrapLevel(isInt, code)
    IN  /\ \/ /\ tvec[t] = 0
              /\ halted' = TRUE
              /\ UNCHANGED <<pc, priv, status, epc>>
           \/ /\ tvec[t] # 0
              /\ epc' = [epc EXCEPT ![t] = pc]
              /\ status' = Pushed(t)
              /\ pc' = Vector(tvec[t], isInt, code)
              /\ priv' = t
              /\ UNCHANGED halted
        /\ transfer' = FALSE
        /\ UNCHANGED <<resv, tvec, medeleg, mideleg, cExt, lines>>

\* Fault variant: the reservation kept.
ReservationKept == resv

\* MPP as a privilege level: the reserved encoding returns to user mode.
MppLevel(mpp) == IF mpp = 2 THEN U ELSE mpp

\* Reservation_Valid after a trap return.
ReservationAfterReturn == FALSE

\* mepc as MRET uses it: bit 0 dropped, and bit 1 too when IALIGN=32.
Mepc == AlignDown(epc[M], IF cExt THEN 2 ELSE 4)

Mret ==
    /\ status' = [status EXCEPT !.MIE = status.MPIE, !.MPIE = TRUE, !.MPP = U]
    /\ priv' = MppLevel(status.MPP)
    /\ pc' = Mepc
    /\ resv' = ReservationAfterReturn
    /\ transfer' = TRUE
    /\ UNCHANGED <<halted, tvec, epc, medeleg, mideleg, mie, mip, cExt, lines>>

Sret ==
    /\ status' = [status EXCEPT !.SIE = status.SPIE, !.SPIE = TRUE, !.SPP = FALSE]
    /\ priv' = IF status.SPP THEN S ELSE U
    /\ pc' = epc[S]
    /\ resv' = ReservationAfterReturn
    /\ transfer' = TRUE
    /\ UNCHANGED <<halted, tvec, epc, medeleg, mideleg, mie, mip, cExt, lines>>

----------------------------------------------------------------------------
(* Check_Interrupts. *)

\* Fault variant: mstatus.MIE consulted at every level.
M_EnabledByMIE == status.MIE

\* An interrupt targeting M is taken below M, or in M with MIE; one targeting
\* S below S, or in S with SIE.
M_Enabled == priv # M \/ status.MIE
S_Enabled == priv = U \/ (priv = S /\ status.SIE)

\* Fault variant: the enable chosen by the level that names the bit.
Enabled_ForLevel(i) == IF i \in SLevel THEN S_Enabled ELSE M_Enabled

\* Which enable applies depends on where the interrupt is delegated to.
Enabled_For(i) == IF i \in mideleg THEN S_Enabled ELSE M_Enabled

\* mip with the lines sampled into it.
SampledMip == (mip \ Driven) \cup lines

\* MEI > MSI > MTI > SEI > SSI > STI.
Rank(i) == CASE i = MEI -> 1 [] i = MSI -> 2 [] i = MTI -> 3
             [] i = SEI -> 4 [] i = SSI -> 5 [] OTHER -> 6

Takeable == {i \in SampledMip \cap mie : Enabled_For(i)}

Check_Interrupts ==
    /\ phase = "check" /\ ~halted
    /\ mip' = SampledMip
    /\ \/ /\ Takeable = {}
          /\ transfer' = FALSE
          /\ UNCHANGED <<pc, priv, halted, resv, status, tvec, epc,
                         medeleg, mideleg, cExt, lines>>
       \/ \E i \in Takeable :
             /\ \A j \in Takeable : Rank(i) <= Rank(j)
             /\ Trap_Entry(TRUE, i)
    /\ mie' = mie
    /\ phase' = "step"

----------------------------------------------------------------------------
(* Step: one instruction, or nothing on a halted hart. *)

\* Leaves everything but pc alone: the instruction retires at next.
Retire(next) ==
    /\ pc' = next
    /\ transfer' = FALSE
    /\ UNCHANGED <<priv, halted, resv, csrVars, lines>>

Exception(code) == Trap_Entry(FALSE, code) /\ UNCHANGED <<mie, mip>>

IllegalInsn == Exception(2)

HaltedStep == halted /\ transfer' = FALSE /\ UNCHANGED <<pc, priv, halted, resv, csrVars, lines>>

\* JAL, JALR and taken branches: with C off a target at 2 mod 4 faults.
Jump(next) ==
    IF next % 4 >= 2 /\ ~cExt
    THEN Exception(0)
    ELSE /\ pc' = next
         /\ transfer' = TRUE
         /\ UNCHANGED <<priv, halted, resv, csrVars, lines>>

\* LR sets the reservation; SC uses it up (which address it names is LrSc's).
LoadReserved(next) ==
    /\ pc' = next /\ resv' = TRUE /\ transfer' = FALSE
    /\ UNCHANGED <<priv, halted, csrVars, lines>>

StoreConditional(next) ==
    /\ pc' = next /\ resv' = FALSE /\ transfer' = FALSE
    /\ UNCHANGED <<priv, halted, csrVars, lines>>

InsnMret == IF priv # M THEN IllegalInsn ELSE Mret

InsnSret == IF priv = U \/ (priv = S /\ status.TSR) THEN IllegalInsn ELSE Sret

InsnWfi(next) == IF priv # M /\ status.TW THEN IllegalInsn ELSE Retire(next)

InsnSfence(next) == IF priv = S /\ status.TVM THEN IllegalInsn ELSE Retire(next)

\* ECALL: the SBI shim answers supervisor calls; others trap with the cause of
\* their level.  set_timer clears STIP, shutdown halts, the rest only retire.
InsnEcall(next) ==
    IF priv = S /\ SbiEnabled
    THEN /\ pc' = next /\ transfer' = FALSE
         /\ \/ mip' = mip \ {STI} /\ UNCHANGED halted
            \/ halted' = TRUE     /\ UNCHANGED mip
            \/ UNCHANGED <<mip, halted>>
         /\ UNCHANGED <<priv, resv, status, tvec, epc, medeleg, mideleg, mie, cExt, lines>>
    ELSE Exception(8 + priv)

\* mstatus after v is written through the sstatus view.
SstatusMerge(v) == [status EXCEPT !.SIE = v.SIE, !.SPIE = v.SPIE, !.SPP = v.SPP]

\* The effect of CSR.Write on each register the model keeps; sstatus, sie and
\* sip are masked views, and misa.C may not be cleared in front of a 2 mod 4
\* address.
WriteCSR(csr, next) ==
    \/ /\ csr = "mstatus"
       /\ \E v \in StatusValues : status' = v
       /\ UNCHANGED <<tvec, epc, medeleg, mideleg, mie, mip, cExt>>
    \/ /\ csr = "sstatus"
       /\ \E v \in StatusValues : status' = SstatusMerge(v)
       /\ UNCHANGED <<tvec, epc, medeleg, mideleg, mie, mip, cExt>>
    \/ /\ csr \in {"mtvec", "stvec"}
       /\ \E v \in TvecValues :
             tvec' = [tvec EXCEPT ![IF csr = "mtvec" THEN M ELSE S] = v]
       /\ UNCHANGED <<status, epc, medeleg, mideleg, mie, mip, cExt>>
    \/ /\ csr \in {"mepc", "sepc"}
       /\ \E v \in EpcValues :
             epc' = [epc EXCEPT ![IF csr = "mepc" THEN M ELSE S] = v]
       /\ UNCHANGED <<status, tvec, medeleg, mideleg, mie, mip, cExt>>
    \/ /\ csr = "medeleg"
       /\ medeleg' \in MedelegValues
       /\ UNCHANGED <<status, tvec, epc, mideleg, mie, mip, cExt>>
    \/ /\ csr = "mideleg"
       /\ mideleg' \in IntSets
       /\ UNCHANGED <<status, tvec, epc, medeleg, mie, mip, cExt>>
    \/ /\ csr = "mie"
       /\ mie' \in IntSets
       /\ UNCHANGED <<status, tvec, epc, medeleg, mideleg, mip, cExt>>
    \/ /\ csr = "sie"
       /\ \E v \in IntSets : mie' = (mie \ SLevel) \cup (v \cap SLevel)
       /\ UNCHANGED <<status, tvec, epc, medeleg, mideleg, mip, cExt>>
    \/ /\ csr = "mip"
       /\ mip' \in IntSets
       /\ UNCHANGED <<status, tvec, epc, medeleg, mideleg, mie, cExt>>
    \/ /\ csr = "sip"
       /\ \E v \in IntSets : mip' = (mip \ {SSI}) \cup (v \cap {SSI})
       /\ UNCHANGED <<status, tvec, epc, medeleg, mideleg, mie, cExt>>
    \/ /\ csr = "misa"
       /\ \E c \in BOOLEAN : cExt' = (c \/ (cExt /\ next % 4 >= 2))
       /\ UNCHANGED <<status, tvec, epc, medeleg, mideleg, mie, mip>>
    \/ /\ csr = "satp"
       /\ UNCHANGED csrVars

\* Fault variant: medeleg and mideleg open to supervisor mode.
MinPrivilegeLax(csr) ==
    IF csr \in MachineCSRs \ {"medeleg", "mideleg"} THEN M ELSE S

\* Get_Min_Privilege, from bits 9:8 of the CSR's address.
MinPrivilege(csr) == IF csr \in MachineCSRs THEN M ELSE S

Can_Access_CSR(csr) == priv >= MinPrivilege(csr)

InsnCsr(csr, next) ==
    IF ~Can_Access_CSR(csr) \/ (csr = "satp" /\ priv = S /\ status.TVM)
    THEN IllegalInsn
    ELSE /\ WriteCSR(csr, next)
         /\ pc' = next /\ transfer' = FALSE
         /\ UNCHANGED <<priv, halted, resv, lines>>

Instruction ==
    \/ \E next \in InsnPCs :
          \/ Retire(next)
          \/ Jump(next)
          \/ LoadReserved(next)
          \/ StoreConditional(next)
          \/ InsnWfi(next)
          \/ InsnSfence(next)
          \/ InsnEcall(next)
          \/ \E csr \in GuestCSRs : InsnCsr(csr, next)
    \/ \E code \in Exceptions : Exception(code)
    \/ InsnMret
    \/ InsnSret

Step ==
    /\ phase = "step"
    /\ HaltedStep \/ (~halted /\ Instruction)
    /\ phase' = "tick"

\* CLINT_Tick, what the guest stored to the CLINT and the PLIC in this step and
\* what the devices did: the lines may take any value before the next check.
LinesMove ==
    /\ phase = "tick"
    /\ lines' \in SUBSET Driven
    /\ transfer' = FALSE
    /\ phase' = "check"
    /\ UNCHANGED <<pc, priv, halted, resv, csrVars>>

Next == Check_Interrupts \/ Step \/ LinesMove

Spec == Init /\ [][Next]_vars

\* Run keeps going round its loop until the hart halts.
FairSpec == Spec /\ WF_vars(Next)

----------------------------------------------------------------------------
(* Properties *)

\* A trap never lowers the privilege level and a rise is always a trap: the
\* hart lands on the handler of the level it rises to, with the interrupted
\* address saved there and that level's interrupts masked.  Check_Interrupts
\* chooses an interrupt by Enabled_For, Trap_Entry its level by delegation:
\* the property is that the two decisions agree.
RiseIsATrap ==
    [][priv' > priv =>
          /\ epc'[priv'] = pc
          /\ \E b \in BOOLEAN, c \in IntCodes : pc' = Vector(tvec[priv'], b, c)
          /\ IF priv' = S THEN ~status'.SIE /\ ~status'.SPP
                          ELSE ~status'.MIE /\ status'.MPP = priv]_vars

\* The privilege level falls only by a trap return, which breaks the hart's
\* load reservation: no SC can pair with an LR of another context.
FallBreaksReservation == [][priv' < priv => ~resv' /\ transfer']_vars

\* An interrupt never overwrites a live trap frame: the saved pc of a level is
\* clobbered only from below that level, or from it with interrupts enabled.
InterruptsSpareFrames ==
    [][phase = "check" =>
          /\ epc'[M] # epc[M] => priv # M \/ status.MIE
          /\ epc'[S] # epc[S] => priv = U \/ (priv = S /\ status.SIE)]_vars

\* Nothing below machine mode changes machine state except by trapping into
\* it: sstatus, sie and sip reach only the S-level bits.
MachineStateIsolated ==
    [][priv # M /\ priv' # M =>
          /\ <<tvec'[M], epc'[M], medeleg', mideleg', cExt'>>
               = <<tvec[M], epc[M], medeleg, mideleg, cExt>>
          /\ <<status'.MIE, status'.MPIE, status'.MPP, status'.TVM, status'.TW, status'.TSR>>
               = <<status.MIE, status.MPIE, status.MPP, status.TVM, status.TW, status.TSR>>
          /\ mie' \ SLevel = mie \ SLevel
          /\ mip' \ {SSI, STI} = IF phase = "check" THEN SampledMip \ {SSI, STI}
                                                    ELSE mip \ {SSI, STI}]_vars

\* A machine timer interrupt that stays asserted, enabled and undelegated is
\* taken in the end from any lower level, unless a higher-priority interrupt
\* is delegated: mideleg.MEI or MSI set lets S-mode traps starve it.
TimerDelivered ==
    (<>[](/\ MTI \in lines /\ MTI \in mie /\ MTI \notin mideleg /\ ~halted
          /\ {MEI, MSI} \cap mideleg = {} /\ tvec[M] # 0)) => []<>(priv = M)
=============================================================================
