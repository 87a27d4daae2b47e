----------------------------- MODULE HartProofs -----------------------------
(***************************************************************************)
(* What holds of the hart for every address width, every set of guest      *)
(* values and every interleaving of checks, instructions and lines.        *)
(* The action properties need only the types: each is proved for one step  *)
(* from TypeOK, with one lemma per procedure that moves the hart between   *)
(* privilege levels.                                                       *)
(*                                                                         *)
(* And of its MMU, for tables of any depth and width, any TLB and any      *)
(* edits of the kernel.  A walk ends at an entry stored in a table, and    *)
(* bits A and D set in an entry show in the walks that end there and in no *)
(* other; so that a trusted TLB agrees with the tables is inductive.       *)
(***************************************************************************)
EXTENDS Hart, Mmu, Facts

\* Clearing the low bit or two of an address leaves an address.
LEMMA AlignType ==
    ASSUME NEW v \in Word, NEW n \in {2, 4}
    PROVE  AlignDown(v, n) \in Word
BY HartAssumption DEF AlignDown, Word

\* Every trap vector is an address, the vectored ones modulo the address width.
LEMMA VectorType ==
    ASSUME NEW v \in Word, NEW b \in BOOLEAN, NEW code \in Nat
    PROVE  Vector(v, b, code) \in Word
<1>1. AlignDown(v, 4) \in Word
  BY AlignType
<1>2. (AlignDown(v, 4) + 4 * code) % WordSize \in Word
  BY <1>1, HartAssumption DEF Word
<1>3. QED
  BY <1>1, <1>2 DEF Vector

\* mstatus with three S-level, or M-level, fields replaced is an mstatus, and
\* has the new values there.
LEMMA StatusUpdateS ==
    ASSUME NEW s \in Status, NEW x \in BOOLEAN, NEW y \in BOOLEAN, NEW z \in BOOLEAN
    PROVE  /\ [s EXCEPT !.SPIE = x, !.SIE = y, !.SPP = z] \in Status
           /\ [s EXCEPT !.SPIE = x, !.SIE = y, !.SPP = z].SIE = y
           /\ [s EXCEPT !.SPIE = x, !.SIE = y, !.SPP = z].SPP = z
BY DEF Status

LEMMA StatusUpdateM ==
    ASSUME NEW s \in Status, NEW x \in BOOLEAN, NEW y \in BOOLEAN, NEW z \in 0 .. 3
    PROVE  /\ [s EXCEPT !.MPIE = x, !.MIE = y, !.MPP = z] \in Status
           /\ [s EXCEPT !.MPIE = x, !.MIE = y, !.MPP = z].MIE = y
           /\ [s EXCEPT !.MPIE = x, !.MIE = y, !.MPP = z].MPP = z
BY DEF Status

\* The fields of mstatus pushed by a trap keep their types.
LEMMA PushedType ==
    ASSUME status \in Status, priv \in Privs, NEW t \in Target
    PROVE  Pushed(t) \in Status
<1> DEFINE spp == (priv = S)
<1>1. spp \in BOOLEAN /\ status.SIE \in BOOLEAN /\ status.MIE \in BOOLEAN
  BY DEF Status
<1>2. priv \in 0 .. 3
  BY DEF Privs, U, S, M
<1> HIDE DEF spp
<1>3. [status EXCEPT !.SPIE = status.SIE, !.SIE = FALSE, !.SPP = spp] \in Status
  BY <1>1, StatusUpdateS
<1>4. [status EXCEPT !.MPIE = status.MIE, !.MIE = FALSE, !.MPP = priv] \in Status
  BY <1>1, <1>2, StatusUpdateM
<1>5. QED
  BY <1>3, <1>4 DEF Pushed, spp

\* The types an instruction can disturb: the frame a trap writes and the rest.
FrameOK ==
    /\ pc \in Word
    /\ priv \in Privs
    /\ halted \in BOOLEAN
    /\ status \in Status
    /\ epc \in [Target -> Word]
    /\ transfer \in BOOLEAN

RestOK ==
    /\ resv \in BOOLEAN
    /\ tvec \in [Target -> Word]
    /\ medeleg \in SUBSET ExcCodes
    /\ mideleg \in SUBSET IntCodes
    /\ mie \in SUBSET IntCodes
    /\ mip \in SUBSET IntCodes
    /\ cExt \in BOOLEAN

\* Trap_Entry, of an interrupt or an exception, keeps the types.
LEMMA TrapEntryType ==
    ASSUME TypeOK, NEW b \in BOOLEAN, NEW code \in Nat, Trap_Entry(b, code)
    PROVE  FrameOK'
<1> DEFINE t == TrapLevel(b, code)
<1>1. t \in Target /\ t \in Privs /\ tvec[t] \in Word
  BY DEF TrapLevel, Target, Privs, TypeOK
<1>2. CASE tvec[t] = 0
  BY <1>2 DEF Trap_Entry, TypeOK, FrameOK
<1>3. CASE tvec[t] # 0
  <2>1. pc' \in Word
    BY <1>1, <1>3, VectorType DEF Trap_Entry
  <2>2. status' \in Status
    BY <1>1, <1>3, PushedType DEF Trap_Entry, TypeOK
  <2>3. QED
    BY <1>1, <1>3, <2>1, <2>2 DEF Trap_Entry, TypeOK, FrameOK
<1>4. QED
  BY <1>2, <1>3

\* So does a trap as the whole effect of an instruction.
LEMMA ExceptionType ==
    ASSUME TypeOK, NEW code \in Nat, Exception(code)
    PROVE  FrameOK' /\ RestOK'
<1>1. Trap_Entry(FALSE, code)
  BY DEF Exception
<1>2. FrameOK'
  BY <1>1, TrapEntryType
<1>3. RestOK'
  BY <1>1 DEF Exception, Trap_Entry, RestOK, TypeOK
<1>4. QED
  BY <1>2, <1>3

\* MRET lands on an address, at a level that exists.
LEMMA MretType ==
    ASSUME TypeOK, Mret
    PROVE  FrameOK' /\ RestOK'
<1>1. Mepc \in Word
  BY AlignType DEF Mepc, TypeOK, Target
<1>2. MppLevel(status.MPP) \in Privs
  BY DEF TypeOK, Status, MppLevel, Privs, U, S, M
<1>3. status.MPIE \in BOOLEAN
  BY DEF TypeOK, Status
<1>4. [status EXCEPT !.MIE = status.MPIE, !.MPIE = TRUE, !.MPP = U] \in Status
  <2>1. ASSUME NEW x \in BOOLEAN, NEW z \in 0 .. 3
        PROVE  [status EXCEPT !.MIE = x, !.MPIE = TRUE, !.MPP = z] \in Status
    BY DEF TypeOK, Status
  <2>2. U \in 0 .. 3
    BY DEF U
  <2>3. QED
    BY <1>3, <2>1, <2>2
<1>5. QED
  BY <1>1, <1>2, <1>3, <1>4
     DEF Mret, FrameOK, RestOK, TypeOK, ReservationAfterReturn

LEMMA SretType ==
    ASSUME TypeOK, Sret
    PROVE  FrameOK' /\ RestOK'
<1>1. epc[S] \in Word
  BY DEF TypeOK, Target
<1>2. (IF status.SPP THEN S ELSE U) \in Privs
  BY DEF Privs
<1>3. status.SPIE \in BOOLEAN
  BY DEF TypeOK, Status
<1>4. ASSUME NEW x \in BOOLEAN
      PROVE  [status EXCEPT !.SIE = x, !.SPIE = TRUE, !.SPP = FALSE] \in Status
  BY DEF TypeOK, Status
<1>5. QED
  BY <1>1, <1>2, <1>3, <1>4
     DEF Sret, FrameOK, RestOK, TypeOK, ReservationAfterReturn

\* Every CSR write leaves the privileged registers within their types.
LEMMA WriteCSRType ==
    ASSUME TypeOK, NEW csr, NEW next, WriteCSR(csr, next)
    PROVE  /\ status' \in Status
           /\ epc' \in [Target -> Word]
           /\ tvec' \in [Target -> Word]
           /\ medeleg' \in SUBSET ExcCodes
           /\ mideleg' \in SUBSET IntCodes
           /\ mie' \in SUBSET IntCodes
           /\ mip' \in SUBSET IntCodes
           /\ cExt' \in BOOLEAN
<1> USE HartAssumption DEF TypeOK
<1>1. ASSUME NEW v \in StatusValues
      PROVE  SstatusMerge(v) \in Status
  <2>1. v.SIE \in BOOLEAN /\ v.SPIE \in BOOLEAN /\ v.SPP \in BOOLEAN
    BY DEF Status
  <2>2. ASSUME NEW x \in BOOLEAN, NEW y \in BOOLEAN, NEW z \in BOOLEAN
        PROVE  [status EXCEPT !.SIE = x, !.SPIE = y, !.SPP = z] \in Status
    BY DEF Status
  <2>3. QED
    BY <2>1, <2>2 DEF SstatusMerge
<1>2. CASE csr \in {"mstatus", "sstatus"}
  BY <1>1, <1>2 DEF WriteCSR
<1>3. CASE csr \in {"mtvec", "stvec", "mepc", "sepc"}
  BY <1>3 DEF WriteCSR
<1>4. CASE csr \in {"medeleg", "mideleg"}
  BY <1>4 DEF WriteCSR
<1>5. CASE csr \in {"mie", "sie", "mip", "sip"}
  BY <1>5 DEF WriteCSR
<1>6. CASE csr \in {"misa", "satp"}
  BY <1>6 DEF WriteCSR, csrVars
<1>7. QED
  BY <1>2, <1>3, <1>4, <1>5, <1>6 DEF WriteCSR

\* One instruction, whatever it is and wherever it goes, keeps the types.
LEMMA InstructionType ==
    ASSUME TypeOK, Instruction
    PROVE  FrameOK' /\ RestOK'
<1>1. ASSUME NEW code \in Nat, Exception(code)
      PROVE  FrameOK' /\ RestOK'
  BY <1>1, ExceptionType
<1>2. ASSUME IllegalInsn PROVE FrameOK' /\ RestOK'
  BY <1>1, <1>2 DEF IllegalInsn
<1>3. ASSUME NEW next \in InsnPCs, Retire(next)
      PROVE  FrameOK' /\ RestOK'
  BY <1>3, HartAssumption DEF Retire, TypeOK, FrameOK, RestOK, csrVars
<1>4. ASSUME NEW next \in InsnPCs, Jump(next)
      PROVE  FrameOK' /\ RestOK'
  <2>1. CASE next % 4 >= 2 /\ ~cExt
    BY <1>1, <1>4, <2>1 DEF Jump
  <2>2. CASE ~(next % 4 >= 2 /\ ~cExt)
    BY <1>4, <2>2, HartAssumption DEF Jump, TypeOK, FrameOK, RestOK, csrVars
  <2>3. QED
    BY <2>1, <2>2
<1>5. ASSUME NEW next \in InsnPCs, LoadReserved(next) \/ StoreConditional(next)
      PROVE  FrameOK' /\ RestOK'
  BY <1>5, HartAssumption
     DEF LoadReserved, StoreConditional, TypeOK, FrameOK, RestOK, csrVars
<1>6. ASSUME NEW next \in InsnPCs, InsnWfi(next) \/ InsnSfence(next)
      PROVE  FrameOK' /\ RestOK'
  BY <1>2, <1>3, <1>6 DEF InsnWfi, InsnSfence
<1>7. ASSUME NEW next \in InsnPCs, InsnEcall(next)
      PROVE  FrameOK' /\ RestOK'
  <2>1. CASE priv = S /\ SbiEnabled
    <3>1. pc' \in Word
      BY <1>7, <2>1, HartAssumption DEF InsnEcall
    <3>2. mip' \in SUBSET IntCodes /\ halted' \in BOOLEAN
      BY <1>7, <2>1 DEF InsnEcall, TypeOK
    <3>3. QED
      BY <1>7, <2>1, <3>1, <3>2 DEF InsnEcall, TypeOK, FrameOK, RestOK
  <2>2. CASE ~(priv = S /\ SbiEnabled)
    <3>1. 8 + priv \in Nat
      BY DEF TypeOK, Privs, U, S, M
    <3>2. QED
      BY <1>1, <1>7, <2>2, <3>1 DEF InsnEcall
  <2>3. QED
    BY <2>1, <2>2
<1>8. ASSUME NEW next \in InsnPCs, NEW csr \in GuestCSRs, InsnCsr(csr, next)
      PROVE  FrameOK' /\ RestOK'
  <2>1. CASE ~Can_Access_CSR(csr) \/ (csr = "satp" /\ priv = S /\ status.TVM)
    BY <1>2, <1>8, <2>1 DEF InsnCsr
  <2>2. CASE ~(~Can_Access_CSR(csr) \/ (csr = "satp" /\ priv = S /\ status.TVM))
    <3>1. WriteCSR(csr, next)
      BY <1>8, <2>2 DEF InsnCsr
    <3>2. QED
      BY <1>8, <2>2, <3>1, WriteCSRType, HartAssumption
         DEF InsnCsr, TypeOK, FrameOK, RestOK
  <2>3. QED
    BY <2>1, <2>2
<1>9. ASSUME InsnMret PROVE FrameOK' /\ RestOK'
  BY <1>2, <1>9, MretType DEF InsnMret
<1>10. ASSUME InsnSret PROVE FrameOK' /\ RestOK'
  BY <1>2, <1>10, SretType DEF InsnSret
<1>11. ASSUME NEW code \in Exceptions, Exception(code)
       PROVE  FrameOK' /\ RestOK'
  BY <1>1, <1>11, HartAssumption DEF ExcCodes
<1>12. QED
  BY <1>3, <1>4, <1>5, <1>6, <1>7, <1>8, <1>9, <1>10, <1>11 DEF Instruction

\* Every step of the hart keeps the types.
LEMMA HartStepType == TypeOK /\ [Next]_vars => TypeOK'
<1> SUFFICES ASSUME TypeOK, [Next]_vars
             PROVE  TypeOK'
  OBVIOUS
<1>1. CASE Check_Interrupts
  <2>1. mip' \in SUBSET IntCodes /\ mie' \in SUBSET IntCodes
    BY <1>1, HartAssumption
       DEF HartAssumption, Check_Interrupts, SampledMip, TypeOK, IntCodes
  <2>2. CASE Takeable = {} /\ UNCHANGED <<pc, priv, halted, resv, status, tvec,
                                         epc, medeleg, mideleg, cExt, lines>>
                           /\ transfer' = FALSE
    BY <1>1, <2>1, <2>2 DEF Check_Interrupts, TypeOK
  <2>3. CASE \E i \in Takeable : Trap_Entry(TRUE, i)
    <3>1. PICK i \in Takeable : Trap_Entry(TRUE, i)
      BY <2>3
    <3>2. i \in Nat
      <4>1. i \in IntCodes
        BY DEF Takeable, TypeOK
      <4>2. QED
        BY <4>1 DEF IntCodes, SSI, MSI, STI, MTI, SEI, MEI
    <3>3. FrameOK'
      BY <3>1, <3>2, TrapEntryType
    <3>4. QED
      BY <1>1, <2>1, <3>1, <3>3
         DEF Check_Interrupts, Trap_Entry, FrameOK, TypeOK
  <2>4. QED
    BY <1>1, <2>2, <2>3 DEF Check_Interrupts
<1>2. CASE Step
  <2>1. phase' \in {"check", "step", "tick"}
    BY <1>2 DEF Step
  <2>2. lines' = lines
    BY <1>2 DEF Step, HaltedStep, Instruction, Retire, Jump, LoadReserved,
                StoreConditional, InsnWfi, InsnSfence, InsnEcall, InsnCsr,
                InsnMret, InsnSret, Mret, Sret, IllegalInsn, Exception, Trap_Entry
  <2>3. CASE HaltedStep
    BY <2>1, <2>2, <2>3 DEF HaltedStep, TypeOK, csrVars
  <2>4. CASE Instruction
    BY <2>1, <2>2, <2>4, InstructionType DEF FrameOK, RestOK, TypeOK
  <2>5. QED
    BY <1>2, <2>3, <2>4 DEF Step
<1>3. CASE LinesMove
  BY <1>3 DEF LinesMove, TypeOK, csrVars
<1>4. CASE UNCHANGED vars
  BY <1>4 DEF vars, csrVars, TypeOK
<1>5. QED
  BY <1>1, <1>2, <1>3, <1>4 DEF Next

\* The registers, the privilege level and the trap frames keep their types: in
\* particular the reserved level of MPP never becomes the hart's level.
THEOREM HartTypeCorrect == Spec => []TypeOK
<1>1. Init => TypeOK
  <2> SUFFICES ASSUME Init PROVE TypeOK
    OBVIOUS
  <2>1. status \in Status
    BY DEF Init, Status
  <2>2. 0 \in Word
    BY HartAssumption DEF Word
  <2>3. pc \in InsnPCs /\ tvec \in [Target -> BootTvec]
    BY DEF Init
  <2>4. pc \in Word /\ tvec \in [Target -> Word]
    BY <2>3, HartAssumption
  <2>5. QED
    BY <2>1, <2>2, <2>4 DEF Init, TypeOK, Privs
<1>2. QED
  BY <1>1, HartStepType, PTL DEF Spec

----------------------------------------------------------------------------
\* The frame a trap of level t leaves, from the state it was taken in.
TrapFrame(t) ==
    /\ epc'[t] = pc
    /\ \E b \in BOOLEAN, c \in IntCodes : pc' = Vector(tvec[t], b, c)
    /\ IF t = S THEN ~status'.SIE /\ (status'.SPP <=> priv = S)
                ELSE ~status'.MIE /\ status'.MPP = priv

\* A taken trap never lowers the level, and leaves a whole frame where it goes.
LEMMA TrapEntryFrame ==
    ASSUME TypeOK, NEW b \in BOOLEAN, NEW code \in Nat, b => code \in IntCodes,
           Trap_Entry(b, code)
    PROVE  /\ priv' >= priv
           /\ priv' # priv => TrapFrame(priv')
<1> DEFINE t == TrapLevel(b, code)
<1>1. t \in Target /\ t >= priv /\ priv \in 0 .. 3 /\ priv \in Int
  BY DEF TrapLevel, Delegated, Target, TypeOK, Privs, U, S, M
<1>2. CASE tvec[t] = 0
  BY <1>1, <1>2 DEF Trap_Entry, TypeOK, Privs, U, S, M
<1>3. CASE tvec[t] # 0
  <2>1. priv' = t /\ epc' = [epc EXCEPT ![t] = pc] /\ status' = Pushed(t)
        /\ pc' = Vector(tvec[t], b, code)
    BY <1>3 DEF Trap_Entry
  <2>2. epc'[t] = pc
    <3> HIDE DEF t
    <3>1. epc \in [Target -> Word] /\ pc \in Word
      BY DEF TypeOK
    <3>2. QED
      BY <1>1, <2>1, <3>1
  <2>3. \E d \in BOOLEAN, c \in IntCodes : pc' = Vector(tvec[t], d, c)
    <3>1. \E c \in IntCodes : pc' = Vector(tvec[t], b, c)
      <4>1. CASE b
        BY <2>1, <4>1, Zenon
      <4>2. CASE ~b
        <5>1. Vector(tvec[t], b, code) = Vector(tvec[t], b, SSI)
          BY <4>2 DEF Vector
        <5>2. SSI \in IntCodes
          BY DEF IntCodes
        <5>3. QED
          BY <2>1, <5>1, <5>2, Zenon
      <4>3. QED
        BY <4>1, <4>2
    <3>2. QED
      BY <3>1, Zenon
  <2>4. IF t = S THEN ~status'.SIE /\ (status'.SPP <=> priv = S)
                 ELSE ~status'.MIE /\ status'.MPP = priv
    <3> DEFINE spp == (priv = S)
    <3>1. spp \in BOOLEAN /\ status.SIE \in BOOLEAN /\ status.MIE \in BOOLEAN
      BY DEF TypeOK, Status
    <3>2. status \in Status
      BY DEF TypeOK
    <3> HIDE DEF spp
    <3>3. /\ ~[status EXCEPT !.SPIE = status.SIE, !.SIE = FALSE, !.SPP = spp].SIE
          /\ [status EXCEPT !.SPIE = status.SIE, !.SIE = FALSE, !.SPP = spp].SPP <=> spp
      BY <3>1, <3>2, StatusUpdateS
    <3>4. /\ [status EXCEPT !.MPIE = status.MIE, !.MIE = FALSE, !.MPP = priv].MIE = FALSE
          /\ [status EXCEPT !.MPIE = status.MIE, !.MIE = FALSE, !.MPP = priv].MPP = priv
      <4>1. ASSUME NEW p \in 0 .. 3, NEW x \in BOOLEAN, NEW y \in BOOLEAN
            PROVE  /\ [status EXCEPT !.MPIE = x, !.MIE = y, !.MPP = p].MIE = y
                   /\ [status EXCEPT !.MPIE = x, !.MIE = y, !.MPP = p].MPP = p
        BY <3>2 DEF Status
      <4>2. FALSE \in BOOLEAN
        OBVIOUS
      <4>3. QED
        BY <1>1, <3>1, <4>1, <4>2, ZenonT(60)
    <3>5. CASE t = S
      <4>1. status' = [status EXCEPT !.SPIE = status.SIE, !.SIE = FALSE, !.SPP = spp]
        BY <2>1, <3>5, Zenon DEF Pushed, spp
      <4>2. ~status'.SIE /\ (status'.SPP <=> spp)
        BY <3>3, <4>1, Zenon
      <4>3. QED
        BY <3>5, <4>2, Zenon DEF spp
    <3>6. CASE t # S
      <4>1. status' = [status EXCEPT !.MPIE = status.MIE, !.MIE = FALSE, !.MPP = priv]
        BY <2>1, <3>6, Zenon DEF Pushed
      <4>2. QED
        BY <3>4, <3>6, <4>1, Zenon
    <3>7. QED
      BY <3>5, <3>6
  <2>5. QED
    BY <1>1, <2>1, <2>2, <2>3, <2>4 DEF TrapFrame
<1>4. QED
  BY <1>2, <1>3

\* What an instruction can be to the privilege level: a trap, a return, or
\* neither, and then it leaves the level alone.
LEMMA InstructionKinds ==
    ASSUME TypeOK, Instruction
    PROVE  \/ \E code \in Nat : Exception(code)
           \/ priv = M /\ Mret
           \/ priv # U /\ Sret
           \/ priv' = priv
<1>1. 8 + priv \in Nat /\ Exceptions \subseteq Nat /\ 0 \in Nat /\ 2 \in Nat
  BY HartAssumption DEF TypeOK, Privs, U, S, M, ExcCodes
<1>2. QED
  BY <1>1 DEF Instruction, Retire, Jump, LoadReserved, StoreConditional, InsnWfi,
              InsnSfence, InsnEcall, InsnCsr, InsnMret, InsnSret, IllegalInsn

\* Every step that changes the privilege level is a trap that leaves a frame,
\* or a return that breaks the reservation.
LEMMA LevelChanges ==
    ASSUME TypeOK, [Next]_vars, priv' # priv
    PROVE  \/ priv' > priv /\ TrapFrame(priv')
           \/ priv' < priv /\ ~resv' /\ transfer'
<1>1. priv \in Privs
  BY DEF TypeOK
<1>2. ASSUME NEW code \in Nat, Exception(code)
      PROVE  priv' > priv /\ TrapFrame(priv')
  <2>1. priv' >= priv /\ (priv' # priv => TrapFrame(priv'))
    BY <1>2, TrapEntryFrame DEF Exception
  <2>2. priv' \in Privs
    BY <1>2, ExceptionType DEF FrameOK
  <2>3. QED
    BY <1>1, <2>1, <2>2 DEF Privs, U, S, M
<1>3. CASE priv = M /\ Mret
  <2>1. priv' \in Privs
    BY <1>3, MretType DEF FrameOK
  <2>2. priv' < priv
    BY <1>3, <2>1 DEF Privs, U, S, M
  <2>3. QED
    BY <1>3, <2>2 DEF Mret, ReservationAfterReturn
<1>4. CASE priv # U /\ Sret
  <2>1. priv' \in {U, S}
    BY <1>4 DEF Sret
  <2>2. priv' < priv
    BY <1>1, <1>4, <2>1 DEF Privs, U, S, M
  <2>3. QED
    BY <1>4, <2>2 DEF Sret, ReservationAfterReturn
<1>5. CASE Step
  <2>1. CASE HaltedStep
    BY <2>1 DEF HaltedStep
  <2>2. CASE Instruction
    BY <2>2, <1>2, <1>3, <1>4, InstructionKinds
  <2>3. QED
    BY <1>5, <2>1, <2>2 DEF Step
<1>6. CASE Check_Interrupts
  <2>1. PICK i \in Takeable : Trap_Entry(TRUE, i)
    BY <1>6 DEF Check_Interrupts
  <2>2. i \in IntCodes
    BY DEF Takeable, TypeOK
  <2>3. i \in Nat
    BY <2>2 DEF IntCodes, SSI, MSI, STI, MTI, SEI, MEI
  <2>4. priv' >= priv /\ (priv' # priv => TrapFrame(priv'))
    BY <2>1, <2>2, <2>3, TrapEntryFrame
  <2>5. priv' \in Privs
    BY <2>1, <2>3, TrapEntryType DEF FrameOK
  <2>6. QED
    BY <1>1, <2>4, <2>5 DEF Privs, U, S, M
<1>7. CASE LinesMove \/ UNCHANGED vars
  BY <1>7 DEF LinesMove, vars
<1>8. QED
  BY <1>5, <1>6, <1>7 DEF Next

\* Falling to a lower level always breaks the load reservation, so no SC pairs
\* with an LR of another context.
THEOREM HartFallBreaksReservation == Spec => FallBreaksReservation
<1>1. TypeOK /\ [Next]_vars => (priv' < priv => ~resv' /\ transfer')
  <2> SUFFICES ASSUME TypeOK, [Next]_vars, priv' < priv
               PROVE  ~resv' /\ transfer'
    OBVIOUS
  <2>1. priv \in Int /\ priv' # priv
    BY DEF TypeOK, Privs, U, S, M
  <2>2. CASE priv' > priv /\ TrapFrame(priv')
    <3>1. priv' \in Int
      BY HartStepType DEF TypeOK, Privs, U, S, M
    <3>2. QED
      BY <2>1, <2>2, <3>1
  <2>3. QED
    BY <2>1, <2>2, LevelChanges
<1>2. QED
  BY <1>1, HartTypeCorrect, PTL DEF Spec, FallBreaksReservation

\* A rise in privilege is always a trap that lands on the handler of the level
\* it rises to, with a whole frame saved there: the two places that decide who
\* takes an interrupt, Enabled_For and Delegated, agree.
THEOREM HartRiseIsATrap == Spec => RiseIsATrap
<1> DEFINE Frame ==
      /\ epc'[priv'] = pc
      /\ \E b \in BOOLEAN, c \in IntCodes : pc' = Vector(tvec[priv'], b, c)
      /\ IF priv' = S THEN ~status'.SIE /\ ~status'.SPP
                      ELSE ~status'.MIE /\ status'.MPP = priv
<1>1. TypeOK /\ [Next]_vars => (priv' > priv => Frame)
  <2> SUFFICES ASSUME TypeOK, [Next]_vars, priv' > priv
               PROVE  Frame
    OBVIOUS
  <2>1. priv \in Privs /\ priv' \in Privs
    BY HartStepType DEF TypeOK
  <2>2. priv' # priv /\ ~(priv' < priv)
    BY <2>1 DEF Privs, U, S, M
  <2>3. TrapFrame(priv')
    BY <2>2, LevelChanges
  <2>4. priv' = S => priv # S
    BY <2>2
  <2>5. QED
    BY <2>3, <2>4, Zenon DEF TrapFrame
<1>2. QED
  BY <1>1, HartTypeCorrect, PTL DEF Spec, RiseIsATrap

\* The level an interrupt traps to saves its pc there and nowhere else.
LEMMA TrapEntrySaves ==
    ASSUME TypeOK, NEW i \in IntCodes, Trap_Entry(TRUE, i), NEW t \in Target,
           epc'[t] # epc[t]
    PROVE  TrapLevel(TRUE, i) = t
<1> DEFINE l == TrapLevel(TRUE, i)
<1>1. epc' = epc \/ epc' = [epc EXCEPT ![l] = pc]
  BY DEF Trap_Entry
<1>2. epc \in [Target -> Word]
  BY DEF TypeOK
<1> HIDE DEF l
<1>3. l = t
  BY <1>1, <1>2
<1>4. QED
  BY <1>3 DEF l

\* An interrupt is never taken over a live frame: the saved pc of machine mode
\* changes only from below it or with MIE set, that of supervisor mode only
\* from user mode or from supervisor mode with SIE set.
THEOREM HartInterruptsSpareFrames == Spec => InterruptsSpareFrames
<1> DEFINE Spared ==
      /\ epc'[M] # epc[M] => priv # M \/ status.MIE
      /\ epc'[S] # epc[S] => priv = U \/ (priv = S /\ status.SIE)
<1>1. TypeOK /\ [Next]_vars => (phase = "check" => Spared)
  <2> SUFFICES ASSUME TypeOK, [Next]_vars, phase = "check"
               PROVE  Spared
    OBVIOUS
  <2>1. CASE epc' = epc
    BY <2>1
  <2>2. CASE epc' # epc
    <3>1. Check_Interrupts
      BY <2>2 DEF Next, Step, LinesMove, vars, csrVars
    <3>2. PICK i \in Takeable : Trap_Entry(TRUE, i)
      BY <2>2, <3>1 DEF Check_Interrupts
    <3>3. i \in IntCodes /\ Enabled_For(i)
      BY DEF Takeable, TypeOK
    <3>4. epc'[M] # epc[M] => priv # M \/ status.MIE
      <4>1. SUFFICES ASSUME epc'[M] # epc[M]
                     PROVE  priv # M \/ status.MIE
        OBVIOUS
      <4>2. TrapLevel(TRUE, i) = M
        BY <3>2, <3>3, <4>1, TrapEntrySaves DEF Target
      <4>3. priv = M \/ i \notin mideleg
        BY <4>2 DEF TrapLevel, Delegated, S, M
      <4>4. QED
        BY <3>3, <4>3 DEF Enabled_For, S_Enabled, M_Enabled, U, S, M
    <3>5. epc'[S] # epc[S] => priv = U \/ (priv = S /\ status.SIE)
      <4>1. SUFFICES ASSUME epc'[S] # epc[S]
                     PROVE  priv = U \/ (priv = S /\ status.SIE)
        OBVIOUS
      <4>2. TrapLevel(TRUE, i) = S
        BY <3>2, <3>3, <4>1, TrapEntrySaves DEF Target
      <4>3. priv # M /\ i \in mideleg
        BY <4>2 DEF TrapLevel, Delegated, S, M
      <4>4. QED
        BY <3>3, <4>3 DEF Enabled_For, S_Enabled
    <3>6. QED
      BY <3>4, <3>5
  <2>3. QED
    BY <2>1, <2>2
<1>2. QED
  BY <1>1, HartTypeCorrect, PTL DEF Spec, InterruptsSpareFrames

----------------------------------------------------------------------------
\* The machine's share of mstatus.
MachineStatus(s) == <<s.MIE, s.MPIE, s.MPP, s.TVM, s.TW, s.TSR>>

\* The machine's registers, but for mip.
MachineKept ==
    /\ <<tvec'[M], epc'[M], medeleg', mideleg', cExt'>>
         = <<tvec[M], epc[M], medeleg, mideleg, cExt>>
    /\ MachineStatus(status') = MachineStatus(status)
    /\ mie' \ SLevel = mie \ SLevel

\* New values for the supervisor's fields leave the machine's.
LEMMA SupervisorFields ==
    ASSUME NEW s \in Status, NEW x \in BOOLEAN, NEW y \in BOOLEAN, NEW z \in BOOLEAN
    PROVE  MachineStatus([s EXCEPT !.SPIE = x, !.SIE = y, !.SPP = z]) = MachineStatus(s)
BY DEF Status, MachineStatus

LEMMA SupervisorEntry ==
    ASSUME NEW f \in [Target -> Word], NEW v
    PROVE  [f EXCEPT ![S] = v][M] = f[M]
BY DEF Target, S, M

LEMMA TrapBelowKeeps ==
    ASSUME TypeOK, NEW b \in BOOLEAN, NEW code \in Nat, Trap_Entry(b, code),
           priv # M, priv' # M, mie' = mie
    PROVE  MachineKept
<1> DEFINE t == TrapLevel(b, code)
<1>1. UNCHANGED <<tvec, medeleg, mideleg, cExt>>
  BY DEF Trap_Entry
<1>2. CASE tvec[t] = 0
  BY <1>1, <1>2 DEF Trap_Entry, MachineKept
<1>3. CASE tvec[t] # 0
  <2>1. t = S /\ epc' = [epc EXCEPT ![S] = pc] /\ status' = Pushed(S)
    BY <1>3 DEF Trap_Entry, TrapLevel
  <2>2. epc'[M] = epc[M]
    BY <2>1, SupervisorEntry DEF TypeOK
  <2>3. MachineStatus(status') = MachineStatus(status)
    <3> DEFINE spp == (priv = S)
    <3>1. spp \in BOOLEAN /\ status.SIE \in BOOLEAN /\ status \in Status
      BY DEF TypeOK, Status
    <3>2. status' = [status EXCEPT !.SPIE = status.SIE, !.SIE = FALSE, !.SPP = spp]
      BY <2>1 DEF Pushed
    <3> HIDE DEF spp
    <3>3. QED
      BY <3>1, <3>2, SupervisorFields
  <2>4. QED
    BY <1>1, <2>2, <2>3 DEF MachineKept
<1>4. QED
  BY <1>2, <1>3

LEMMA SretKeeps == TypeOK /\ Sret => MachineKept /\ mip' = mip
<1> SUFFICES ASSUME TypeOK, Sret
             PROVE  MachineKept /\ mip' = mip
  OBVIOUS
<1>1. status \in Status /\ status.SPIE \in BOOLEAN
  BY DEF TypeOK, Status
<1>2. ASSUME NEW x \in BOOLEAN
      PROVE  MachineStatus([status EXCEPT !.SIE = x, !.SPIE = TRUE, !.SPP = FALSE])
               = MachineStatus(status)
  BY <1>1 DEF Status, MachineStatus
<1>3. MachineStatus(status') = MachineStatus(status)
  BY <1>1, <1>2 DEF Sret
<1>4. QED
  BY <1>3 DEF Sret, MachineKept

\* Of the CSRs a level below the machine may write, none holds machine state.
LEMMA WriteBelowKeeps ==
    ASSUME TypeOK, priv # M, NEW csr \in GuestCSRs, NEW next, Can_Access_CSR(csr),
           WriteCSR(csr, next)
    PROVE  MachineKept /\ mip' \ {SSI, STI} = mip \ {SSI, STI}
<1>1. csr \in SupervisorCSRs
  BY HartAssumption DEF Can_Access_CSR, MinPrivilege, TypeOK, Privs, U, S, M
<1>2. csr \in {"sstatus", "stvec", "sepc", "sie", "sip", "satp"}
  BY <1>1 DEF SupervisorCSRs
<1>3. CASE csr = "sstatus"
  <2>1. PICK v \in StatusValues : status' = SstatusMerge(v)
    BY <1>3 DEF WriteCSR
  <2>2. v.SIE \in BOOLEAN /\ v.SPIE \in BOOLEAN /\ v.SPP \in BOOLEAN /\ status \in Status
    BY HartAssumption DEF Status, TypeOK
  <2>3. ASSUME NEW x \in BOOLEAN, NEW y \in BOOLEAN, NEW z \in BOOLEAN
        PROVE  MachineStatus([status EXCEPT !.SIE = x, !.SPIE = y, !.SPP = z])
                 = MachineStatus(status)
    BY <2>2 DEF Status, MachineStatus
  <2>4. MachineStatus(status') = MachineStatus(status)
    BY <2>1, <2>2, <2>3 DEF SstatusMerge
  <2>5. QED
    BY <1>3, <2>4 DEF WriteCSR, MachineKept
<1>4. CASE csr = "stvec"
  <2>1. tvec'[M] = tvec[M]
    BY <1>4, SupervisorEntry DEF WriteCSR, TypeOK
  <2>2. QED
    BY <1>4, <2>1 DEF WriteCSR, MachineKept
<1>5. CASE csr = "sepc"
  <2>1. epc'[M] = epc[M]
    BY <1>5, SupervisorEntry DEF WriteCSR, TypeOK
  <2>2. QED
    BY <1>5, <2>1 DEF WriteCSR, MachineKept
<1>6. CASE csr \in {"sie", "sip"}
  BY <1>6 DEF WriteCSR, MachineKept
<1>7. CASE csr = "satp"
  BY <1>7 DEF WriteCSR, MachineKept, csrVars
<1>8. QED
  BY <1>2, <1>3, <1>4, <1>5, <1>6, <1>7

LEMMA InstructionBelowKeeps ==
    ASSUME TypeOK, Instruction, priv # M, priv' # M
    PROVE  MachineKept /\ mip' \ {SSI, STI} = mip \ {SSI, STI}
<1>1. ASSUME NEW code \in Nat, Exception(code)
      PROVE  MachineKept /\ mip' \ {SSI, STI} = mip \ {SSI, STI}
  BY <1>1, TrapBelowKeeps DEF Exception
<1>2. ASSUME IllegalInsn
      PROVE  MachineKept /\ mip' \ {SSI, STI} = mip \ {SSI, STI}
  BY <1>1, <1>2 DEF IllegalInsn
<1>3. ASSUME UNCHANGED csrVars
      PROVE  MachineKept /\ mip' \ {SSI, STI} = mip \ {SSI, STI}
  BY <1>3 DEF csrVars, MachineKept
<1>4. ASSUME NEW next \in InsnPCs, Retire(next) \/ LoadReserved(next) \/ StoreConditional(next)
      PROVE  MachineKept /\ mip' \ {SSI, STI} = mip \ {SSI, STI}
  BY <1>3, <1>4 DEF Retire, LoadReserved, StoreConditional
<1>5. ASSUME NEW next \in InsnPCs, Jump(next)
      PROVE  MachineKept /\ mip' \ {SSI, STI} = mip \ {SSI, STI}
  BY <1>1, <1>3, <1>5 DEF Jump
<1>6. ASSUME NEW next \in InsnPCs, InsnWfi(next) \/ InsnSfence(next)
      PROVE  MachineKept /\ mip' \ {SSI, STI} = mip \ {SSI, STI}
  BY <1>2, <1>4, <1>6 DEF InsnWfi, InsnSfence
<1>7. ASSUME NEW next \in InsnPCs, InsnEcall(next)
      PROVE  MachineKept /\ mip' \ {SSI, STI} = mip \ {SSI, STI}
  <2>1. CASE priv = S /\ SbiEnabled
    BY <1>7, <2>1 DEF InsnEcall, MachineKept
  <2>2. CASE ~(priv = S /\ SbiEnabled)
    <3>1. 8 + priv \in Nat
      BY DEF TypeOK, Privs, U, S, M
    <3>2. QED
      BY <1>1, <1>7, <2>2, <3>1 DEF InsnEcall
  <2>3. QED
    BY <2>1, <2>2
<1>8. ASSUME NEW next \in InsnPCs, NEW csr \in GuestCSRs, InsnCsr(csr, next)
      PROVE  MachineKept /\ mip' \ {SSI, STI} = mip \ {SSI, STI}
  BY <1>2, <1>8, WriteBelowKeeps DEF InsnCsr
<1>9. ASSUME InsnMret \/ InsnSret
      PROVE  MachineKept /\ mip' \ {SSI, STI} = mip \ {SSI, STI}
  BY <1>2, <1>9, SretKeeps DEF InsnMret, InsnSret
<1>10. ASSUME NEW code \in Exceptions, Exception(code)
       PROVE  MachineKept /\ mip' \ {SSI, STI} = mip \ {SSI, STI}
  BY <1>1, <1>10, HartAssumption DEF ExcCodes
<1>11. QED
  BY <1>4, <1>5, <1>6, <1>7, <1>8, <1>9, <1>10 DEF Instruction

\* Below machine mode nothing changes machine state but a trap into it: no CSR
\* view, no return, no delegated trap and no SBI call reaches it.
THEOREM HartMachineStateIsolated == Spec => MachineStateIsolated
<1> DEFINE Mip == mip' \ {SSI, STI} = IF phase = "check" THEN SampledMip \ {SSI, STI}
                                                        ELSE mip \ {SSI, STI}
<1>1. ASSUME TypeOK, Next, priv # M, priv' # M
      PROVE  MachineKept /\ Mip
  <2>1. CASE Check_Interrupts
    <3>1. mip' = SampledMip /\ mie' = mie /\ phase = "check"
      BY <2>1 DEF Check_Interrupts
    <3>2. CASE UNCHANGED <<tvec, epc, status, medeleg, mideleg, cExt>>
      BY <3>1, <3>2 DEF MachineKept
    <3>3. CASE \E i \in Takeable : Trap_Entry(TRUE, i)
      <4>1. PICK i \in Takeable : Trap_Entry(TRUE, i)
        BY <3>3
      <4>2. i \in Nat
        <5>1. i \in IntCodes
          BY <1>1 DEF Takeable, TypeOK
        <5>2. QED
          BY <5>1 DEF IntCodes, SSI, MSI, STI, MTI, SEI, MEI
      <4>3. QED
        BY <1>1, <3>1, <4>1, <4>2, TrapBelowKeeps
    <3>4. QED
      BY <2>1, <3>2, <3>3 DEF Check_Interrupts
  <2>2. CASE Step
    <3>1. CASE HaltedStep
      BY <2>2, <3>1 DEF Step, HaltedStep, csrVars, MachineKept
    <3>2. CASE Instruction
      BY <1>1, <2>2, <3>2, InstructionBelowKeeps DEF Step
    <3>3. QED
      BY <2>2, <3>1, <3>2 DEF Step
  <2>3. CASE LinesMove
    BY <2>3 DEF LinesMove, csrVars, MachineKept
  <2>4. QED
    BY <1>1, <2>1, <2>2, <2>3 DEF Next
<1>2. QED
  BY <1>1, HartTypeCorrect, PTL DEF Spec, MachineStateIsolated, MachineKept, MachineStatus

----------------------------------------------------------------------------
(* The page-table walk *)

TableSet == [Tables -> [Index -> PTE]]
Leaves   == [table : Nat, index : Index, ppn : Nat, flags : SUBSET Flags]

LEMMA SpanType ==
    Span \in [0 .. Levels -> Nat \ {0}]
<1> DEFINE Rule(f, i) == IF i = 0 THEN 1 ELSE Fields * f[i - 1]
           Loop(f) == f = [i \in 0 .. Levels |-> Rule(f, i)]
           P == Nat \ {0}
           g == [i \in 1 .. Levels |-> [n \in P |-> Fields * n]]
<1>1. Levels \in Nat /\ Fields \in P /\ 1 \in P
  BY MmuAssumption
<1>2. \A n \in P : Fields * n \in P
  BY <1>1
<1>3. g \in Steps(Levels, P)
  BY <1>2 DEF Steps
<1>4. PICK f \in [0 .. Levels -> P] : Iterates(f, Levels, 1, g)
  <2> HIDE DEF g, P
  <2>1. QED
    BY <1>1, <1>3, Recursion
<1>5. f[0] = 1 /\ \A i \in 1 .. Levels : f[i] = Fields * f[i - 1]
  <2>1. \A i \in 1 .. Levels : i - 1 \in 0 .. Levels
    BY <1>1
  <2>2. QED
    BY <1>4, <2>1 DEF Iterates
<1>6. Loop(f)
  <2>1. \A i \in 0 .. Levels : i = 0 \/ i \in 1 .. Levels
    BY <1>1
  <2>2. QED
    BY <1>5, <2>1
<1>7. Span = CHOOSE s : Loop(s)
  BY DEF Span
<1>8. Loop(Span)
  <2> HIDE DEF Loop
  <2>1. QED
    BY <1>6, <1>7
<1>9. Span[0] = 1 /\ \A i \in 1 .. Levels : Span[i] = Fields * Span[i - 1]
  <2>1. \A i \in 0 .. Levels : Span[i] = Rule(Span, i)
    BY <1>8
  <2>2. QED
    BY <2>1, <1>1
<1> DEFINE A == {i \in 0 .. Levels : Span[i] \in P}
<1>10. 0 \in A
  BY <1>1, <1>9
<1>11. \A i \in 1 .. Levels : i - 1 \in A => i \in A
  BY <1>1, <1>2, <1>9
<1>12. \A i \in 0 .. Levels : i \in A
  <2> HIDE DEF A
  <2>1. QED
    BY <1>1, <1>10, <1>11, UpTo
<1>13. Span = [i \in 0 .. Levels |-> Span[i]]
  BY <1>8
<1>14. QED
  BY <1>12, <1>13

LEMMA FieldType ==
    ASSUME NEW vpn \in Nat, NEW i \in 0 .. Levels
    PROVE  /\ Span[i] \in Nat \ {0} /\ vpn % Span[i] \in Nat
           /\ Field(vpn, i) \in Index
<1> DEFINE s == Span[i]
<1>1. s \in Nat \ {0} /\ vpn \in Int
  BY SpanType
<1> HIDE DEF s
<1>2. vpn \div s \in Int
  BY <1>1, DivSplit
<1>3. (vpn \div s) % Fields \in 0 .. Fields - 1
  BY <1>2, ModRange, MmuAssumption
<1>4. vpn % s \in 0 .. s - 1
  BY <1>1, ModRange
<1>5. QED
  BY <1>1, <1>3, <1>4 DEF Field, Index, s

\* What a walk finds at table t with i levels to go, if deeper is what it finds
\* from the tables of the next level.
Found(tabs, vpn, i, t, deeper) ==
    IF t \notin Tables THEN Fault
    ELSE LET pte == tabs[t][Field(vpn, i - 1)]
         IN  IF Invalid(pte) THEN Fault
             ELSE IF Leaf(pte) THEN Mapped(t, i - 1, pte, vpn)
             ELSE deeper[pte.ppn]

LEMMA FoundType ==
    ASSUME NEW tabs \in TableSet, NEW vpn \in Nat, NEW i \in 1 .. Levels,
           NEW t \in Nat, NEW deeper \in [Nat -> Leaves]
    PROVE  Found(tabs, vpn, i, t, deeper) \in Leaves
<1>1. 0 \in Index /\ Fault \in Leaves
  BY MmuAssumption DEF Index, Fault, Leaves
<1>2. i - 1 \in 0 .. Levels
  BY MmuAssumption
<1>3. CASE t \in Tables
  <2> DEFINE x == Field(vpn, i - 1)
             pte == tabs[t][x]
             s == Span[i - 1]
             r == vpn % s
  <2>1. x \in Index /\ r \in Nat
    BY <1>2, FieldType
  <2>2. pte \in PTE
    BY <1>3, <2>1 DEF TableSet
  <2>3. pte.ppn \in Nat /\ pte.flags \in SUBSET Flags
    BY <2>2 DEF PTE
  <2>4. Mapped(t, i - 1, pte, vpn) \in Leaves
    <3>1. [table |-> t, index |-> x, ppn |-> pte.ppn + r, flags |-> pte.flags] \in Leaves
      <4> HIDE DEF pte, x, r
      <4>1. pte.ppn + r \in Nat
        BY <2>1, <2>3
      <4>2. QED
        BY <4>1, <2>1, <2>3 DEF Leaves
    <3>2. QED
      BY <1>1, <3>1 DEF Mapped
  <2>5. deeper[pte.ppn] \in Leaves
    BY <2>3
  <2> HIDE DEF pte
  <2>6. QED
    BY <1>1, <1>3, <2>4, <2>5 DEF Found, pte
<1>4. CASE t \notin Tables
  BY <1>1, <1>4 DEF Found
<1>5. QED
  BY <1>3, <1>4

\* What the walk of vpn finds from each table, by levels to go.
Descends(w, tabs, vpn) ==
    /\ w \in [0 .. Levels -> [Nat -> Leaves]]
    /\ \A t \in Nat : w[0][t] = Fault
    /\ \A i \in 1 .. Levels : \A t \in Nat : w[i][t] = Found(tabs, vpn, i, t, w[i - 1])

LEMMA WalkDescends ==
    ASSUME NEW tabs \in TableSet, NEW vpn \in Nat
    PROVE  \E w : /\ Descends(w, tabs, vpn)
                  /\ \A root \in Nat : Walk(tabs, root, vpn) = w[Levels][root]
<1> DEFINE Rule(w, i) ==
             [t \in Nat |->
                IF i = 0 \/ t \notin Tables THEN Fault
                ELSE LET pte == tabs[t][Field(vpn, i - 1)]
                     IN  IF Invalid(pte) THEN Fault
                         ELSE IF Leaf(pte) THEN Mapped(t, i - 1, pte, vpn)
                         ELSE w[i - 1][pte.ppn]]
           Loop(w) == w = [i \in 0 .. Levels |-> Rule(w, i)]
           All == [Nat -> Leaves]
           Next1(i, d) == [t \in Nat |-> Found(tabs, vpn, i, t, d)]
           first == [t \in Nat |-> Fault]
           g == [i \in 1 .. Levels |-> [d \in All |-> Next1(i, d)]]
           walk == CHOOSE w : Loop(w)
<1>1. Levels \in Nat /\ first \in All
  BY MmuAssumption DEF Index, Fault, Leaves
<1>2. \A i \in 1 .. Levels : \A d \in All : Next1(i, d) \in All
  BY FoundType
<1>3. g \in Steps(Levels, All)
  <2> HIDE DEF All, Next1
  <2>1. QED
    BY <1>2 DEF Steps
<1>4. PICK f \in [0 .. Levels -> All] : Iterates(f, Levels, first, g)
  <2> HIDE DEF g, All, first
  <2>1. QED
    BY <1>1, <1>3, Recursion
<1>5. f[0] = first /\ \A i \in 1 .. Levels : f[i] = Next1(i, f[i - 1])
  <2>1. \A i \in 1 .. Levels : i - 1 \in 0 .. Levels
    BY <1>1
  <2> HIDE DEF All, Next1, first
  <2>2. QED
    BY <1>4, <2>1 DEF Iterates
<1>6. Loop(f)
  <2>1. \A i \in 0 .. Levels : i = 0 \/ i \in 1 .. Levels
    BY <1>1
  <2>2. \A i \in 1 .. Levels : i # 0 /\ Next1(i, f[i - 1]) = Rule(f, i)
    BY <1>1 DEF Found
  <2>3. Rule(f, 0) = first
    OBVIOUS
  <2> HIDE DEF Rule, Next1, first
  <2>4. QED
    BY <1>5, <2>1, <2>2, <2>3
<1>7. Loop(walk)
  <2> HIDE DEF Loop
  <2>1. QED
    BY <1>6
<1>8. \A root \in Nat : Walk(tabs, root, vpn) = walk[Levels][root]
  BY DEF Walk
<1> HIDE DEF walk
<1>9. \A i \in 0 .. Levels : walk[i] = Rule(walk, i)
  <2> HIDE DEF Rule
  <2>1. QED
    BY <1>7
<1>10. walk[0] = first
  BY <1>1, <1>9
<1>11. \A i \in 1 .. Levels : walk[i] = Next1(i, walk[i - 1])
  <2>1. \A i \in 1 .. Levels : i \in 0 .. Levels /\ i # 0
    BY <1>1
  <2>2. \A i \in 1 .. Levels : Next1(i, walk[i - 1]) = Rule(walk, i)
    BY <2>1 DEF Found
  <2> HIDE DEF Rule, Next1
  <2>3. QED
    BY <1>9, <2>1, <2>2
<1> DEFINE A == {i \in 0 .. Levels : walk[i] \in All}
<1>12. 0 \in A
  BY <1>1, <1>10
<1>13. \A i \in 1 .. Levels : i - 1 \in A => i \in A
  <2> HIDE DEF All, Next1
  <2>1. QED
    BY <1>1, <1>2, <1>11
<1>14. \A i \in 0 .. Levels : i \in A
  <2> HIDE DEF A
  <2>1. QED
    BY <1>1, <1>12, <1>13, UpTo
<1>15. walk \in [0 .. Levels -> All]
  <2>1. walk = [i \in 0 .. Levels |-> walk[i]]
    <3> HIDE DEF Rule
    <3>1. QED
      BY <1>7
  <2> HIDE DEF All
  <2>2. QED
    BY <1>14, <2>1
<1>16. Descends(walk, tabs, vpn)
  <2>1. \A t \in Nat : walk[0][t] = Fault
    BY <1>10
  <2>2. \A i \in 1 .. Levels : \A t \in Nat : walk[i][t] = Found(tabs, vpn, i, t, walk[i - 1])
    <3> SUFFICES ASSUME NEW i \in 1 .. Levels, NEW t \in Nat
                 PROVE  walk[i][t] = Found(tabs, vpn, i, t, walk[i - 1])
      OBVIOUS
    <3>1. walk[i] = Next1(i, walk[i - 1])
      BY <1>11
    <3>2. Next1(i, walk[i - 1])[t] = Found(tabs, vpn, i, t, walk[i - 1])
      OBVIOUS
    <3>3. QED
      BY <3>1, <3>2
  <2>3. QED
    BY <1>15, <2>1, <2>2 DEF Descends
<1>17. QED
  BY <1>8, <1>16

\* What a walk finds is a leaf stored in a table, if it is anything.
Stored(leaf, tabs) ==
    leaf.flags # {} =>
        leaf.table \in Tables /\ leaf.flags = tabs[leaf.table][leaf.index].flags

\* Bits X set in entry i of table t.
Grown(tabs, t, i, X) == [tabs EXCEPT ![t][i].flags = @ \cup X]

\* What that does to a leaf a walk finds.
GrownLeaf(leaf, t, i, X) ==
    IF leaf.flags # {} /\ leaf.table = t /\ leaf.index = i
    THEN [leaf EXCEPT !.flags = @ \cup X] ELSE leaf

LEMMA GrownType ==
    ASSUME NEW tabs \in TableSet, NEW t \in Tables, NEW i \in Index,
           NEW X \in SUBSET {"A", "D"}
    PROVE  /\ Grown(tabs, t, i, X) \in TableSet
           /\ \A u \in Tables, j \in Index :
                 Grown(tabs, t, i, X)[u][j]
                   = IF u = t /\ j = i THEN [tabs[u][j] EXCEPT !.flags = @ \cup X] ELSE tabs[u][j]
<1>1. tabs[t] \in [Index -> PTE] /\ tabs[t][i] \in PTE
  BY DEF TableSet
<1> DEFINE e == [tabs[t][i] EXCEPT !.flags = @ \cup X]
<1>2. e \in PTE
  BY <1>1 DEF PTE, Flags
<1> HIDE DEF e
<1>3. Grown(tabs, t, i, X) = [tabs EXCEPT ![t] = [tabs[t] EXCEPT ![i] = e]]
  BY <1>1 DEF Grown, TableSet, e
<1>4. Grown(tabs, t, i, X) \in TableSet
  BY <1>1, <1>2, <1>3 DEF TableSet
<1>5. ASSUME NEW u \in Tables, NEW j \in Index
      PROVE  Grown(tabs, t, i, X)[u][j] = IF u = t /\ j = i THEN e ELSE tabs[u][j]
  BY <1>1, <1>3 DEF TableSet
<1>6. QED
  BY <1>4, <1>5 DEF e

\* One level: a found leaf is stored, and the grown tables give its grown form.
LEMMA FoundStored ==
    ASSUME NEW tabs \in TableSet, NEW vpn \in Nat, NEW i \in 1 .. Levels,
           NEW t \in Nat, NEW deeper \in [Nat -> Leaves],
           \A u \in Nat : Stored(deeper[u], tabs)
    PROVE  Stored(Found(tabs, vpn, i, t, deeper), tabs)
<1> DEFINE x == Field(vpn, i - 1)
           pte == tabs[t][x]
<1>1. Stored(Fault, tabs)
  BY DEF Stored, Fault
<1>2. CASE t \in Tables
  <2>1. i - 1 \in 0 .. Levels
    BY MmuAssumption
  <2>2. x \in Index
    BY <2>1, FieldType
  <2>3. pte.ppn \in Nat
    BY <1>2, <2>2 DEF TableSet, PTE
  <2>4. Stored(Mapped(t, i - 1, pte, vpn), tabs)
    BY <1>1, <1>2 DEF Mapped, Stored
  <2>5. Stored(deeper[pte.ppn], tabs)
    BY <2>3
  <2> HIDE DEF pte
  <2>6. QED
    BY <1>1, <1>2, <2>4, <2>5 DEF Found, pte
<1>3. CASE t \notin Tables
  BY <1>1, <1>3 DEF Found
<1>4. QED
  BY <1>2, <1>3

LEMMA FoundGrown ==
    ASSUME NEW tabs \in TableSet, NEW vpn \in Nat, NEW i \in 1 .. Levels,
           NEW t \in Tables, NEW j \in Index, NEW X \in SUBSET {"A", "D"},
           NEW u \in Nat, NEW d \in [Nat -> Leaves], NEW e \in [Nat -> Leaves],
           \A v \in Nat : e[v] = GrownLeaf(d[v], t, j, X)
    PROVE  Found(Grown(tabs, t, j, X), vpn, i, u, e)
             = GrownLeaf(Found(tabs, vpn, i, u, d), t, j, X)
<1> DEFINE x == Field(vpn, i - 1)
           old == tabs[u][x]
           grown == Grown(tabs, t, j, X)
           new == grown[u][x]
<1>1. GrownLeaf(Fault, t, j, X) = Fault
  BY DEF GrownLeaf, Fault
<1>2. CASE u \in Tables
  <2>1. i - 1 \in 0 .. Levels
    BY MmuAssumption
  <2>2. x \in Index
    BY <2>1, FieldType
  <2>3. new = IF u = t /\ x = j THEN [old EXCEPT !.flags = @ \cup X] ELSE old
    BY <1>2, <2>2, GrownType
  <2>4. old \in PTE
    BY <1>2, <2>2 DEF TableSet
  <2>5. old.ppn \in Nat /\ new.ppn = old.ppn /\ old.flags \in SUBSET Flags
    BY <2>3, <2>4 DEF PTE
  <2>6. new.flags = IF u = t /\ x = j THEN old.flags \cup X ELSE old.flags
    BY <2>3, <2>4 DEF PTE
  <2> HIDE DEF x, old, new
  <2>7. Invalid(new) = Invalid(old) /\ Leaf(new) = Leaf(old)
    BY <2>6 DEF Invalid, Leaf
  <2>8. CASE Invalid(old)
    BY <1>1, <1>2, <2>7, <2>8 DEF Found, x, old, new
  <2>9. CASE ~Invalid(old) /\ Leaf(old)
    <3>1. old.flags # {}
      BY <2>9 DEF Leaf
    <3>2. Mapped(u, i - 1, new, vpn) = GrownLeaf(Mapped(u, i - 1, old, vpn), t, j, X)
      <4> HIDE DEF grown
      <4>1. CASE old.ppn % Span[i - 1] # 0
        BY <1>1, <2>5, <4>1 DEF Mapped
      <4>2. CASE old.ppn % Span[i - 1] = 0
        BY <2>5, <2>6, <3>1, <4>2 DEF Mapped, GrownLeaf, x
      <4>3. QED
        BY <4>1, <4>2
    <3>3. QED
      BY <1>2, <2>7, <2>9, <3>2 DEF Found, x, old, new
  <2>10. CASE ~Invalid(old) /\ ~Leaf(old)
    <3>1. e[new.ppn] = GrownLeaf(d[old.ppn], t, j, X)
      BY <2>5
    <3>2. QED
      BY <1>2, <2>7, <2>10, <3>1 DEF Found, x, old, new
  <2>11. QED
    BY <2>8, <2>9, <2>10
<1>3. CASE u \notin Tables
  BY <1>1, <1>3 DEF Found
<1>4. QED
  BY <1>2, <1>3

LEMMA WalkStored ==
    ASSUME NEW tabs \in TableSet, NEW vpn \in Nat, NEW root \in Nat
    PROVE  Walk(tabs, root, vpn) \in Leaves /\ Stored(Walk(tabs, root, vpn), tabs)
<1>1. PICK w : Descends(w, tabs, vpn) /\ \A r \in Nat : Walk(tabs, r, vpn) = w[Levels][r]
  BY WalkDescends
<1> DEFINE A == {i \in 0 .. Levels : \A t \in Nat : Stored(w[i][t], tabs)}
<1>2. Levels \in Nat
  BY MmuAssumption
<1>3. 0 \in A
  BY <1>1, <1>2 DEF Descends, Stored, Fault
<1>4. \A i \in 1 .. Levels : i - 1 \in A => i \in A
  <2> SUFFICES ASSUME NEW i \in 1 .. Levels, i - 1 \in A, NEW t \in Nat
               PROVE  i \in 0 .. Levels /\ Stored(w[i][t], tabs)
    OBVIOUS
  <2> DEFINE d == w[i - 1]
  <2>1. w[i][t] = Found(tabs, vpn, i, t, d) /\ d \in [Nat -> Leaves]
    BY <1>1, <1>2 DEF Descends
  <2>2. \A u \in Nat : Stored(d[u], tabs)
    OBVIOUS
  <2> HIDE DEF d
  <2>3. Stored(Found(tabs, vpn, i, t, d), tabs)
    BY <2>1, <2>2, FoundStored
  <2>4. QED
    BY <1>2, <2>1, <2>3
<1>5. \A i \in 0 .. Levels : i \in A
  <2> HIDE DEF A
  <2>1. QED
    BY <1>2, <1>3, <1>4, UpTo
<1>6. Levels \in 0 .. Levels /\ Levels \in A
  BY <1>2, <1>5
<1>7. w[Levels][root] \in Leaves /\ Stored(w[Levels][root], tabs)
  BY <1>1, <1>6 DEF Descends
<1>8. QED
  BY <1>1, <1>7

\* Bits set in one entry show in the walks that end there, and in no other.
LEMMA WalkGrown ==
    ASSUME NEW tabs \in TableSet, NEW vpn \in Nat, NEW root \in Nat,
           NEW t \in Tables, NEW j \in Index, NEW X \in SUBSET {"A", "D"}
    PROVE  Walk(Grown(tabs, t, j, X), root, vpn) = GrownLeaf(Walk(tabs, root, vpn), t, j, X)
<1> DEFINE grown == Grown(tabs, t, j, X)
<1>1. grown \in TableSet
  BY GrownType
<1>2. PICK w : Descends(w, tabs, vpn) /\ \A r \in Nat : Walk(tabs, r, vpn) = w[Levels][r]
  BY WalkDescends
<1>3. PICK v : Descends(v, grown, vpn) /\ \A r \in Nat : Walk(grown, r, vpn) = v[Levels][r]
  <2> HIDE DEF grown
  <2>1. QED
    BY <1>1, WalkDescends
<1> DEFINE A == {i \in 0 .. Levels : \A u \in Nat : v[i][u] = GrownLeaf(w[i][u], t, j, X)}
<1>4. Levels \in Nat
  BY MmuAssumption
<1>5. 0 \in A
  BY <1>2, <1>3, <1>4 DEF Descends, GrownLeaf, Fault
<1>6. \A i \in 1 .. Levels : i - 1 \in A => i \in A
  <2> SUFFICES ASSUME NEW i \in 1 .. Levels, i - 1 \in A, NEW u \in Nat
               PROVE  i \in 0 .. Levels /\ v[i][u] = GrownLeaf(w[i][u], t, j, X)
    OBVIOUS
  <2>1. w[i][u] = Found(tabs, vpn, i, u, w[i - 1]) /\ w[i - 1] \in [Nat -> Leaves]
    BY <1>2, <1>4 DEF Descends
  <2>2. v[i][u] = Found(grown, vpn, i, u, v[i - 1]) /\ v[i - 1] \in [Nat -> Leaves]
    BY <1>3, <1>4 DEF Descends
  <2>3. \A a \in Nat : v[i - 1][a] = GrownLeaf(w[i - 1][a], t, j, X)
    OBVIOUS
  <2>4. QED
    BY <1>4, <2>1, <2>2, <2>3, FoundGrown
<1>7. \A i \in 0 .. Levels : i \in A
  <2> HIDE DEF A
  <2>1. QED
    BY <1>4, <1>5, <1>6, UpTo
<1>8. Levels \in A
  BY <1>4, <1>7
<1>9. QED
  BY <1>2, <1>3, <1>8

----------------------------------------------------------------------------
(* The TLB *)

\* What a kernel that trusts the TLB relies on: a valid entry is what a walk of
\* the tables finds, in every address space it may be used for.
Agrees(e, leaf) ==
    /\ leaf.ppn = e.ppn /\ "A" \in leaf.flags
    /\ leaf.flags \cap {"R", "W", "X", "U", "G"} = e.flags

EntriesAgree ==
    \A w \in 0 .. TLB_Size - 1, a \in ASIDs :
        tlb[w].valid /\ ("G" \in tlb[w].flags \/ tlb[w].asid = a)
            => Agrees(tlb[w], Walk(tables, Root[a], tlb[w].tag))

EntriesTouched == \A w \in 0 .. TLB_Size - 1 : tlb[w].valid => tlb[w].tag \in VPNs

MmuInv ==
    /\ MmuTypeOK
    /\ EntriesTouched
    /\ trusted => GlobalsShared /\ EntriesAgree

LEMMA NoEntryType ==
    ASSUME ASIDs # {}
    PROVE  /\ NoEntry \in [valid : BOOLEAN, tag : VPNs \cup {0}, asid : ASIDs, ppn : Nat,
                           flags : SUBSET {"R", "W", "X", "U", "G"}]
           /\ NoEntry.valid = FALSE
<1>1. (CHOOSE a \in ASIDs : TRUE) \in ASIDs
  OBVIOUS
<1>2. QED
  BY <1>1 DEF NoEntry

\* A TLB of entries that are not valid says nothing.
LEMMA EmptyTlb ==
    ASSUME tlb = [w \in 0 .. TLB_Size - 1 |-> NoEntry], ASIDs # {}
    PROVE  /\ EntriesTouched /\ EntriesAgree
           /\ tlb \in [0 .. TLB_Size - 1 ->
                          [valid : BOOLEAN, tag : VPNs \cup {0}, asid : ASIDs, ppn : Nat,
                           flags : SUBSET {"R", "W", "X", "U", "G"}]]
  BY NoEntryType DEF EntriesTouched, EntriesAgree

LEMMA MmuInitially == MmuInit => MmuInv
<1> SUFFICES ASSUME MmuInit
             PROVE  MmuInv
  OBVIOUS
<1>1. EntriesTouched /\ EntriesAgree
  BY EmptyTlb DEF MmuInit
<1>2. MmuTypeOK
  <2>1. trusted \in BOOLEAN
    BY DEF MmuInit, GlobalsShared
  <2>2. 0 \in 0 .. TLB_Size - 1
    BY MmuAssumption
  <2>3. QED
    BY <2>1, <2>2, EmptyTlb, MmuAssumption DEF MmuInit, MmuTypeOK
<1>3. trusted => GlobalsShared
  BY DEF MmuInit
<1>4. QED
  BY <1>1, <1>2, <1>3 DEF MmuInv

\* The bits an access sets in its leaf.
Sets(acc) == {"A"} \cup (IF acc = "store" THEN {"D"} ELSE {})

\* What a miss that is answered with a page leaves behind.
LEMMA MissFills ==
    ASSUME MmuTypeOK, NEW kind \in Kinds, NEW vpn \in VPNs, NEW who \in GuestPrivs,
           TlbMiss(kind, vpn, who), last'.ok
    PROVE  LET leaf == Walk(tables, Root[asid], vpn)
           IN  /\ leaf \in Leaves /\ leaf.table \in Tables /\ leaf.flags # {}
               /\ Sets(AccessOf(kind)) \in SUBSET {"A", "D"} /\ "A" \in Sets(AccessOf(kind))
               /\ tables' = Grown(tables, leaf.table, leaf.index, Sets(AccessOf(kind)))
               /\ tlb' = [tlb EXCEPT ![Next_Way] = Cached(vpn, leaf)]
               /\ Next_Way' = NextWay
<1> DEFINE leaf == Walk(tables, Root[asid], vpn)
           acc == AccessOf(kind)
<1>1. Root[asid] \in Nat /\ vpn \in Nat /\ tables \in TableSet
  BY MmuAssumption DEF MmuTypeOK, TableSet
<1>2. leaf \in Leaves /\ Stored(leaf, tables)
  BY <1>1, WalkStored
<1> HIDE DEF leaf
<1>3. acc \in {"fetch", "load", "store"}
  BY DEF AccessOf, Kinds
<1>4. /\ last' = Answer(kind, vpn, acc, who, leaf.flags, leaf.ppn)
      /\ tables' = Marked(leaf, acc)
      /\ tlb' = [tlb EXCEPT ![Next_Way] = Cached(vpn, leaf)]
      /\ Next_Way' = NextWay
  BY DEF TlbMiss, leaf
<1> HIDE DEF acc
<1>5. Check_Perms(leaf.flags, acc, who)
  BY <1>4 DEF Answer, PageFault
<1>6. leaf.flags # {}
  BY <1>3, <1>5 DEF Check_Perms
<1>7. Marked(leaf, acc) = Grown(tables, leaf.table, leaf.index, Sets(acc))
  <2>1. \A f : Touched(f, acc) = f \cup Sets(acc)
    BY DEF Touched, Sets
  <2>2. QED
    BY <2>1 DEF Marked, Grown
<1>8. QED
  BY <1>2, <1>4, <1>6, <1>7 DEF Stored, Sets, leaf, acc

\* Bits A and D set in a leaf disturb neither what is shared nor what agrees.
LEMMA GrownShared ==
    ASSUME NEW leaf \in Leaves, NEW l \in Leaves, NEW t, NEW j,
           NEW X \in SUBSET {"A", "D"}
    PROVE  /\ "G" \in GrownLeaf(leaf, t, j, X).flags => "G" \in leaf.flags
           /\ \A e : Agrees(e, leaf) => Agrees(e, GrownLeaf(leaf, t, j, X))
  BY DEF GrownLeaf, Agrees, Leaves

LEMMA GrowthKeeps ==
    ASSUME MmuTypeOK, EntriesTouched, NEW t \in Tables, NEW j \in Index,
           NEW X \in SUBSET {"A", "D"}, tables' = Grown(tables, t, j, X)
    PROVE  /\ tables' \in TableSet
           /\ GlobalsShared => GlobalsShared'
           /\ \A a \in ASIDs, vpn \in VPNs :
                 /\ Walk(tables', Root[a], vpn) = GrownLeaf(Walk(tables, Root[a], vpn), t, j, X)
                 /\ \A e : Agrees(e, Walk(tables, Root[a], vpn))
                              => Agrees(e, Walk(tables', Root[a], vpn))
<1>1. tables \in TableSet
  BY DEF MmuTypeOK, TableSet
<1>2. ASSUME NEW a \in ASIDs, NEW vpn \in VPNs
      PROVE  /\ Walk(tables, Root[a], vpn) \in Leaves
             /\ Walk(tables', Root[a], vpn) = GrownLeaf(Walk(tables, Root[a], vpn), t, j, X)
  <2>1. Root[a] \in Nat /\ vpn \in Nat
    BY MmuAssumption
  <2>2. QED
    BY <1>1, <2>1, WalkStored, WalkGrown
<1>3. GlobalsShared => GlobalsShared'
  <2> SUFFICES ASSUME GlobalsShared, NEW vpn \in VPNs, NEW a \in ASIDs, NEW b \in ASIDs,
                      "G" \in Walk(tables', Root[a], vpn).flags
               PROVE  Walk(tables', Root[b], vpn) = Walk(tables', Root[a], vpn)
    BY DEF GlobalsShared
  <2>1. "G" \in Walk(tables, Root[a], vpn).flags
    BY <1>2, GrownShared
  <2>2. Walk(tables, Root[b], vpn) = Walk(tables, Root[a], vpn)
    BY <2>1 DEF GlobalsShared
  <2>3. QED
    BY <1>2, <2>2
<1>4. \A a \in ASIDs, vpn \in VPNs :
         \A e : Agrees(e, Walk(tables, Root[a], vpn)) => Agrees(e, Walk(tables', Root[a], vpn))
  <2> SUFFICES ASSUME NEW a \in ASIDs, NEW vpn \in VPNs, NEW e,
                      Agrees(e, Walk(tables, Root[a], vpn))
               PROVE  Agrees(e, Walk(tables', Root[a], vpn))
    OBVIOUS
  <2>1. QED
    BY <1>2, GrownShared
<1>5. tables' \in TableSet
  BY <1>1, GrownType
<1>6. QED
  BY <1>2, <1>3, <1>4, <1>5

LEMMA MissKeeps ==
    ASSUME MmuInv, NEW kind \in Kinds, NEW vpn \in VPNs, NEW who \in GuestPrivs,
           TlbMiss(kind, vpn, who), last'.ok,
           UNCHANGED <<asid, paging, sum, mxr, trusted>>
    PROVE  MmuInv' /\ (trusted => "A" \in Walk(tables', Root[asid], vpn).flags)
<1> DEFINE leaf == Walk(tables, Root[asid], vpn)
           X == Sets(AccessOf(kind))
           c == Cached(vpn, leaf)
<1>1. MmuTypeOK /\ EntriesTouched /\ (trusted => GlobalsShared /\ EntriesAgree)
  BY DEF MmuInv
<1>2. /\ leaf \in Leaves /\ leaf.table \in Tables /\ leaf.flags # {}
      /\ X \in SUBSET {"A", "D"} /\ "A" \in X
      /\ tables' = Grown(tables, leaf.table, leaf.index, X)
      /\ tlb' = [tlb EXCEPT ![Next_Way] = c]
      /\ Next_Way' = NextWay
  BY <1>1, MissFills
<1>3. leaf.index \in Index
  BY <1>2 DEF Leaves
<1>4. /\ tables' \in TableSet
      /\ GlobalsShared => GlobalsShared'
      /\ \A a \in ASIDs, v \in VPNs :
            /\ Walk(tables', Root[a], v)
                 = GrownLeaf(Walk(tables, Root[a], v), leaf.table, leaf.index, X)
            /\ \A e : Agrees(e, Walk(tables, Root[a], v)) => Agrees(e, Walk(tables', Root[a], v))
  <2> HIDE DEF X, leaf
  <2>1. QED
    BY <1>1, <1>2, <1>3, GrowthKeeps
<1>5. c \in [valid : BOOLEAN, tag : VPNs \cup {0}, asid : ASIDs, ppn : Nat,
             flags : SUBSET {"R", "W", "X", "U", "G"}]
  <2> HIDE DEF leaf
  <2>1. QED
    BY <1>1, <1>2 DEF Cached, Leaves, MmuTypeOK
<1>6. /\ c.valid /\ c.tag = vpn /\ c.asid = asid /\ c.ppn = leaf.ppn
      /\ c.flags = leaf.flags \cap {"R", "W", "X", "U", "G"}
  BY DEF Cached
<1>7. \A w \in 0 .. TLB_Size - 1 : tlb'[w] = IF w = Next_Way THEN c ELSE tlb[w]
  <2> HIDE DEF c
  <2>1. QED
    BY <1>1, <1>2 DEF MmuTypeOK
<1>8. GrownLeaf(leaf, leaf.table, leaf.index, X).flags = leaf.flags \cup X
      /\ GrownLeaf(leaf, leaf.table, leaf.index, X).ppn = leaf.ppn
  <2> HIDE DEF leaf, X
  <2>1. QED
    BY <1>2 DEF GrownLeaf, Leaves
<1>9. Agrees(c, GrownLeaf(leaf, leaf.table, leaf.index, X))
  <2> HIDE DEF leaf, X, c
  <2>1. QED
    BY <1>2, <1>6, <1>8 DEF Agrees
<1>10. MmuTypeOK'
  <2>1. Next_Way' \in 0 .. TLB_Size - 1
    <3>1. Next_Way + 1 \in Int /\ TLB_Size \in Nat \ {0}
      BY <1>1, MmuAssumption DEF MmuTypeOK
    <3>2. QED
      BY <1>2, <3>1, ModRange DEF NextWay
  <2> HIDE DEF c, leaf
  <2>2. QED
    BY <1>1, <1>2, <1>4, <1>5, <2>1 DEF MmuTypeOK, TableSet
<1>11. EntriesTouched'
  <2> HIDE DEF c, leaf
  <2>1. QED
    BY <1>1, <1>6, <1>7 DEF EntriesTouched
<1>12. ASSUME trusted
       PROVE  EntriesAgree'
  <2> SUFFICES ASSUME NEW w \in 0 .. TLB_Size - 1, NEW a \in ASIDs,
                      tlb'[w].valid, "G" \in tlb'[w].flags \/ tlb'[w].asid = a
               PROVE  Agrees(tlb'[w], Walk(tables', Root[a], tlb'[w].tag))
    BY DEF EntriesAgree
  <2>1. CASE w # Next_Way
    <3>1. tlb'[w] = tlb[w]
      BY <1>7, <2>1
    <3>2. tlb[w].tag \in VPNs /\ Agrees(tlb[w], Walk(tables, Root[a], tlb[w].tag))
      BY <1>1, <1>12, <3>1 DEF EntriesTouched, EntriesAgree
    <3>3. QED
      BY <1>4, <3>1, <3>2
  <2>2. CASE w = Next_Way
    <3>1. tlb'[w] = c
      BY <1>7, <2>2
    <3>2. Walk(tables, Root[a], vpn) = leaf
      <4>1. "G" \in leaf.flags \/ a = asid
        BY <1>6, <3>1
      <4>2. QED
        BY <1>1, <1>12, <4>1 DEF GlobalsShared, MmuTypeOK
    <3>3. Walk(tables', Root[a], vpn) = GrownLeaf(leaf, leaf.table, leaf.index, X)
      BY <1>4, <3>2
    <3>4. QED
      <4> HIDE DEF leaf, X, c
      <4>1. QED
        BY <1>6, <1>9, <3>1, <3>3
  <2>3. QED
    BY <2>1, <2>2
<1>13. "A" \in Walk(tables', Root[asid], vpn).flags
  <2>1. Walk(tables', Root[asid], vpn) = GrownLeaf(leaf, leaf.table, leaf.index, X)
    BY <1>1, <1>4 DEF MmuTypeOK
  <2> HIDE DEF leaf, X
  <2>2. QED
    BY <1>2, <1>8, <2>1
<1>14. QED
  <2> HIDE DEF leaf, X, c
  <2>1. QED
    BY <1>1, <1>4, <1>10, <1>11, <1>12, <1>13 DEF MmuInv

\* A step that leaves the tables, the TLB and what is trusted alone.
LEMMA UntouchedKeeps ==
    ASSUME MmuInv, UNCHANGED <<tables, tlb, Next_Way, trusted>>,
           asid' \in ASIDs, paging' \in BOOLEAN, sum' \in BOOLEAN, mxr' \in BOOLEAN
    PROVE  MmuInv'
  BY DEF MmuInv, MmuTypeOK, EntriesTouched, EntriesAgree, GlobalsShared

LEMMA AccessKeeps == ASSUME MmuInv, Access PROVE MmuInv'
<1>1. MmuTypeOK
  BY DEF MmuInv
<1>2. PICK kind \in Kinds, vpn \in VPNs, who \in GuestPrivs :
         Bypass(kind, vpn, who) \/ TlbHit(kind, vpn, who) \/ TlbMiss(kind, vpn, who)
  BY DEF Access
<1>3. UNCHANGED <<asid, paging, sum, mxr, trusted>>
  BY DEF Access
<1>4. CASE TlbMiss(kind, vpn, who) /\ last'.ok
  BY <1>3, <1>4, MissKeeps
<1>5. CASE ~(TlbMiss(kind, vpn, who) /\ last'.ok)
  <2>1. UNCHANGED <<tables, tlb, Next_Way>>
    BY <1>2, <1>5 DEF Bypass, TlbHit, TlbMiss
  <2>2. QED
    BY <1>1, <1>3, <2>1, UntouchedKeeps DEF MmuTypeOK
<1>6. QED
  BY <1>4, <1>5

LEMMA MmuStep == MmuInv /\ [MmuNext]_mmuVars => MmuInv'
<1> SUFFICES ASSUME MmuInv, [MmuNext]_mmuVars
             PROVE  MmuInv'
  OBVIOUS
<1>1. MmuTypeOK
  BY DEF MmuInv
<1>2. CASE Access
  BY <1>2, AccessKeeps
<1>3. CASE EditTable
  <2>1. PICK e \in Edits : tables' = [tables EXCEPT ![e[1]][e[2]] = e[3]]
    BY <1>3 DEF EditTable
  <2>2. e[1] \in Tables /\ e[2] \in Index /\ e[3] \in PTE
    BY MmuAssumption
  <2>3. tables' \in [Tables -> [Index -> PTE]]
    BY <1>1, <2>1, <2>2 DEF MmuTypeOK
  <2>4. MmuTypeOK'
    BY <1>1, <1>3, <2>3 DEF EditTable, MmuTypeOK
  <2>5. QED
    BY <1>3, <2>4 DEF EditTable, MmuInv, EntriesTouched
<1>4. CASE WriteSatp
  BY <1>1, <1>4, UntouchedKeeps DEF WriteSatp, MmuTypeOK
<1>5. CASE WriteStatus
  BY <1>1, <1>5, UntouchedKeeps DEF WriteStatus, MmuTypeOK
<1>6. CASE Sfence
  <2>1. tlb' = [w \in 0 .. TLB_Size - 1 |-> NoEntry] /\ ASIDs # {}
    BY <1>1, <1>6 DEF Sfence, Flushed, MmuTypeOK
  <2>2. \A w \in 0 .. TLB_Size - 1 : tlb'[w].valid = FALSE
    BY <2>1, NoEntryType
  <2>3. EntriesTouched' /\ EntriesAgree'
    BY <2>2 DEF EntriesTouched, EntriesAgree
  <2>4. trusted' \in BOOLEAN /\ (trusted' => GlobalsShared')
    BY <1>6 DEF Sfence, GlobalsShared
  <2>5. MmuTypeOK'
    BY <1>1, <1>6, <2>1, <2>4, NoEntryType DEF Sfence, MmuTypeOK
  <2>6. QED
    BY <2>3, <2>4, <2>5 DEF MmuInv
<1>7. CASE UNCHANGED mmuVars
  BY <1>1, <1>7, UntouchedKeeps DEF mmuVars, MmuTypeOK
<1>8. QED
  BY <1>2, <1>3, <1>4, <1>5, <1>6, <1>7 DEF MmuNext

LEMMA MmuInvariant == MmuSpec => []MmuInv
  BY MmuInitially, MmuStep, PTL DEF MmuSpec

\* The tables, the TLB and satp keep their ranges for tables of any depth and
\* width, any TLB and any edits of the kernel (Translate, Flush_TLB).
THEOREM MmuTypeCorrect == MmuSpec => []MmuTypeOK
<1>1. MmuInv => MmuTypeOK
  BY DEF MmuInv
<1>2. QED
  BY <1>1, MmuInvariant, PTL

----------------------------------------------------------------------------
(* The MMU: the theorems *)

\* What a lookup finds.
LEMMA HitMatches ==
    ASSUME MmuTypeOK, NEW vpn \in VPNs, Hits(vpn) # {}
    PROVE  \E w \in 0 .. TLB_Size - 1 : Hit(vpn) = tlb[w] /\ Matches(tlb[w], vpn)
<1>1. Hits(vpn) \in SUBSET Nat
  BY DEF Hits
<1>2. \E w \in Hits(vpn) : \A v \in Hits(vpn) : w <= v
  BY <1>1, LeastNumber
<1>3. (CHOOSE w \in Hits(vpn) : \A v \in Hits(vpn) : w <= v) \in Hits(vpn)
  BY <1>2
<1>4. QED
  BY <1>3 DEF Hit, Hits

LEMMA HitAgrees ==
    ASSUME MmuInv, trusted, NEW vpn \in VPNs, Hits(vpn) # {}
    PROVE  Agrees(Hit(vpn), Walk(tables, Root[asid], vpn))
<1>1. MmuTypeOK /\ EntriesAgree
  BY DEF MmuInv
<1>2. PICK w \in 0 .. TLB_Size - 1 : Hit(vpn) = tlb[w] /\ Matches(tlb[w], vpn)
  BY <1>1, HitMatches
<1>3. asid \in ASIDs
  BY <1>1 DEF MmuTypeOK
<1>4. QED
  BY <1>1, <1>2, <1>3 DEF EntriesAgree, Matches

LEMMA AnswerAgrees ==
    ASSUME NEW kind, NEW vpn, NEW acc \in {"fetch", "load", "store"}, NEW who,
           NEW e, NEW leaf, Agrees(e, leaf)
    PROVE  Answer(kind, vpn, acc, who, e.flags, e.ppn)
             = Answer(kind, vpn, acc, who, leaf.flags, leaf.ppn)
<1>1. \A f \in {"R", "W", "X", "U"} : f \in e.flags <=> f \in leaf.flags
  BY DEF Agrees
<1>2. Check_Perms(e.flags, acc, who) <=> Check_Perms(leaf.flags, acc, who)
  <2>1. CASE acc = "fetch"
    BY <1>1, <2>1 DEF Check_Perms
  <2>2. CASE acc = "load"
    BY <1>1, <2>2 DEF Check_Perms
  <2>3. CASE acc = "store"
    BY <1>1, <2>3 DEF Check_Perms
  <2>4. QED
    BY <2>1, <2>2, <2>3
<1>3. QED
  BY <1>2 DEF Answer, Agrees

LEMMA AnswerNames ==
    ASSUME NEW kind, NEW vpn, NEW acc, NEW who, NEW flags, NEW page, NEW l,
           l = Answer(kind, vpn, acc, who, flags, page) \/ l = Translated(kind, vpn, who, page)
    PROVE  l.kind = kind /\ l.vpn = vpn /\ l.priv = who
  BY DEF Answer, Translated, PageFault

\* The TLB shows in no access of a kernel that fences after it edits: it gets
\* the page or the fault that a walk of the tables gives (Translate).  The page
\* faults of AMOs are left aside: they have the wrong cause either way.
THEOREM MmuTlbInvisible == MmuSpec => TlbInvisible
<1> DEFINE A == trusted /\ last' # NoAccess /\ (last'.kind = "amo" => last'.ok) =>
                  last' = Expected(last'.kind, last'.vpn, last'.priv)
<1>1. MmuInv /\ [MmuNext]_mmuVars => [A]_mmuVars
  <2> SUFFICES ASSUME MmuInv, MmuNext, trusted, last' # NoAccess
               PROVE  last' = Expected(last'.kind, last'.vpn, last'.priv)
    OBVIOUS
  <2>1. Access
    BY DEF MmuNext, EditTable, WriteSatp, WriteStatus, Sfence
  <2>2. PICK kind \in Kinds, vpn \in VPNs, who \in GuestPrivs :
           Bypass(kind, vpn, who) \/ TlbHit(kind, vpn, who) \/ TlbMiss(kind, vpn, who)
    BY <2>1 DEF Access
  <2> DEFINE leaf == Walk(tables, Root[asid], vpn)
             acc == AccessOf(kind)
  <2>3. CASE Bypass(kind, vpn, who)
    <3>1. last'.kind = kind /\ last'.vpn = vpn /\ last'.priv = who
      BY <2>3, AnswerNames DEF Bypass
    <3>2. QED
      BY <2>3, <3>1 DEF Bypass, Expected
  <2>4. CASE TlbHit(kind, vpn, who)
    <3>1. last' = Answer(kind, vpn, acc, who, Hit(vpn).flags, Hit(vpn).ppn)
      BY <2>4 DEF TlbHit
    <3>2. last'.kind = kind /\ last'.vpn = vpn /\ last'.priv = who
      BY <3>1, AnswerNames
    <3>3. Agrees(Hit(vpn), leaf)
      BY <2>4, HitAgrees DEF TlbHit
    <3>4. acc \in {"fetch", "load", "store"}
      BY DEF AccessOf, Kinds
    <3>5. last' = Answer(kind, vpn, acc, who, leaf.flags, leaf.ppn)
      BY <3>1, <3>3, <3>4, AnswerAgrees
    <3>6. QED
      BY <2>4, <3>2, <3>5 DEF TlbHit, Expected
  <2>5. CASE TlbMiss(kind, vpn, who)
    <3>1. last' = Answer(kind, vpn, acc, who, leaf.flags, leaf.ppn)
      BY <2>5 DEF TlbMiss
    <3>2. last'.kind = kind /\ last'.vpn = vpn /\ last'.priv = who
      BY <3>1, AnswerNames
    <3>3. QED
      BY <2>5, <3>1, <3>2 DEF TlbMiss, Expected
  <2>6. QED
    BY <2>2, <2>3, <2>4, <2>5
<1>2. QED
  BY <1>1, MmuInvariant, PTL DEF MmuSpec, TlbInvisible

\* An access that gets its page through the tables leaves the A bit of its leaf
\* set, from the TLB or not (Translate).
THEOREM MmuAccessRecorded == MmuSpec => AccessRecorded
<1> DEFINE A == trusted /\ paging /\ last' # NoAccess =>
                  \A vpn \in VPNs : last'.ok /\ last'.vpn = vpn /\ last'.priv # "M" =>
                     "A" \in Walk(tables', Root[asid], vpn).flags
<1>1. MmuInv /\ [MmuNext]_mmuVars => [A]_mmuVars
  <2> SUFFICES ASSUME MmuInv, MmuNext, trusted, paging, last' # NoAccess,
                      last'.ok, last'.vpn \in VPNs, last'.priv # "M"
               PROVE  "A" \in Walk(tables', Root[asid], last'.vpn).flags
    OBVIOUS
  <2>1. Access
    BY DEF MmuNext, EditTable, WriteSatp, WriteStatus, Sfence
  <2>2. PICK kind \in Kinds, vpn \in VPNs, who \in GuestPrivs :
           Bypass(kind, vpn, who) \/ TlbHit(kind, vpn, who) \/ TlbMiss(kind, vpn, who)
    BY <2>1 DEF Access
  <2> DEFINE leaf == Walk(tables, Root[asid], vpn)
             acc == AccessOf(kind)
  <2>3. ~Bypass(kind, vpn, who)
    <3>1. SUFFICES ASSUME Bypass(kind, vpn, who)
                   PROVE  FALSE
      OBVIOUS
    <3>2. last'.priv = who
      BY <3>1, AnswerNames DEF Bypass
    <3>3. QED
      BY <3>1, <3>2 DEF Bypass
  <2>4. CASE TlbHit(kind, vpn, who)
    <3>1. last' = Answer(kind, vpn, acc, who, Hit(vpn).flags, Hit(vpn).ppn) /\ tables' = tables
      BY <2>4 DEF TlbHit
    <3>2. last'.vpn = vpn
      BY <3>1, AnswerNames
    <3>3. Agrees(Hit(vpn), leaf)
      BY <2>4, HitAgrees DEF TlbHit
    <3>4. QED
      BY <3>1, <3>2, <3>3 DEF Agrees
  <2>5. CASE TlbMiss(kind, vpn, who)
    <3>1. last' = Answer(kind, vpn, acc, who, leaf.flags, leaf.ppn)
      BY <2>5 DEF TlbMiss
    <3>2. last'.vpn = vpn
      BY <3>1, AnswerNames
    <3>3. "A" \in Walk(tables', Root[asid], vpn).flags
      BY <2>1, <2>5, MissKeeps DEF Access
    <3>4. QED
      BY <3>2, <3>3
  <2>6. QED
    BY <2>2, <2>3, <2>4, <2>5
<1>2. QED
  BY <1>1, MmuInvariant, PTL DEF MmuSpec, AccessRecorded
=============================================================================
