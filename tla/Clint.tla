------------------------------- MODULE Clint -------------------------------
(***************************************************************************)
(* The core-local interruptor of riscv-clint.adb: one free-running mtime   *)
(* shared by the harts, one mtimecmp and one software-interrupt bit per    *)
(* hart, and the latched Timer_Interrupt flags Check_Interrupts samples.   *)
(*                                                                         *)
(* A 64-bit register is two digits in base Radix, Lo and Hi, written one   *)
(* at a time: the eight byte lanes Write_Byte updates one by one, reduced  *)
(* to two.  Arithmetic is modulo Radix^2 as the code's is modulo 2^64.     *)
(***************************************************************************)
EXTENDS Integers

CONSTANTS Radix,    \* values of one register digit
          Harts     \* harts the CLINT serves (0 .. 1 in the code)

ASSUME RadixAssumption == Radix \in Nat /\ Radix >= 2

VARIABLES mtime, mtimecmp, msip, timerInterrupt,
          wrapped   \* history: mtime rolled over since hart h was last compared

clintVars == <<mtime, mtimecmp, msip, timerInterrupt, wrapped>>

Digit == 0 .. Radix - 1
Time  == 0 .. Radix * Radix - 1
Lanes == {"lo", "hi"}

\* The register after a write of digit d to one lane: (Reg and not Mask) or Shifted.
Splice(v, lane, d) ==
    IF lane = "lo" THEN d + Radix * (v \div Radix)
                   ELSE (v % Radix) + Radix * d

ClintTypeOK ==
    /\ mtime \in Time
    /\ mtimecmp \in [Harts -> Time]
    /\ msip \in [Harts -> BOOLEAN]
    /\ timerInterrupt \in [Harts -> BOOLEAN]
    /\ wrapped \in [Harts -> BOOLEAN]

\* Initialize: mtimecmp at its last value, nothing pending.
ClintInit ==
    /\ mtime = 0
    /\ mtimecmp = [h \in Harts |-> Radix * Radix - 1]
    /\ msip = [h \in Harts |-> FALSE]
    /\ timerInterrupt = [h \in Harts |-> FALSE]
    /\ wrapped = [h \in Harts |-> FALSE]

----------------------------------------------------------------------------
(* Register writes, one byte lane at a time. *)

WriteMsip(h, d) ==
    /\ msip' = [msip EXCEPT ![h] = d % 2 # 0]
    /\ UNCHANGED <<mtime, mtimecmp, timerInterrupt, wrapped>>

\* Fault variant: a new compare value without recomputing the latched flag.
CompareLatched(h, cmp) ==
    /\ mtimecmp' = [mtimecmp EXCEPT ![h] = cmp]
    /\ wrapped' = [wrapped EXCEPT ![h] = FALSE]
    /\ UNCHANGED <<mtime, msip, timerInterrupt>>

\* A new compare value for h, and the flag of h recomputed with >=.
Compare(h, cmp) ==
    /\ mtimecmp' = [mtimecmp EXCEPT ![h] = cmp]
    /\ timerInterrupt' = [timerInterrupt EXCEPT ![h] = mtime >= cmp]
    /\ wrapped' = [wrapped EXCEPT ![h] = FALSE]
    /\ UNCHANGED <<mtime, msip>>

WriteMtimecmp(h, lane, d) == Compare(h, Splice(mtimecmp[h], lane, d))

\* mtime is writable too; both harts' flags are recomputed.
WriteMtime(lane, d) ==
    /\ mtime' = Splice(mtime, lane, d)
    /\ timerInterrupt' = [h \in Harts |-> mtime' >= mtimecmp[h]]
    /\ wrapped' = [h \in Harts |-> FALSE]
    /\ UNCHANGED <<mtimecmp, msip>>

\* Set_Mtimecmp: the whole register at once (SBI set_timer).
SetMtimecmp(h, v) == Compare(h, v)

\* Fault variant: only hart 0 compared.
TickFirstHart ==
    /\ mtime' = (mtime + 1) % (Radix * Radix)
    /\ timerInterrupt' = [h \in Harts |-> timerInterrupt[h] \/ (h = 0 /\ mtime' >= mtimecmp[h])]
    /\ wrapped' = [h \in Harts |-> wrapped[h] \/ mtime' = 0]
    /\ UNCHANGED <<mtimecmp, msip>>

\* Tick: time advances; a flag is raised on a match and never lowered.
Tick ==
    /\ mtime' = (mtime + 1) % (Radix * Radix)
    /\ timerInterrupt' = [h \in Harts |-> timerInterrupt[h] \/ mtime' >= mtimecmp[h]]
    /\ wrapped' = [h \in Harts |-> wrapped[h] \/ mtime' = 0]
    /\ UNCHANGED <<mtimecmp, msip>>

ClintWrite ==
    \/ \E h \in Harts, d \in Digit : WriteMsip(h, d)
    \/ \E h \in Harts, lane \in Lanes, d \in Digit : WriteMtimecmp(h, lane, d)
    \/ \E lane \in Lanes, d \in Digit : WriteMtime(lane, d)
    \/ \E h \in Harts, v \in Time : SetMtimecmp(h, v)

ClintNext == ClintWrite \/ Tick

ClintSpec == ClintInit /\ [][ClintNext]_clintVars

----------------------------------------------------------------------------
(* Properties *)

\* The latched flag agrees with the comparison it stands for, for every hart,
\* after any order of partial register writes and ticks, unless mtime rolled
\* over since the hart's last comparison (Tick in riscv-clint.adb raises the
\* flag and never lowers it; only a register write recomputes it).
FlagFaithful ==
    \A h \in Harts : ~wrapped[h] => (timerInterrupt[h] <=> mtime >= mtimecmp[h])

\* No interrupt is lost: a hart whose deadline has passed is always flagged,
\* a rollover of mtime included.
NoLostDeadline == \A h \in Harts : mtime >= mtimecmp[h] => timerInterrupt[h]

\* While time passes (Run calls CLINT_Tick after every instruction), some tick
\* raises the interrupt of every hart, and it stays, if from some moment on no
\* store moves mtime or that hart's deadline or takes its flag back; the other
\* hart may go on setting its own deadline and sending software interrupts.
DeadlineReached ==
    \A h \in Harts :
        /\ []<><<Tick>>_clintVars
        /\ <>[][Tick \/ UNCHANGED <<mtime, mtimecmp[h], timerInterrupt[h]>>]_clintVars
        => <>[](timerInterrupt[h])
============================================================================
