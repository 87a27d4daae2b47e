------------------------------ MODULE Counters ------------------------------
(***************************************************************************)
(* The 64-bit counters an RV32 guest reads in two halves, mcycle           *)
(* (riscv-csr.adb, advanced at the end of every Step) and the CLINT's      *)
(* mtime, and the two routines of programs/time.c that read them.          *)
(*                                                                         *)
(* counter is the one a routine reads, a pair of halves modulo Radix       *)
(* (2^32).  Between two instructions of a routine any other code of the    *)
(* hart may run, an interrupt handler for one.                             *)
(***************************************************************************)
EXTENDS Integers

CONSTANTS
    Radix,      \* 2^32
    MaxCost,    \* bound: what the counter advances in one step of the model
    Routines    \* which of the two routines the guest calls

ASSUME CountersAssumption ==
    /\ Radix \in Nat /\ Radix >= 3
    /\ MaxCost \in 1 .. Radix
    /\ Routines \subseteq {"read_cycle", "read_mtime"}

Half == 0 .. Radix - 1
Pair == [hi : Half, lo : Half]

VARIABLES
    counter,     \* [hi, lo]
    stopped,     \* mcountinhibit.CY set; for mtime, a loop that does not tick
    routine,     \* the routine called last
    at,          \* the load the routine does next, or "idle"
    hi1, lo,     \* what it has loaded
    result,      \* what the last call returned
    held,        \* history: values of counter since the call's first load
    carries      \* history: carries into the high half since then

counterVars == <<counter, stopped, routine, at, hi1, lo, result, held, carries>>

Loads == {"cycleh", "cycle", "cycleh again", "mtime", "mtime low", "mtime high"}

CountersTypeOK ==
    /\ counter \in Pair
    /\ stopped \in BOOLEAN
    /\ routine \in {"read_cycle", "read_mtime"}
    /\ at \in Loads \cup {"idle"}
    /\ hi1 \in Half /\ lo \in Half
    /\ result \in Pair
    /\ held \subseteq Pair
    /\ carries \in Half

CountersInit ==
    /\ counter = [hi |-> 0, lo |-> 0]
    /\ stopped = FALSE
    /\ routine = "read_cycle"
    /\ at = "idle"
    /\ hi1 = 0 /\ lo = 0
    /\ result = counter
    /\ held = {counter}
    /\ carries = 0

----------------------------------------------------------------------------
(* The counter *)

NextHalf(h) == IF h = Radix - 1 THEN 0 ELSE h + 1

\* Counter c advanced by n <= Radix.
Added(c, n) ==
    IF c.lo + n < Radix THEN [c EXCEPT !.lo = @ + n]
    ELSE [hi |-> NextHalf(c.hi), lo |-> c.lo + n - Radix]

\* The end of a step: the counter advances unless it is stopped.
Advance ==
    /\ \E n \in 1 .. MaxCost : counter' = IF stopped THEN counter ELSE Added(counter, n)
    /\ UNCHANGED stopped

\* What the history keeps of a step of the call.
Observe(heldBefore, carriesBefore) ==
    /\ held' = heldBefore \cup {counter'}
    /\ carries' = IF counter'.hi = counter.hi THEN carriesBefore ELSE carriesBefore + 1

\* Code that is not the routine.  Bound: it brings fewer than Radix - 1
\* carries (2^64 cycles) into one round of the routine.
OtherCode ==
    /\ at # "idle"
    /\ Advance
    /\ Observe(held, carries)
    /\ carries' < Radix - 1
    /\ UNCHANGED <<routine, at, hi1, lo, result>>

\* Between two calls the counter may be written half by half, stopped and
\* started, and anything may pass.
BetweenCalls ==
    /\ at = "idle"
    /\ counter' \in Pair
    /\ stopped' \in BOOLEAN
    /\ UNCHANGED <<routine, at, hi1, lo, result, held, carries>>

----------------------------------------------------------------------------
(* read_cycle: the high half, the low half, and the high half again until    *)
(* it has not changed                                                       *)

\* Fault variant: no second look at the high half.
SettledAlways(before, now) == TRUE

Settled(before, now) == before = now

CallRoutine ==
    /\ at = "idle"
    /\ routine' \in Routines
    /\ at' = IF routine' = "read_cycle" THEN "cycleh" ELSE "mtime"
    /\ UNCHANGED <<counter, stopped, hi1, lo, result, held, carries>>

ReadHigh ==
    /\ at = "cycleh"
    /\ hi1' = counter.hi
    /\ at' = "cycle"
    /\ Advance
    /\ Observe({counter}, 0)
    /\ UNCHANGED <<routine, lo, result>>

ReadLow ==
    /\ at = "cycle"
    /\ lo' = counter.lo
    /\ at' = "cycleh again"
    /\ Advance
    /\ Observe(held, carries)
    /\ UNCHANGED <<routine, hi1, result>>

ReadHighAgain ==
    /\ at = "cycleh again"
    /\ IF Settled(hi1, counter.hi)
       THEN at' = "idle" /\ result' = [hi |-> hi1, lo |-> lo]
       ELSE at' = "cycleh" /\ UNCHANGED result
    /\ Advance
    /\ UNCHANGED <<routine, hi1, lo, held, carries>>

----------------------------------------------------------------------------
(* read_mtime: one 64-bit volatile load, which RV32 code does as two word    *)
(* loads in either order                                                    *)

MtimeFirst ==
    /\ at = "mtime"
    /\ \/ hi1' = counter.hi /\ at' = "mtime low" /\ UNCHANGED lo
       \/ lo' = counter.lo /\ at' = "mtime high" /\ UNCHANGED hi1
    /\ Advance
    /\ Observe({counter}, 0)
    /\ UNCHANGED <<routine, result>>

MtimeSecond ==
    /\ \/ /\ at = "mtime low"
          /\ lo' = counter.lo /\ UNCHANGED hi1
       \/ /\ at = "mtime high"
          /\ hi1' = counter.hi /\ UNCHANGED lo
    /\ result' = [hi |-> hi1', lo |-> lo']
    /\ at' = "idle"
    /\ Advance
    /\ UNCHANGED <<routine, held, carries>>

CountersNext ==
    \/ OtherCode \/ BetweenCalls \/ CallRoutine
    \/ ReadHigh \/ ReadLow \/ ReadHighAgain
    \/ MtimeFirst \/ MtimeSecond

CountersSpec == CountersInit /\ [][CountersNext]_counterVars

----------------------------------------------------------------------------
(* Properties *)

CycleReadExact == at = "idle" /\ routine = "read_cycle" => result \in held

MtimeTearsOnCarry ==
    at = "idle" /\ routine = "read_mtime" => result \in held \/ carries > 0

\* A call of read_cycle returns a value the counter really had while the call
\* ran, although each half is read in an instruction of its own: what the loop
\* is for ("guard against a rollover between the two reads").  read_mtime has
\* no such loop: the value it returns may be one the register never had, but
\* only when the low half carried between its two loads.
ReadsHonest == CycleReadExact /\ MtimeTearsOnCarry
=============================================================================
