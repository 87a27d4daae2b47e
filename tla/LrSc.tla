-------------------------------- MODULE LrSc --------------------------------
(***************************************************************************)
(* Load-reserved and store-conditional (riscv-cpu.adb) under the spinlock  *)
(* of programs/pthread.c.  Each hart has one reservation of its own;       *)
(* nothing but its own SC and its trap returns ever breaks it.  One hart   *)
(* runs its threads preemptively (Run takes interrupts); several harts are *)
(* stepped in turn by the loop of main.adb, which takes none.              *)
(***************************************************************************)
EXTENDS Integers, FiniteSets

CONSTANTS
    Harts,        \* 0 .. n-1: --harts 1 or 2
    Threads,      \* contexts of the guest
    Home,         \* [Threads -> Harts]
    Locks,        \* mutex words, each guarding a counter
    None,         \* no reservation; no thread
    CountMod      \* modulus of the counters

NumHarts == Cardinality(Harts)

ASSUME LrScAssumption ==
    /\ NumHarts \in Nat \ {0} /\ Harts = 0 .. NumHarts - 1
    /\ Home \in [Threads -> Harts]
    /\ None \notin Locks \cup Threads
    /\ CountMod \in Nat \ {0}

VARIABLES
    turn,         \* the hart the loop steps next
    running,      \* by hart: the thread it runs, None inside the trap handler
    resv,         \* by hart: Reserved_Addr while Reservation_Valid, else None
    lock,         \* by lock: the mutex word
    count,        \* by lock: the counter it guards
    pc,           \* by thread: where it is
    reg,          \* by thread: the register the current step loads
    target,       \* by thread: the lock it is after
    try           \* by thread: pthread_mutex_trylock, not _lock

thread == <<pc, reg, target, try>>
vars == <<turn, running, resv, lock, count, thread>>

Critical == {"load", "store", "unlock"}

TypeOK ==
    /\ turn \in Harts
    /\ running \in [Harts -> Threads \cup {None}]
    /\ resv \in [Harts -> Locks \cup {None}]
    /\ lock \in [Locks -> {0, 1}]
    /\ count \in [Locks -> 0 .. CountMod - 1]
    /\ pc \in [Threads -> {"idle", "lr", "branch", "sc"} \cup Critical]
    /\ reg \in [Threads -> Nat]
    /\ target \in [Threads -> Locks]
    /\ try \in [Threads -> BOOLEAN]

Init ==
    /\ turn = 0
    /\ running = [h \in Harts |-> None]
    /\ resv = [h \in Harts |-> None]
    /\ lock = [l \in Locks |-> 0]
    /\ count = [l \in Locks |-> 0]
    /\ pc = [t \in Threads |-> "idle"]
    /\ reg = [t \in Threads |-> 0]
    /\ target \in [Threads -> Locks]
    /\ try = [t \in Threads |-> FALSE]

\* The loop goes on to the next hart.
Stepped == turn' = (turn + 1) % NumHarts

Goto(t, label) == pc' = [pc EXCEPT ![t] = label]

----------------------------------------------------------------------------
(* The instructions of a thread *)

\* Enters pthread_mutex_lock or pthread_mutex_trylock.
Call(t) ==
    /\ pc[t] = "idle" /\ Goto(t, "lr")
    /\ \E l \in Locks : target' = [target EXCEPT ![t] = l]
    /\ \E b \in BOOLEAN : try' = [try EXCEPT ![t] = b]
    /\ UNCHANGED <<resv, lock, count, reg>>

LoadReserved(h, t) ==
    /\ pc[t] = "lr" /\ Goto(t, "branch")
    /\ reg' = [reg EXCEPT ![t] = lock[target[t]]]
    /\ resv' = [resv EXCEPT ![h] = target[t]]
    /\ UNCHANGED <<lock, count, target, try>>

\* Where a thread goes on finding the lock taken, or losing its SC.
Refused(t) == IF try[t] THEN "idle" ELSE "lr"

\* bnez and li: a lock seen taken is not tried for.
Branch(t) ==
    /\ pc[t] = "branch"
    /\ Goto(t, IF reg[t] = 0 THEN "sc" ELSE Refused(t))
    /\ UNCHANGED <<resv, lock, count, reg, target, try>>

\* Fault variant: the store goes through whatever the reservation.
PairedAlways(h, t) == TRUE

\* Reservation_Valid and Reserved_Addr = Address.
Paired(h, t) == resv[h] = target[t]

StoreConditional(h, t) ==
    /\ pc[t] = "sc"
    /\ \/ Paired(h, t) /\ lock' = [lock EXCEPT ![target[t]] = 1] /\ Goto(t, "load")
       \/ ~Paired(h, t) /\ UNCHANGED lock /\ Goto(t, Refused(t))
    /\ resv' = [resv EXCEPT ![h] = None]
    /\ UNCHANGED <<count, reg, target, try>>

LoadCounter(t) ==
    /\ pc[t] = "load" /\ Goto(t, "store")
    /\ reg' = [reg EXCEPT ![t] = count[target[t]]]
    /\ UNCHANGED <<resv, lock, count, target, try>>

\* 32-bit addition.
Incremented(v) == (v + 1) % CountMod

\* An ordinary store: no hart's reservation is looked at.
StoreCounter(t) ==
    /\ pc[t] = "store" /\ Goto(t, "unlock")
    /\ count' = [count EXCEPT ![target[t]] = Incremented(reg[t])]
    /\ UNCHANGED <<resv, lock, reg, target, try>>

Unlock(t) ==
    /\ pc[t] = "unlock" /\ Goto(t, "idle")
    /\ lock' = [lock EXCEPT ![target[t]] = 0]
    /\ UNCHANGED <<resv, count, reg, target, try>>

Instruction(h, t) ==
    /\ \/ Call(t) \/ Branch(t) \/ LoadReserved(h, t) \/ StoreConditional(h, t)
       \/ LoadCounter(t) \/ StoreCounter(t) \/ Unlock(t)
    /\ UNCHANGED running

----------------------------------------------------------------------------
(* Traps: an interrupt when Run drives the hart. *)

Trap(h) ==
    /\ NumHarts = 1
    /\ running' = [running EXCEPT ![h] = None]
    /\ UNCHANGED <<resv, lock, count, thread>>

\* The handler looks at a lock and does not take it.
HandlerLoadReserved(h) ==
    /\ \E l \in Locks : resv' = [resv EXCEPT ![h] = l]
    /\ UNCHANGED <<running, lock, count, thread>>

\* Fault variant: Mret and Sret leave the reservation standing.
AfterReturnKept(h) == resv[h]

\* The reservation after a trap return.
AfterReturn(h) == None

\* The handler returns to a thread of this hart, or starts one.
Resume(h) ==
    /\ \E t \in Threads : Home[t] = h /\ running' = [running EXCEPT ![h] = t]
    /\ resv' = [resv EXCEPT ![h] = AfterReturn(h)]
    /\ UNCHANGED <<lock, count, thread>>

Step(h) ==
    /\ turn = h
    /\ \/ /\ running[h] # None
          /\ Instruction(h, running[h]) \/ Trap(h)
       \/ /\ running[h] = None
          /\ HandlerLoadReserved(h) \/ Resume(h)
    /\ Stepped

Next == \E h \in Harts : Step(h)

Spec == Init /\ [][Next]_vars

----------------------------------------------------------------------------
(* Properties *)

\* The lock works: no two threads are between lock and unlock of one mutex,
\* wherever traps and other threads fall between an LR and its SC.  This is
\* also what pthread-test.c says of it: "Mutex: protected counter incremented
\* by both harts".
MutualExclusion ==
    \A t, u \in Threads :
        t # u /\ target[t] = target[u] => ~(pc[t] \in Critical /\ pc[u] \in Critical)

\* The mutex word tells the truth: set exactly while some thread is inside.
LockFaithful ==
    \A l \in Locks :
        lock[l] = 1 <=> \E t \in Threads : pc[t] \in Critical /\ target[t] = l

\* No update is lost: a thread about to store the counter read its last value.
NoLostUpdate == \A t \in Threads : pc[t] = "store" => reg[t] = count[target[t]]
=============================================================================
