------------------------------ MODULE Threads -------------------------------
(***************************************************************************)
(* pthread_create and pthread_join of programs/pthread.c with the loop     *)
(* that crt0-pthread.S runs on every secondary hart.  Hart 0 fills an      *)
(* entry of the launch table field by field; the hart of that slot polls   *)
(* the entry, takes it, clears it, runs the function and stores the        *)
(* result.  Every load and every store another hart can see is a step.     *)
(* The main thread calls as it likes, but joins each handle once.          *)
(***************************************************************************)
EXTENDS Naturals

CONSTANTS
    Slots,        \* 1 .. MAX_THREADS - 1, the slots of worker threads
    Workers,      \* the secondary harts there are: --harts n gives 1 .. n - 1
    Jobs,        \* bound: the calls of pthread_create
    NoCall        \* NULL in a field of the launch table

ASSUME ThreadsAssumption ==
    /\ Slots \subseteq Nat /\ Workers \subseteq Slots
    /\ NoCall \notin Jobs \cup Slots

Answer(fn, arg) == <<fn, arg>>
NoAnswer == Answer(NoCall, NoCall)
Answers == (Jobs \cup {NoCall}) \X (Jobs \cup {NoCall})

VARIABLES
    tstate,       \* by slot: TSTATE_* of its TCB
    retval,       \* by slot: retval of its TCB
    launch,       \* by slot: the entry of _pthread_launch
    mpc,          \* where the main thread is
    mcall,        \* the thread it creates or joins
    handle,       \* by call: the slot pthread_create returned, NoCall if none
    hpc,          \* by worker hart: where it is in its loop
    hreg,         \* by worker hart: the fields it has loaded
    phase,        \* history, by call: how far that thread has come
    got           \* history, by call: what its join returned

shared == <<tstate, retval, launch>>
main == <<mpc, mcall, handle>>
hart == <<hpc, hreg>>
threadVars == <<shared, main, hart, phase, got>>

\* An entry holds the call that gave fn and arg, and the slot sp and tcb point to.
Fields == {"fn", "arg", "sp", "tcb"}
Entries == [Fields -> Jobs \cup Slots \cup {NoCall}]
EmptyEntry == [f \in Fields |-> NoCall]

MainPlaces == {"idle", "tcb", "sp", "arg", "fn", "spin", "result", "reset"}
HartPlaces == {"poll", "sp", "arg", "tcb", "clear", "call", "retval", "done"}

ThreadsTypeOK ==
    /\ tstate \in [Slots -> {"IDLE", "RUNNING", "DONE"}]
    /\ retval \in [Slots -> Answers]
    /\ launch \in [Slots -> Entries]
    /\ mpc \in MainPlaces
    /\ mcall \in Jobs \cup {NoCall}
    /\ handle \in [Jobs -> Slots \cup {NoCall}]
    /\ hpc \in [Workers -> HartPlaces]
    /\ hreg \in [Workers -> Entries]
    /\ phase \in [Jobs -> {"none", "live", "done", "joined"}]
    /\ got \in [Jobs -> Answers]

\* The BSS is zero.
ThreadsInit ==
    /\ tstate = [s \in Slots |-> "IDLE"]
    /\ retval = [s \in Slots |-> NoAnswer]
    /\ launch = [s \in Slots |-> EmptyEntry]
    /\ mpc = "idle" /\ mcall = NoCall
    /\ handle = [c \in Jobs |-> NoCall]
    /\ hpc = [h \in Workers |-> "poll"]
    /\ hreg = [h \in Workers |-> EmptyEntry]
    /\ phase = [c \in Jobs |-> "none"]
    /\ got = [c \in Jobs |-> NoAnswer]

----------------------------------------------------------------------------
(* Hart 0 *)

\* The first slot that is idle.
FirstIdle(s) ==
    /\ tstate[s] = "IDLE"
    /\ \A t \in Slots : t < s => tstate[t] # "IDLE"

\* pthread_create finds a slot and fills its TCB; a call that finds none
\* returns -1 and changes nothing.  Only hart 0 makes a slot idle or running.
Create(c) ==
    /\ mpc = "idle" /\ phase[c] = "none"
    /\ \E s \in Slots :
        /\ FirstIdle(s)
        /\ tstate' = [tstate EXCEPT ![s] = "RUNNING"]
        /\ retval' = [retval EXCEPT ![s] = NoAnswer]
        /\ handle' = [handle EXCEPT ![c] = s]
    /\ mpc' = "tcb" /\ mcall' = c
    /\ phase' = [phase EXCEPT ![c] = "live"]
    /\ UNCHANGED <<launch, hart, got>>

\* Fault variant: fn is stored when the argument is not there yet.
StoredNextEager(f) ==
    CASE f = "tcb" -> "sp" [] f = "sp" -> "fn" [] f = "fn" -> "arg" [] f = "arg" -> "idle"

\* The order of the stores: fn last.
StoredNext(f) ==
    CASE f = "tcb" -> "sp" [] f = "sp" -> "arg" [] f = "arg" -> "fn" [] f = "fn" -> "idle"

\* Stores one field of the launch entry of the slot.
StoreField ==
    /\ mpc \in Fields
    /\ LET s == handle[mcall] IN
         launch' = [launch EXCEPT ![s][mpc] = IF mpc \in {"fn", "arg"} THEN mcall ELSE s]
    /\ mpc' = StoredNext(mpc)
    /\ UNCHANGED <<tstate, retval, mcall, handle, hart, phase, got>>

\* Enters pthread_join.
Join(c) ==
    /\ mpc = "idle" /\ handle[c] # NoCall /\ phase[c] # "joined"
    /\ mpc' = "spin" /\ mcall' = c
    /\ UNCHANGED <<shared, handle, hart, phase, got>>

\* Fault variant: waits for a slot that only a join makes idle.
FinishedIdle(s) == tstate[s] = "IDLE"

\* What the spin waits for.
Finished(s) == tstate[s] = "DONE"

SpinEnds ==
    /\ mpc = "spin" /\ Finished(handle[mcall])
    /\ mpc' = "result"
    /\ UNCHANGED <<shared, mcall, handle, hart, phase, got>>

\* *retval = tcb->retval
LoadResult ==
    /\ mpc = "result"
    /\ mpc' = "reset"
    /\ got' = [got EXCEPT ![mcall] = retval[handle[mcall]]]
    /\ phase' = [phase EXCEPT ![mcall] = "joined"]
    /\ UNCHANGED <<shared, mcall, handle, hart>>

\* The slot can be used again.
ResetSlot ==
    /\ mpc = "reset"
    /\ mpc' = "idle"
    /\ tstate' = [tstate EXCEPT ![handle[mcall]] = "IDLE"]
    /\ UNCHANGED <<retval, launch, mcall, handle, hart, phase, got>>

----------------------------------------------------------------------------
(* A secondary hart *)

HartAt(h, place, next) == hpc[h] = place /\ hpc' = [hpc EXCEPT ![h] = next]

\* lw t0, 0(t2); beqz: spins while fn is NULL.
Poll(h) ==
    /\ HartAt(h, "poll", "sp")
    /\ launch[h]["fn"] # NoCall
    /\ hreg' = [hreg EXCEPT ![h]["fn"] = launch[h]["fn"]]
    /\ UNCHANGED <<shared, main, phase, got>>

LoadField(h) ==
    /\ \/ HartAt(h, "sp", "arg") \/ HartAt(h, "arg", "tcb") \/ HartAt(h, "tcb", "clear")
    /\ hreg' = [hreg EXCEPT ![h][hpc[h]] = launch[h][hpc[h]]]
    /\ UNCHANGED <<shared, main, phase, got>>

\* sw zero, 0(t2) before the call.
ClearEntry(h) ==
    /\ HartAt(h, "clear", "call")
    /\ launch' = [launch EXCEPT ![h]["fn"] = NoCall]
    /\ UNCHANGED <<tstate, retval, main, hreg, phase, got>>

\* _pthread_entry_wrapper runs fn (arg).
RunFunction(h) ==
    /\ HartAt(h, "call", "retval")
    /\ phase' = [phase EXCEPT ![hreg[h]["fn"]] = "done"]
    /\ UNCHANGED <<shared, main, hreg, got>>

StoreResult(h) ==
    /\ HartAt(h, "retval", "done")
    /\ retval' = [retval EXCEPT ![hreg[h]["tcb"]] = Answer(hreg[h]["fn"], hreg[h]["arg"])]
    /\ UNCHANGED <<tstate, launch, main, hreg, phase, got>>

\* tcb->state = TSTATE_DONE; the hart goes back to polling.
StoreDone(h) ==
    /\ HartAt(h, "done", "poll")
    /\ tstate' = [tstate EXCEPT ![hreg[h]["tcb"]] = "DONE"]
    /\ UNCHANGED <<retval, launch, main, hreg, phase, got>>

----------------------------------------------------------------------------
MainThread ==
    \/ \E c \in Jobs : Create(c) \/ Join(c)
    \/ StoreField \/ SpinEnds \/ LoadResult \/ ResetSlot

\* What the main thread does once it is in a call.
InCall == StoreField \/ SpinEnds \/ LoadResult \/ ResetSlot

Worker(h) ==
    \/ Poll(h) \/ LoadField(h) \/ ClearEntry(h)
    \/ RunFunction(h) \/ StoreResult(h) \/ StoreDone(h)

ThreadsNext == MainThread \/ \E h \in Workers : Worker(h)

ThreadsSpec == ThreadsInit /\ [][ThreadsNext]_threadVars

----------------------------------------------------------------------------
Pool == INSTANCE ForkJoin

\* The library is a fork-join: every created function is run once, with its
\* own argument, and its join returns what it returned, however the stores to
\* the launch table and the polling of the harts interleave and however soon
\* a slot is used again (pthread_create, pthread_join, crt0-pthread.S).
ThreadsForkJoin == Pool!Spec

\* A join ends if the slot of its thread has a hart (pthread.c takes the first
\* idle slot and never asks how many harts run: without one it spins for ever).
JoinEnds ==
    \A c \in Jobs :
        (mpc = "spin" /\ mcall = c /\ handle[c] \in Workers) ~> (phase[c] = "joined")
=============================================================================
