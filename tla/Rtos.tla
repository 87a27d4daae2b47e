-------------------------------- MODULE Rtos --------------------------------
(***************************************************************************)
(* The cooperative scheduler of programs/rtos.c.  rtos_run wakes sleepers  *)
(* by the low word of the cycle counter, which wraps, and takes the next   *)
(* ready task behind the one that ran last; a task keeps the hart until it *)
(* yields, sleeps or exits.  Saved registers and stacks are left out.      *)
(***************************************************************************)
EXTENDS Integers

CONSTANTS
    TaskSlots,    \* RTOS_MAX_TASKS
    Wrap,         \* modulus of rdcycle32, 2^32 in the code
    Bursts,       \* cycles from one iteration of rtos_run to the next: a task's turn
    Sleeps        \* ms * g_cycles_per_ms of the calls of task_sleep_ms, beyond Wrap too

HalfWrap == Wrap \div 2

\* A turn of half the range hides a deadline behind the sign.
ASSUME RtosAssumption ==
    /\ TaskSlots \in Nat \ {0} /\ Wrap \in Nat /\ Wrap = 2 * HalfWrap /\ HalfWrap > 0
    /\ Bursts \subseteq 1 .. HalfWrap - 1 /\ Sleeps \subseteq Nat

VARIABLES
    g_n_tasks,    \* g_n_tasks
    tstatus,      \* by task: state of its TCB, "NONE" from g_n_tasks up
    wake,         \* by task: wake_cycle
    g_cur,        \* g_cur: the running task; -1 in the scheduler
    g_last,       \* g_last
    cycle,        \* the counter
    returned,     \* rtos_run has returned
    watched,      \* history: one task, chosen at the start
    asked,        \* history: what its latest sleep asked for
    slept,        \* history: cycles since that call
    ranSince      \* history: tasks dispatched since it became ready

history == <<watched, asked, slept, ranSince>>
rtosVars == <<g_n_tasks, tstatus, wake, g_cur, g_last, cycle, returned, history>>

Tcbs == 0 .. TaskSlots - 1
Scheduler == -1

RtosTypeOK ==
    /\ g_n_tasks \in 0 .. TaskSlots
    /\ tstatus \in [Tcbs -> {"NONE", "READY", "SLEEPING", "DEAD"}]
    /\ \A t \in Tcbs : tstatus[t] = "NONE" <=> t >= g_n_tasks
    /\ wake \in [Tcbs -> 0 .. Wrap - 1]
    /\ g_cur \in Tcbs \cup {Scheduler} /\ g_last \in Tcbs \cup {-1}
    /\ cycle \in 0 .. Wrap - 1
    /\ returned \in BOOLEAN
    /\ watched \in Tcbs /\ asked \in Nat /\ slept \in Nat
    /\ ranSince \subseteq Tcbs

\* rtos_init and the first calls of rtos_task_create.
RtosInit ==
    /\ g_n_tasks \in 0 .. TaskSlots
    /\ tstatus = [t \in Tcbs |-> IF t < g_n_tasks THEN "READY" ELSE "NONE"]
    /\ wake = [t \in Tcbs |-> 0]
    /\ g_cur = Scheduler /\ g_last = -1
    /\ cycle \in 0 .. Wrap - 1
    /\ returned = FALSE
    /\ watched \in Tcbs
    /\ asked = 0 /\ slept = 0 /\ ranSince = {}

\* mcycle, whose low word rdcycle32 reads, goes on to the next iteration.  The
\* count for the watched task stops at a bound that no wake-up waits for.
TimePasses ==
    \E c \in Bursts :
        /\ cycle' = (cycle + c) % Wrap
        /\ slept' = IF tstatus[watched] = "SLEEPING" /\ slept < Wrap THEN slept + c ELSE slept

----------------------------------------------------------------------------
(* rtos_run *)

\* Fault variant: the two counter values are compared as they are.
ElapsedUnsigned(now, deadline) == now >= deadline

\* (int32_t)(now - wake_cycle) >= 0
Elapsed(now, deadline) == (now - deadline) % Wrap < HalfWrap

\* The states after the first loop of an iteration.
AfterWake ==
    [t \in Tcbs |-> IF tstatus[t] = "SLEEPING" /\ Elapsed(cycle, wake[t])
                     THEN "READY" ELSE tstatus[t]]

\* Fault variant: the search starts at the task that ran last.
BehindSame(i) == (g_last + i) % g_n_tasks

\* The i-th task the search looks at.
Behind(i) == (g_last + 1 + i) % g_n_tasks

\* The task the search stops at.
Chosen(t) ==
    \E i \in 0 .. g_n_tasks - 1 :
        /\ t = Behind(i) /\ AfterWake[t] = "READY"
        /\ \A j \in 0 .. i - 1 : AfterWake[Behind(j)] # "READY"

NoneReady == \A t \in Tcbs : AfterWake[t] # "READY"

Dispatch(t) ==
    /\ Chosen(t)
    /\ g_last' = t /\ g_cur' = t
    /\ ranSince' = IF t = watched THEN {}
                   ELSE IF AfterWake[watched] = "READY" THEN ranSince \cup {t} ELSE ranSince
    /\ slept' = IF t = watched THEN 0 ELSE slept
    /\ UNCHANGED <<returned, cycle>>

\* No task is left: rtos_run returns.  Otherwise the loop spins for the sleepers.
Spin ==
    /\ NoneReady
    /\ returned' = (\A t \in Tcbs : AfterWake[t] \in {"NONE", "DEAD"})
    /\ TimePasses
    /\ UNCHANGED <<g_last, g_cur, ranSince>>

\* One iteration of the loop.
Iterate ==
    /\ g_cur = Scheduler /\ ~returned
    /\ tstatus' = AfterWake
    /\ Spin \/ \E t \in Tcbs : Dispatch(t)
    /\ UNCHANGED <<g_n_tasks, wake, watched, asked>>

----------------------------------------------------------------------------
(* The running task.  Its turn takes a burst and ends with a call. *)

Running(t) == g_cur = t /\ t # Scheduler

\* A READY task that gives up the hart becomes one that waits for it.
task_yield ==
    /\ Running(g_cur) /\ g_cur' = Scheduler
    /\ TimePasses
    /\ UNCHANGED <<g_n_tasks, tstatus, wake, g_last, returned, watched, asked, ranSince>>

task_sleep_ms ==
    /\ Running(g_cur) /\ g_cur' = Scheduler
    /\ TimePasses
    /\ \E d \in Sleeps :
        /\ wake' = [wake EXCEPT ![g_cur] = (cycle' + d) % Wrap]
        /\ asked' = IF g_cur = watched THEN d ELSE asked
    /\ tstatus' = [tstatus EXCEPT ![g_cur] = "SLEEPING"]
    /\ UNCHANGED <<g_n_tasks, g_last, returned, watched, ranSince>>

task_exit ==
    /\ Running(g_cur) /\ g_cur' = Scheduler
    /\ tstatus' = [tstatus EXCEPT ![g_cur] = "DEAD"]
    /\ TimePasses
    /\ UNCHANGED <<g_n_tasks, wake, g_last, returned, watched, asked, ranSince>>

\* A running task creates one; beyond RTOS_MAX_TASKS the call changes nothing.
rtos_task_create ==
    /\ Running(g_cur) /\ g_n_tasks < TaskSlots
    /\ g_n_tasks' = g_n_tasks + 1
    /\ tstatus' = [tstatus EXCEPT ![g_n_tasks] = "READY"]
    /\ wake' = [wake EXCEPT ![g_n_tasks] = 0]
    /\ UNCHANGED <<g_cur, g_last, cycle, returned, history>>

\* The calls that give up the hart.
TurnEnds == task_yield \/ task_sleep_ms \/ task_exit

RtosNext == Iterate \/ TurnEnds \/ rtos_task_create

RtosSpec == RtosInit /\ [][RtosNext]_rtosVars

----------------------------------------------------------------------------
\* What a sleep of d comes to: the product and the deadline are 32 bits wide.
Due(d) == d % Wrap

\* An iteration of rtos_run wakes a sleeper exactly if it has slept what its call
\* comes to, on whichever side of a wrap of the counter the call, the deadline
\* and the look at the counter fall, or if it lacks more than half the counter's
\* range of it: the sign of the difference takes that for a deadline passed
\* (rtos_run, task_sleep_ms).  Sleeps of up to half the range never are early.
WakesExactly ==
    [][Iterate /\ tstatus[watched] = "SLEEPING" =>
        (tstatus'[watched] = "READY" <=>
            slept >= Due(asked) \/ slept + HalfWrap < Due(asked))]_rtosVars

\* While a task is ready and waits, no other task gets the hart twice, whatever
\* tasks sleep, wake, end or are created meanwhile (the round-robin search).
NotOvertaken ==
    [][\A t \in Tcbs : Iterate /\ g_cur' = t /\ t # watched
                        /\ tstatus'[watched] = "READY" => t \notin ranSince]_rtosVars

\* A sleeping task gets the hart again, as long as no task keeps it for ever:
\* under weak fairness of Iterate and of TurnEnds (rtos_run, task_sleep_ms).
SleeperRuns == (tstatus[watched] = "SLEEPING") ~> (g_cur = watched)

\* What rtos.h says of task_sleep_ms, "sleep for ~ms milliseconds then return":
\* no sleeper is woken before it has slept what it asked for.
SleepLasts ==
    [][Iterate /\ tstatus[watched] = "SLEEPING" /\ tstatus'[watched] = "READY" =>
        slept >= asked]_rtosVars
=============================================================================
