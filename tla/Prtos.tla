------------------------------- MODULE Prtos --------------------------------
(***************************************************************************)
(* The preemptive RTOS that guests run on the emulator's CLINT             *)
(* (programs/prtos.c, prtos_trap.S): the timer interrupt that schedules,   *)
(* and the blocking calls tasks make between interrupts.                   *)
(*                                                                         *)
(* There is one hart.  A section between irq_disable and irq_enable is one *)
(* action, and so is the interrupt handler; the interrupt may fall between *)
(* any two actions of a task.  The CLINT is seen only as pending: a task   *)
(* forces the interrupt by storing a past mtimecmp.  Time is abstract: a   *)
(* deadline elapses at some moment, a quantum ends once the task has made  *)
(* a step of its own (PRTOS_TICK_CYCLES is longer than any call here).     *)
(* Stack canaries and the calibration of milliseconds are left out.        *)
(***************************************************************************)
EXTENDS Integers, Sequences, FiniteSets

CONSTANTS
    NTasks,             \* g_n_tasks
    Messages,           \* what tasks send
    Workloads,          \* what a main may create: the priority of each task, the calls its
                        \* function makes, and the tasks whose function repeats for ever
    Depth               \* PRTOS_MQ_DEPTH

MaxTasks == 8            \* PRTOS_MAX_TASKS, the room in every waiter array
Tasks    == 0 .. NTasks - 1
Idle     == -1           \* g_cur in the idle loop
Nothing  == 0
Blocking == {"lock", "send", "recv"}
Services    == Blocking \cup {"unlock", "sleep", "yield"}

ASSUME PrtosAssumption ==
    /\ NTasks \in 1 .. MaxTasks
    /\ \A w \in Workloads :
          /\ w.prio \in [Tasks -> Nat]
          /\ w.program \in [Tasks -> Seq([call : Services, msg : Messages \cup {Nothing}])]
          /\ \A t \in Tasks : \A i \in 1 .. Len(w.program[t]) :
                w.program[t][i].call = "send" => w.program[t][i].msg \in Messages
          /\ w.loops \subseteq Tasks
    /\ Depth \in Nat \ {0}

VARIABLES
    work,               \* the workload main created
    cur,                \* g_cur: the task the hart is in, or Idle
    state,              \* g_tasks[t].state
    due,                \* g_tasks[t].wake_mtime has been reached
    allDone,            \* g_all_done
    inRun,              \* prtos_run has not returned
    pending,            \* mtimecmp is in the past: the next instruction is the handler's
    ran,                \* the running task has made a step in this quantum
    ip,                 \* the call t's function is at; past its last, it returns
    place,              \* where in that call t is, see below
    locked, owner,      \* the mutex
    buf, head, filled,  \* the message queue (tail is head + filled mod Depth)
    waiters,            \* who is blocked in each kind of call, in order
    last                \* the message t's latest prtos_mq_recv returned

\* place[t]: about to make its call; blocked and about to force the interrupt;
\* resumed and about to try again; about to force it without retrying; between
\* the stores of wake_mtime and of the SLEEPING state.
Places == {"call", "blocked", "retry", "force", "doze"}

taskVars  == <<state, due, ip, place>>
mutexVars == <<locked, owner>>
queueVars == <<buf, head, filled, last>>
prtosVars == <<work, cur, taskVars, allDone, inRun, pending, ran, mutexVars, queueVars, waiters>>

PrtosTypeOK ==
    /\ work \in Workloads
    /\ cur \in Tasks \cup {Idle}
    /\ state \in [Tasks -> {"dead", "ready", "sleeping", "blocked"}]
    /\ due \in [Tasks -> BOOLEAN]
    /\ allDone \in BOOLEAN /\ inRun \in BOOLEAN
    /\ pending \in BOOLEAN /\ ran \in BOOLEAN
    /\ ip \in [Tasks -> Nat \ {0}]
    /\ place \in [Tasks -> Places]
    /\ locked \in BOOLEAN
    /\ owner \in Tasks \cup {Idle}
    /\ buf \in [0 .. Depth - 1 -> Messages \cup {Nothing}]
    /\ head \in 0 .. Depth - 1
    /\ filled \in 0 .. Depth
    /\ last \in [Tasks -> Messages \cup {Nothing}]
    /\ waiters \in [Blocking -> Seq(Tasks)]
    /\ \A k \in Blocking : Len(waiters[k]) <= MaxTasks

\* prtos_run, after prtos_init, prtos_mutex_init and prtos_mq_init.
PrtosInit ==
    /\ work \in Workloads
    /\ cur = Idle
    /\ state = [t \in Tasks |-> "ready"]
    /\ due = [t \in Tasks |-> TRUE]
    /\ allDone = FALSE /\ inRun = TRUE
    /\ pending = FALSE /\ ran = FALSE
    /\ ip = [t \in Tasks |-> 1]
    /\ place = [t \in Tasks |-> "call"]
    /\ locked = FALSE /\ owner = Idle
    /\ buf = [i \in 0 .. Depth - 1 |-> Nothing] /\ head = 0 /\ filled = 0
    /\ waiters = [k \in Blocking |-> <<>>]
    /\ last = [t \in Tasks |-> Nothing]

----------------------------------------------------------------------------
(* The timer interrupt: prtos_timer_isr, entered and left by trap_entry. *)

\* Task states after the handler has woken the sleepers whose time has come.
Awoken == [t \in Tasks |-> IF state[t] = "sleeping" /\ due[t] THEN "ready" ELSE state[t]]

\* Tasks that have not exited: blocked and sleeping ones count.
Alive == {t \in Tasks : Awoken[t] # "dead"}

\* The ready tasks of the highest priority any ready task has.
Top == {t \in Tasks : /\ Awoken[t] = "ready"
                      /\ \A u \in Tasks : Awoken[u] = "ready" => work.prio[u] <= work.prio[t]}

\* Fault variant: the search always starts at task 0.
TurnFromZero(t) == t

\* How far t is from its turn: round robin starts after the current task.
Turn(t) == (t - (IF cur = Idle THEN NTasks - 1 ELSE cur) - 1) % NTasks

Isr ==
    /\ inRun
    /\ pending \/ ran \/ cur = Idle
    /\ state' = Awoken
    /\ allDone' = (allDone \/ Alive = {})
    /\ cur' = IF Top = {} THEN Idle
              ELSE CHOOSE t \in Top : \A u \in Top : Turn(t) <= Turn(u)
    /\ pending' = FALSE
    /\ ran' = FALSE
    /\ UNCHANGED <<work, due, ip, place, inRun, mutexVars, queueVars, waiters>>

\* The idle loop sees g_all_done, turns the timer off and returns.
RunReturns ==
    /\ inRun /\ cur = Idle /\ allDone
    /\ inRun' = FALSE
    /\ UNCHANGED <<work, cur, taskVars, allDone, pending, ran, mutexVars, queueVars, waiters>>

----------------------------------------------------------------------------
(* The running task. *)

Returned(t) == ip[t] > Len(work.program[t])
AtCall(t, name) == ~Returned(t) /\ work.program[t][ip[t]].call = name

\* t goes on after its call.
NextCall(t) == IF t \in work.loops /\ ip[t] = Len(work.program[t]) THEN 1 ELSE ip[t] + 1

\* The hart is in t, at one of places, and no interrupt comes first: Run checks
\* for one before every instruction.
In(t, places) ==
    /\ inRun
    /\ cur = t
    /\ ~pending
    /\ place[t] \in places
    /\ ran' = TRUE
    /\ UNCHANGED <<work, cur, inRun, allDone>>

Return(t) == ip' = [ip EXCEPT ![t] = NextCall(t)] /\ place' = [place EXCEPT ![t] = "call"]

\* Fault variant: the woken task takes its call as done.
ResumedPast(t) == NextCall(t)

\* Where a blocked task resumes: it loops and makes the same call again.
Resumed(t) == ip[t]

\* waiters[n_waiters++] = g_cur; TASK_BLOCKED; then the interrupt is forced.
Block(t, k) ==
    /\ waiters' = [waiters EXCEPT ![k] = Append(@, t)]
    /\ state' = [state EXCEPT ![t] = "blocked"]
    /\ ip' = [ip EXCEPT ![t] = Resumed(t)]
    /\ place' = [place EXCEPT ![t] = "blocked"]

\* Fault variants: the woken waiter left in the list; nobody woken unless the
\* queue had been empty.
WokenKept(k) == waiters[k]
FirstOfEmpty(k) == IF k = "recv" /\ filled > 0 THEN {} ELSE {1} \cap DOMAIN waiters[k]

\* The list of k once its first waiter has been taken off.
Remaining(k) == Tail(waiters[k])

\* The place of the waiter to wake: the first, if there is one.
ToWake(k) == {1} \cap DOMAIN waiters[k]

Wake(k) ==
    IF ToWake(k) = {} THEN UNCHANGED <<waiters, state>>
    ELSE /\ waiters' = [waiters EXCEPT ![k] = Remaining(k)]
         /\ state' = [state EXCEPT ![Head(waiters[k])] = "ready"]

\* prtos_mutex_lock
MutexLock(t) ==
    /\ In(t, {"call", "retry"}) /\ AtCall(t, "lock")
    /\ \/ /\ ~locked
          /\ locked' = TRUE
          /\ owner' = t
          /\ Return(t)
          /\ UNCHANGED <<state, waiters>>
       \/ /\ locked
          /\ Block(t, "lock")
          /\ UNCHANGED mutexVars
    /\ UNCHANGED <<due, pending, queueVars>>

\* prtos_mutex_unlock does not look at who the owner is.
MutexUnlock(t) ==
    /\ In(t, {"call"}) /\ AtCall(t, "unlock")
    /\ locked' = FALSE
    /\ owner' = Idle
    /\ Wake("lock")
    /\ Return(t)
    /\ UNCHANGED <<due, pending, queueVars>>

\* Fault variant: the tail counted from the start of the buffer.
Tail_SlotFromZero == filled % Depth

\* q->tail, which is head + count around the ring.
Tail_Slot == (head + filled) % Depth

\* prtos_mq_send
Send(t) ==
    /\ In(t, {"call", "retry"}) /\ AtCall(t, "send")
    /\ \/ /\ filled < Depth
          /\ buf' = [buf EXCEPT ![Tail_Slot] = work.program[t][ip[t]].msg]
          /\ filled' = filled + 1
          /\ Wake("recv")
          /\ Return(t)
          /\ UNCHANGED head
       \/ /\ filled = Depth
          /\ Block(t, "send")
          /\ UNCHANGED <<buf, head, filled>>
    /\ UNCHANGED <<due, pending, mutexVars, last>>

\* q->head once its message has been taken.
Next_Head == (head + 1) % Depth

\* prtos_mq_recv
Receive(t) ==
    /\ In(t, {"call", "retry"}) /\ AtCall(t, "recv")
    /\ \/ /\ filled > 0
          /\ last' = [last EXCEPT ![t] = buf[head]]
          /\ head' = Next_Head
          /\ filled' = filled - 1
          /\ Wake("send")
          /\ Return(t)
       \/ /\ filled = 0
          /\ Block(t, "recv")
          /\ UNCHANGED <<head, filled, last>>
    /\ UNCHANGED <<due, pending, mutexVars, buf>>

\* task_sleep_until with a deadline already past; task_sleep_ms and
\* task_sleep_until store the deadline, then the state.
Sleep(t) ==
    /\ In(t, {"call"}) /\ AtCall(t, "sleep")
    /\ \/ Return(t) /\ UNCHANGED due
       \/ place' = [place EXCEPT ![t] = "doze"] /\ due' = [due EXCEPT ![t] = FALSE] /\ UNCHANGED ip
    /\ UNCHANGED <<state, pending, mutexVars, queueVars, waiters>>

Doze(t) ==
    /\ In(t, {"doze"})
    /\ state' = [state EXCEPT ![t] = "sleeping"]
    /\ place' = [place EXCEPT ![t] = "force"]
    /\ ip' = [ip EXCEPT ![t] = NextCall(t)]
    /\ UNCHANGED <<due, pending, mutexVars, queueVars, waiters>>

\* task_yield
Yield(t) ==
    /\ In(t, {"call"}) /\ AtCall(t, "yield")
    /\ place' = [place EXCEPT ![t] = "force"]
    /\ ip' = [ip EXCEPT ![t] = NextCall(t)]
    /\ UNCHANGED <<state, due, pending, mutexVars, queueVars, waiters>>

\* task_exit, when the task's function returns.
Exit(t) ==
    /\ In(t, {"call"}) /\ Returned(t)
    /\ state' = [state EXCEPT ![t] = "dead"]
    /\ place' = [place EXCEPT ![t] = "force"]
    /\ UNCHANGED <<ip, due, pending, mutexVars, queueVars, waiters>>

\* clint_write_mtimecmp(now) and WFI.
ForceIsr(t) ==
    /\ In(t, {"blocked", "force"})
    /\ pending' = TRUE
    /\ place' = [place EXCEPT ![t] = IF @ = "blocked" THEN "retry" ELSE "call"]
    /\ UNCHANGED <<state, due, ip, mutexVars, queueVars, waiters>>

\* mtime passes a sleeper's deadline.
Elapse(t) ==
    /\ ~due[t]
    /\ due' = [due EXCEPT ![t] = TRUE]
    /\ UNCHANGED <<work, cur, state, ip, place, allDone, inRun, pending, ran, mutexVars,
                   queueVars, waiters>>

TaskStep ==
    \E t \in Tasks :
        \/ MutexLock(t) \/ MutexUnlock(t) \/ Send(t) \/ Receive(t)
        \/ Sleep(t) \/ Doze(t) \/ Yield(t) \/ Exit(t) \/ ForceIsr(t)

PrtosNext == Isr \/ RunReturns \/ TaskStep \/ \E t \in Tasks : Elapse(t)

PrtosSpec == PrtosInit /\ [][PrtosNext]_prtosVars

\* The hart keeps executing, mtime keeps counting and so the timer fires again
\* and again: the run loop ticks the CLINT at every instruction.
PrtosFairSpec ==
    /\ PrtosSpec
    /\ WF_prtosVars(TaskStep)
    /\ WF_prtosVars(Isr)
    /\ WF_prtosVars(RunReturns)
    /\ \A t \in Tasks : WF_prtosVars(Elapse(t))

----------------------------------------------------------------------------
(* Properties *)

\* How many of the calls of p before its n-th are calls of name.
Calls(p, n, name) == Cardinality({i \in 1 .. Len(p) : i < n /\ p[i].call = name})

\* t has returned from a lock its program has not undone.
Inside(t) ==
    Calls(work.program[t], ip[t], "lock") > Calls(work.program[t], ip[t], "unlock")

\* What the mutex asks of a task's function, since it checks nothing: it takes
\* it only when it does not have it, gives it back only when it has, and does
\* not have it when it starts over.
Disciplined ==
    \A w \in Workloads, t \in Tasks :
        LET p == w.program[t] IN
          /\ \A i \in 1 .. Len(p) :
                /\ p[i].call = "lock"   => Calls(p, i, "lock") = Calls(p, i, "unlock")
                /\ p[i].call = "unlock" => Calls(p, i, "lock") > Calls(p, i, "unlock")
          /\ t \in w.loops => Calls(p, Len(p) + 1, "lock") = Calls(p, Len(p) + 1, "unlock")

\* A task is inside a critical section exactly when it owns the mutex: two
\* tasks never are, wherever the interrupt falls and whoever takes the mutex
\* between a waiter's wake-up and its retry.
MutexExcludes == \A t \in Tasks : Inside(t) <=> locked /\ owner = t

\* Tasks woken from call k that have not tried it again yet.
Woken(k) == {t \in Tasks : /\ state[t] = "ready" /\ place[t] \in {"blocked", "retry"}
                           /\ AtCall(t, k)}

\* No wake-up is lost: while tasks wait, what they wait for is taken, or
\* enough woken tasks are on their way to take it.
NoLostWakeup ==
    /\ waiters["lock"] # <<>> => locked \/ Woken("lock") # {}
    /\ waiters["recv"] # <<>> => filled <= Cardinality(Woken("recv"))
    /\ waiters["send"] # <<>> => Depth - filled <= Cardinality(Woken("send"))

\* The queue is a FIFO: every message sent is received once, in order.
Queue == INSTANCE Fifo WITH
    chan <- [i \in 1 .. filled |-> buf[(head + i - 1) % Depth]]
QueueIsFifo == Queue!Spec

\* A program whose calls balance runs to its end: every wake-up, preemption and
\* deadline considered, no task is stuck and prtos_run returns.
RunEnds == work.loops = {} => <>~inRun

\* "Same-priority tasks share the CPU round-robin" (prtos.h): with one priority
\* in use, a task that stays ready is scheduled again and again if another is.
\* Were there a task of higher priority it could starve one of two equals:
\* the handler starts its search after the task it interrupts, whatever that
\* one's priority is.
EqualsShare ==
    (\A t, u \in Tasks : work.prio[t] = work.prio[u]) =>
        \A t, u \in Tasks :
            <>[](state[t] = "ready") /\ []<>(cur = u) => []<>(cur = t)
=============================================================================
