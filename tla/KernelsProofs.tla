--------------------------- MODULE KernelsProofs ----------------------------
(***************************************************************************)
(* What the guest's schedulers, its locks and its counter readers promise, *)
(* for every value of the constants.                                       *)
(*                                                                         *)
(* The preemptive kernel (Prtos): its mutex excludes, no wake-up is lost,  *)
(* its waiter arrays do not overflow, its message queue is a FIFO.  None   *)
(* of this is inductive alone.  What carries it: the task the hart is in   *)
(* is ready, or on its way to the handler (CurrentReady), so a woken       *)
(* waiter cannot be in a second list; and whoever is in a list sleeps in   *)
(* front of the call that put it there (WaitersParked).                    *)
(*                                                                         *)
(* Threads on secondary harts (Threads) are a fork-join: PoolInv says at   *)
(* which stage of its slot every call is, and that no slot has two calls.  *)
(*                                                                         *)
(* The cooperative scheduler (Rtos) wakes exactly in time, by the distance *)
(* of two counts on a ring (SleepCounted), and is a round robin, because   *)
(* the search comes nearer to a waiting task each time (TurnsOrdered).     *)
(*                                                                         *)
(* On one hart the spinlock (LrSc) is safe for any number of threads and   *)
(* locks.  MutualExclusion is not inductive: what carries it is that a     *)
(* reservation a running thread still holds at its branch or its SC speaks *)
(* of the lock as it is now (Fresh), which holds because everything        *)
(* between its LR and its SC was its own, or went through a trap return.   *)
(*                                                                         *)
(* read_cycle (Counters) is exact for halves of any width: the high half   *)
(* loaded twice with the same value has not moved in between, since it     *)
(* would have to come all the way round.  The invariant counts the         *)
(* carries: the high half is the one first loaded, that many steps on.     *)
(* read_mtime needs a second one, about the half it has loaded: with no    *)
(* carry since, the counter still has that high half, or the counter's     *)
(* high half and that low half are a value it had.                         *)
(***************************************************************************)
EXTENDS Prtos, Rtos, Threads, LrSc, Counters, Facts

\* The task in the hart may run, unless it is about to force the handler.
CurrentReady ==
    cur # Idle /\ ~pending => state[cur] = "ready" \/ place[cur] \in {"blocked", "force"}

\* Whoever waits is blocked in the call it waits for.
WaitersParked ==
    \A k \in Blocking : \A i \in 1 .. Len(waiters[k]) :
        LET t == waiters[k][i] IN
          state[t] = "blocked" /\ place[t] \in {"blocked", "retry"} /\ AtCall(t, k)

\* Nobody waits twice.
WaitersOnce ==
    \A k \in Blocking : \A i, j \in 1 .. Len(waiters[k]) :
        waiters[k][i] = waiters[k][j] => i = j

KernelInv == PrtosTypeOK /\ CurrentReady /\ WaitersParked /\ WaitersOnce

\* Every task has taken the mutex as often as it has given it back, and the
\* owner once more.
LocksCounted ==
    \A t \in Tasks :
        Calls(work.program[t], ip[t], "lock")
            = Calls(work.program[t], ip[t], "unlock") + (IF locked /\ owner = t THEN 1 ELSE 0)

----------------------------------------------------------------------------
(* Workloads, the scheduler's choice, the waiter arrays. *)

LEMMA WorkType ==
    ASSUME PrtosTypeOK, NEW t \in Tasks
    PROVE  /\ work.program[t] \in Seq([call : Services, msg : Messages \cup {Nothing}])
           /\ Len(work.program[t]) \in Nat
           /\ ip[t] \in Nat \ {0}
           /\ ip[t] <= Len(work.program[t]) =>
                /\ ip[t] \in 1 .. Len(work.program[t])
                /\ work.program[t][ip[t]] \in [call : Services, msg : Messages \cup {Nothing}]
                /\ AtCall(t, "send") => work.program[t][ip[t]].msg \in Messages
<1> DEFINE OneCall == [call : Services, msg : Messages \cup {Nothing}]
<1>1. work \in Workloads /\ ip[t] \in Nat \ {0}
  BY DEF PrtosTypeOK
<1>2. work.program[t] \in Seq(OneCall)
  BY <1>1, PrtosAssumption
<1>3. Len(work.program[t]) \in Nat
  BY <1>2
<1>4. \A i \in 1 .. Len(work.program[t]) :
        work.program[t][i].call = "send" => work.program[t][i].msg \in Messages
  BY <1>1, PrtosAssumption
<1>5. ASSUME ip[t] <= Len(work.program[t])
      PROVE  ip[t] \in 1 .. Len(work.program[t]) /\ work.program[t][ip[t]] \in OneCall
  <2>1. ip[t] \in 1 .. Len(work.program[t])
    BY <1>1, <1>3, <1>5
  <2> HIDE DEF OneCall
  <2>2. QED
    BY <2>1, <1>2
<1>6. QED
  BY <1>1, <1>2, <1>3, <1>4, <1>5 DEF AtCall, Returned

LEMMA NextCallType ==
    ASSUME PrtosTypeOK, NEW t \in Tasks
    PROVE  NextCall(t) \in Nat \ {0}
  BY WorkType DEF NextCall

\* Where a round robin goes next: the search ends, at a task that is ready.
LEMMA NextTask ==
    ASSUME PrtosTypeOK, Top # {}
    PROVE  (CHOOSE t \in Top : \A u \in Top : Turn(t) <= Turn(u)) \in Top
<1> DEFINE A == {Turn(t) : t \in Top}
<1>1. NTasks \in Nat \ {0} /\ Top \subseteq Tasks
  BY PrtosAssumption DEF Top
<1>2. \A t \in Top : Turn(t) \in 0 .. NTasks - 1
  <2> SUFFICES ASSUME NEW t \in Top
               PROVE  Turn(t) \in 0 .. NTasks - 1
    OBVIOUS
  <2>1. t - (IF cur = Idle THEN NTasks - 1 ELSE cur) - 1 \in Int
    BY <1>1 DEF PrtosTypeOK, Tasks, Idle
  <2>2. QED
    BY <1>1, <2>1, ModRange DEF Turn
<1>3. A \in SUBSET Nat /\ A # {}
  BY <1>2
<1>4. \E m \in A : \A k \in A : m <= k
  <2> HIDE DEF A
  <2>1. QED
    BY <1>3, LeastNumber
<1>5. \E t \in Top : \A u \in Top : Turn(t) <= Turn(u)
  BY <1>4
<1>6. QED
  BY <1>5

\* A waiter array has room for every task once.
LEMMA RoomForAll ==
    ASSUME NEW s \in Seq(Tasks), \A i, j \in 1 .. Len(s) : s[i] = s[j] => i = j
    PROVE  Len(s) <= MaxTasks
<1>1. NTasks \in 1 .. MaxTasks /\ MaxTasks = 8
  BY PrtosAssumption DEF MaxTasks
<1>2. IsFiniteSet(Tasks) /\ Cardinality(Tasks) = NTasks
  BY <1>1, FS_Interval DEF Tasks
<1>3. s \in Injection(1 .. Len(s), Tasks) /\ Len(s) \in Nat
  BY DEF Injection, IsInjective
<1>4. Cardinality(1 .. Len(s)) <= NTasks
  BY <1>2, <1>3, FS_Injection
<1>5. Cardinality(1 .. Len(s)) = Len(s)
  BY <1>3, FS_Interval, SMTT(30)
<1>6. QED
  BY <1>1, <1>3, <1>4, <1>5

----------------------------------------------------------------------------
(* What the pieces of a call do to the tasks and the waiter arrays. *)

\* The types of what blocking and waking change.
TasksTypeOK ==
    /\ state \in [Tasks -> {"dead", "ready", "sleeping", "blocked"}]
    /\ ip \in [Tasks -> Nat \ {0}]
    /\ place \in [Tasks -> Places]
    /\ waiters \in [Blocking -> Seq(Tasks)]
    /\ \A k \in Blocking : Len(waiters[k]) <= MaxTasks

TasksInv == TasksTypeOK /\ CurrentReady /\ WaitersParked /\ WaitersOnce

\* A ready task waits nowhere.
LEMMA ReadyWaitsNowhere ==
    ASSUME KernelInv, NEW t \in Tasks, state[t] = "ready",
           NEW k \in Blocking, NEW i \in 1 .. Len(waiters[k])
    PROVE  waiters[k][i] # t
  BY DEF KernelInv, WaitersParked

\* A task that calls is ready.
LEMMA CallerReady ==
    ASSUME KernelInv, NEW t \in Tasks, NEW p \in SUBSET {"call", "retry", "doze"}, In(t, p)
    PROVE  state[t] = "ready" /\ cur = t /\ cur' = cur /\ work' = work /\ ~pending
<1>1. cur = t /\ t # Idle /\ place[t] \notin {"blocked", "force"}
  BY DEF In, Idle, Tasks
<1>2. QED
  BY <1>1 DEF In, KernelInv, CurrentReady

\* A ready task appends itself to one array.
LEMMA BlockKeeps ==
    ASSUME KernelInv, NEW t \in Tasks, NEW k \in Blocking, state[t] = "ready", AtCall(t, k),
           Block(t, k), cur = t, UNCHANGED <<work, cur, pending>>
    PROVE  TasksInv'
<1>1. /\ state' = [state EXCEPT ![t] = "blocked"]
      /\ place' = [place EXCEPT ![t] = "blocked"]
      /\ waiters' = [waiters EXCEPT ![k] = Append(waiters[k], t)]
  BY DEF Block
<1>2. ip' = ip
  BY DEF Block, Resumed, KernelInv, PrtosTypeOK
<1>3. ASSUME NEW u, NEW c PROVE AtCall(u, c)' <=> AtCall(u, c)
  BY <1>2 DEF AtCall, Returned
<1>4. waiters' \in [Blocking -> Seq(Tasks)]
  BY <1>1 DEF KernelInv, PrtosTypeOK
<1>5. /\ \A c \in Blocking \ {k} : waiters'[c] = waiters[c]
      /\ Len(waiters[k]) \in Nat /\ Len(waiters'[k]) = Len(waiters[k]) + 1
      /\ \A i \in 1 .. Len(waiters[k]) : waiters'[k][i] = waiters[k][i]
      /\ waiters'[k][Len(waiters[k]) + 1] = t
  BY <1>1 DEF KernelInv, PrtosTypeOK
<1>6. \A c \in Blocking : \A i \in 1 .. Len(waiters'[c]) :
        (c = k /\ i = Len(waiters[k]) + 1) \/ (i \in 1 .. Len(waiters[c]) /\ waiters'[c][i] = waiters[c][i])
  BY <1>5
<1>7. WaitersParked'
  <2> SUFFICES ASSUME NEW c \in Blocking, NEW i \in 1 .. Len(waiters'[c]), NEW u, u = waiters'[c][i]
               PROVE  state'[u] = "blocked" /\ place'[u] \in {"blocked", "retry"} /\ AtCall(u, c)'
    BY DEF WaitersParked, AtCall, Returned
  <2>1. CASE c = k /\ i = Len(waiters[k]) + 1
    BY <2>1, <1>1, <1>3, <1>5 DEF KernelInv, PrtosTypeOK
  <2>2. CASE i \in 1 .. Len(waiters[c]) /\ waiters'[c][i] = waiters[c][i]
    <3>1. waiters[c][i] \in Tasks /\ waiters[c][i] # t
      BY <2>2, ReadyWaitsNowhere DEF KernelInv, PrtosTypeOK
    <3>2. QED
      BY <2>2, <3>1, <1>1, <1>3 DEF KernelInv, PrtosTypeOK, WaitersParked
  <2>3. QED
    BY <2>1, <2>2, <1>6
<1>8. WaitersOnce'
  <2> SUFFICES ASSUME NEW c \in Blocking, NEW i \in 1 .. Len(waiters'[c]),
                      NEW j \in 1 .. Len(waiters'[c]), waiters'[c][i] = waiters'[c][j]
               PROVE  i = j
    BY DEF WaitersOnce
  <2>1. CASE c # k
    BY <2>1, <1>5 DEF KernelInv, WaitersOnce
  <2>2. CASE c = k
    BY <2>2, <1>5, <1>6, ReadyWaitsNowhere, SMTT(30) DEF KernelInv, WaitersOnce
  <2>3. QED
    BY <2>1, <2>2
<1>9. \A c \in Blocking : Len(waiters'[c]) <= MaxTasks
  BY <1>4, <1>8, RoomForAll DEF WaitersOnce
<1>10. CurrentReady'
  BY <1>1 DEF CurrentReady, KernelInv, PrtosTypeOK
<1>11. QED
  BY <1>1, <1>2, <1>4, <1>7, <1>8, <1>9, <1>10
     DEF TasksInv, TasksTypeOK, KernelInv, PrtosTypeOK, Places

\* A ready task that is in no array goes on with its program.
LEMMA AsideKeeps ==
    ASSUME KernelInv, NEW t \in Tasks, state[t] = "ready" \/ place[t] = "force",
           NEW s \in {"dead", "ready", "sleeping", "blocked"}, NEW n \in Nat \ {0}, NEW p \in Places,
           state' = [state EXCEPT ![t] = s], ip' = [ip EXCEPT ![t] = n],
           place' = [place EXCEPT ![t] = p],
           cur = t /\ ~pending' => s = "ready" \/ p \in {"blocked", "force"},
           cur = t, UNCHANGED <<work, cur, waiters>>
    PROVE  TasksInv'
<1>1. \A c \in Blocking : \A i \in 1 .. Len(waiters[c]) :
        waiters[c][i] \in Tasks /\ waiters[c][i] # t
  <2> SUFFICES ASSUME NEW c \in Blocking, NEW i \in 1 .. Len(waiters[c])
               PROVE  waiters[c][i] \in Tasks /\ waiters[c][i] # t
    OBVIOUS
  <2>1. waiters[c][i] \in Tasks
    BY DEF KernelInv, PrtosTypeOK
  <2>2. QED
    BY <2>1 DEF KernelInv, WaitersParked
<1>2. WaitersParked'
  <2> SUFFICES ASSUME NEW c \in Blocking, NEW i \in 1 .. Len(waiters[c]), NEW u, u = waiters[c][i]
               PROVE  state'[u] = "blocked" /\ place'[u] \in {"blocked", "retry"} /\ AtCall(u, c)'
    BY SMTT(30) DEF WaitersParked, AtCall, Returned
  <2>1. u \in Tasks /\ u # t
    BY <1>1
  <2>2. state[u] = "blocked" /\ place[u] \in {"blocked", "retry"} /\ AtCall(u, c)
    BY DEF KernelInv, WaitersParked
  <2>3. state'[u] = state[u] /\ place'[u] = place[u] /\ ip'[u] = ip[u] /\ work' = work
    BY <2>1 DEF KernelInv, PrtosTypeOK
  <2>4. AtCall(u, c)'
    BY <2>2, <2>3 DEF AtCall, Returned
  <2>5. QED
    BY <2>2, <2>3, <2>4
<1>3. WaitersOnce'
  BY DEF KernelInv, WaitersOnce
<1>4. CurrentReady'
  BY DEF CurrentReady, KernelInv, PrtosTypeOK
<1>5. TasksTypeOK'
  BY DEF TasksTypeOK, KernelInv, PrtosTypeOK
<1>6. QED
  BY <1>2, <1>3, <1>4, <1>5 DEF TasksInv

\* A ready task returns from a call after waking the first of an array.
LEMMA WakeKeeps ==
    ASSUME KernelInv, NEW t \in Tasks, NEW k \in Blocking, state[t] = "ready",
           Wake(k), Return(t), cur = t, UNCHANGED <<work, cur, pending>>
    PROVE  TasksInv'
<1>1. Len(waiters[k]) \in Nat /\ waiters[k] \in Seq(Tasks)
  BY DEF KernelInv, PrtosTypeOK
<1>2. /\ ip' = [ip EXCEPT ![t] = NextCall(t)] /\ NextCall(t) \in Nat \ {0}
      /\ place' = [place EXCEPT ![t] = "call"] /\ "call" \in Places
  BY NextCallType DEF Return, KernelInv, Places
<1>3. CASE ToWake(k) = {}
  <2>1. UNCHANGED <<waiters, state>>
    BY <1>3 DEF Wake
  <2>2. state' = [state EXCEPT ![t] = "ready"]
    BY <2>1 DEF KernelInv, PrtosTypeOK
  <2>3. QED
    BY <1>2, <2>1, <2>2, AsideKeeps
<1>4. CASE ToWake(k) # {}
  <2>1. /\ waiters' = [waiters EXCEPT ![k] = Tail(waiters[k])]
        /\ state' = [state EXCEPT ![Head(waiters[k])] = "ready"]
    BY <1>4 DEF Wake, Remaining
  <2>2. Len(waiters[k]) >= 1 /\ waiters[k] # <<>> /\ 1 \in 1 .. Len(waiters[k])
    BY <1>1, <1>4 DEF ToWake
  <2>3. /\ Head(waiters[k]) = waiters[k][1] /\ Head(waiters[k]) \in Tasks
        /\ Tail(waiters[k]) \in Seq(Tasks) /\ Len(Tail(waiters[k])) = Len(waiters[k]) - 1
        /\ \A i \in 1 .. Len(Tail(waiters[k])) : Tail(waiters[k])[i] = waiters[k][i + 1]
    BY <1>1, <2>2
  <2>4. waiters' \in [Blocking -> Seq(Tasks)]
    BY <2>1, <2>3 DEF KernelInv, PrtosTypeOK
  <2>5. /\ \A c \in Blocking \ {k} : waiters'[c] = waiters[c]
        /\ waiters'[k] = Tail(waiters[k])
    BY <2>1 DEF KernelInv, PrtosTypeOK
  <2>6. WaitersParked'
    <3> SUFFICES ASSUME NEW c \in Blocking, NEW i \in 1 .. Len(waiters'[c]), NEW u, u = waiters'[c][i]
                 PROVE  state'[u] = "blocked" /\ place'[u] \in {"blocked", "retry"} /\ AtCall(u, c)'
      BY DEF WaitersParked, AtCall, Returned
    <3>1. PICK j \in 1 .. Len(waiters[c]) :
             waiters'[c][i] = waiters[c][j] /\ (c = k => j # 1)
      <4>1. CASE c # k
        BY <4>1, <2>5
      <4>2. CASE c = k
        BY <4>2, <2>3, <2>5, <1>1
      <4>3. QED
        BY <4>1, <4>2
    <3>2. u = waiters[c][j] /\ u \in Tasks /\ state[u] = "blocked" /\ place[u] \in {"blocked", "retry"} /\ AtCall(u, c)
      BY <3>1 DEF KernelInv, PrtosTypeOK, WaitersParked
    <3>3. u # t
      BY <3>2, ReadyWaitsNowhere
    <3>4. u # Head(waiters[k])
      <4>1. CASE c = k
        BY <4>1, <3>1, <3>2, <2>2, <2>3 DEF KernelInv, WaitersOnce
      <4>2. CASE c # k
        <5>1. AtCall(Head(waiters[k]), k)
          BY <2>2, <2>3 DEF KernelInv, WaitersParked
        <5>2. QED
          BY <4>2, <5>1, <3>2 DEF AtCall
      <4>3. QED
        BY <4>1, <4>2
    <3>5. AtCall(u, c)'
      BY <1>2, <3>2, <3>3 DEF AtCall, Returned, KernelInv, PrtosTypeOK
    <3>6. state'[u] = state[u] /\ place'[u] = place[u]
      BY <1>2, <2>1, <3>2, <3>3, <3>4 DEF KernelInv, PrtosTypeOK
    <3>7. QED
      BY <3>2, <3>5, <3>6
  <2>7. WaitersOnce'
    <3> SUFFICES ASSUME NEW c \in Blocking, NEW i \in 1 .. Len(waiters'[c]),
                        NEW j \in 1 .. Len(waiters'[c]), waiters'[c][i] = waiters'[c][j]
                 PROVE  i = j
      BY DEF WaitersOnce
    <3>1. CASE c # k
      BY <3>1, <2>5 DEF KernelInv, WaitersOnce
    <3>2. CASE c = k
      <4>1. i + 1 \in 1 .. Len(waiters[k]) /\ j + 1 \in 1 .. Len(waiters[k])
        BY <3>2, <2>3, <2>5, <1>1
      <4>2. waiters[k][i + 1] = waiters[k][j + 1]
        BY <3>2, <2>3, <2>5
      <4>3. QED
        BY <4>1, <4>2 DEF KernelInv, WaitersOnce
    <3>3. QED
      BY <3>1, <3>2
  <2>8. \A c \in Blocking : Len(waiters'[c]) <= MaxTasks
    BY <2>4, <2>7, RoomForAll DEF WaitersOnce
  <2>9. CurrentReady'
    <3>1. t # Idle /\ state'[t] = "ready"
      BY <2>1, <2>3 DEF KernelInv, PrtosTypeOK, Tasks, Idle
    <3>2. QED
      BY <3>1 DEF CurrentReady
  <2>10. TasksTypeOK'
    BY <1>2, <2>1, <2>3, <2>4, <2>8 DEF TasksTypeOK, KernelInv, PrtosTypeOK
  <2>11. QED
    BY <2>6, <2>7, <2>9, <2>10 DEF TasksInv
<1>5. QED
  BY <1>3, <1>4

----------------------------------------------------------------------------
(* The invariant. *)

\* The types of what the calls keep besides.
StoreTypeOK ==
    /\ work \in Workloads /\ cur \in Tasks \cup {Idle} /\ due \in [Tasks -> BOOLEAN]
    /\ {allDone, inRun, pending, ran, locked} \subseteq BOOLEAN
    /\ owner \in Tasks \cup {Idle}
    /\ buf \in [0 .. Depth - 1 -> Messages \cup {Nothing}]
    /\ head \in 0 .. Depth - 1 /\ filled \in 0 .. Depth
    /\ last \in [Tasks -> Messages \cup {Nothing}]

LEMMA InvParts == KernelInv <=> StoreTypeOK /\ TasksInv
  BY DEF KernelInv, PrtosTypeOK, StoreTypeOK, TasksInv, TasksTypeOK

LEMMA InvPartsNext == KernelInv' <=> StoreTypeOK' /\ TasksInv'
  BY DEF KernelInv, PrtosTypeOK, StoreTypeOK, TasksInv, TasksTypeOK

LEMMA KernelInit == PrtosInit => KernelInv
<1> SUFFICES ASSUME PrtosInit
             PROVE  KernelInv
  OBVIOUS
<1>1. Depth \in Nat \ {0} /\ 0 \in 0 .. Depth - 1 /\ 0 \in 0 .. Depth
  BY PrtosAssumption
<1>2. \A k \in Blocking : waiters[k] = <<>>
  BY DEF PrtosInit
<1>3. waiters \in [Blocking -> Seq(Tasks)] /\ \A k \in Blocking : Len(waiters[k]) = 0
  BY <1>2 DEF PrtosInit
<1>4. PrtosTypeOK
  <2>1. MaxTasks \in Nat
    BY DEF MaxTasks
  <2>2. "call" \in Places
    BY DEF Places
  <2>3. state \in [Tasks -> {"dead", "ready", "sleeping", "blocked"}] /\ place \in [Tasks -> Places]
    BY <2>2 DEF PrtosInit
  <2>4. buf \in [0 .. Depth - 1 -> Messages \cup {Nothing}] /\ last \in [Tasks -> Messages \cup {Nothing}]
    BY DEF PrtosInit
  <2>5. QED
    BY <1>1, <1>3, <2>1, <2>3, <2>4 DEF PrtosInit, PrtosTypeOK
<1>5. QED
  BY <1>2, <1>3, <1>4 DEF PrtosInit, KernelInv, CurrentReady, WaitersParked, WaitersOnce

\* Waiters stay parked in a step that unblocks nobody and moves no caller on.
LEMMA StillParked ==
    ASSUME KernelInv, UNCHANGED <<work, ip, waiters>>,
           \A u \in Tasks : /\ state[u] = "blocked" => state'[u] = "blocked"
                            /\ place[u] \in {"blocked", "retry"} => place'[u] \in {"blocked", "retry"}
    PROVE  WaitersParked' /\ WaitersOnce'
<1>1. ASSUME NEW k \in Blocking, NEW i \in 1 .. Len(waiters[k]), NEW u, u = waiters[k][i]
      PROVE  state'[u] = "blocked" /\ place'[u] \in {"blocked", "retry"} /\ AtCall(u, k)'
  <2>1. u \in Tasks /\ state[u] = "blocked" /\ place[u] \in {"blocked", "retry"} /\ AtCall(u, k)
    BY <1>1 DEF KernelInv, PrtosTypeOK, WaitersParked
  <2>2. AtCall(u, k)'
    BY <2>1 DEF AtCall, Returned
  <2>3. QED
    BY <2>1, <2>2
<1>2. WaitersParked'
  BY <1>1 DEF WaitersParked, AtCall, Returned
<1>3. WaitersOnce'
  BY DEF KernelInv, WaitersOnce
<1>4. QED
  BY <1>2, <1>3

LEMMA IsrKeeps == KernelInv /\ Isr => KernelInv'
<1> SUFFICES ASSUME KernelInv, Isr
             PROVE  KernelInv'
  OBVIOUS
<1>1. /\ \A t \in Tasks : state'[t] # state[t] => state[t] = "sleeping" /\ state'[t] = "ready"
      /\ state' \in [Tasks -> {"dead", "ready", "sleeping", "blocked"}]
  BY DEF Isr, Awoken, KernelInv, PrtosTypeOK
<1>2. cur' \in Tasks \cup {Idle} /\ (cur' # Idle => state'[cur'] = "ready")
  <2>1. CASE Top = {}
    BY <2>1 DEF Isr
  <2>2. CASE Top # {}
    <3>1. cur' \in Top
      BY <2>2, NextTask DEF Isr, KernelInv
    <3>2. QED
      BY <3>1 DEF Isr, Top
  <2>3. QED
    BY <2>1, <2>2
<1>3. StoreTypeOK'
  BY <1>2 DEF Isr, mutexVars, queueVars, KernelInv, PrtosTypeOK, StoreTypeOK
<1>4. WaitersParked' /\ WaitersOnce'
  <2>1. UNCHANGED <<work, ip, place, waiters>>
    BY DEF Isr
  <2>2. QED
    BY <1>1, <2>1, StillParked
<1>5. QED
  BY <1>1, <1>2, <1>3, <1>4, InvPartsNext
     DEF Isr, CurrentReady, KernelInv, PrtosTypeOK, TasksInv, TasksTypeOK

LEMMA MutexLockKeeps == ASSUME KernelInv, NEW t \in Tasks, MutexLock(t) PROVE KernelInv'
<1>1. state[t] = "ready" /\ cur = t /\ cur' = cur /\ work' = work /\ ~pending /\ pending' = pending
  BY CallerReady DEF MutexLock
<1>2. StoreTypeOK'
  BY DEF MutexLock, In, mutexVars, queueVars, KernelInv, PrtosTypeOK, StoreTypeOK
<1>3. CASE ~locked
  <2>1. state' = [state EXCEPT ![t] = "ready"] /\ waiters' = waiters
    BY <1>1, <1>3 DEF MutexLock, KernelInv, PrtosTypeOK
  <2>2. Return(t) /\ NextCall(t) \in Nat \ {0} /\ "call" \in Places
    BY <1>3, NextCallType DEF MutexLock, KernelInv, Places
  <2>3. TasksInv'
    BY <1>1, <2>1, <2>2, AsideKeeps DEF Return
  <2>4. QED
    BY <1>2, <2>3, InvPartsNext
<1>4. CASE locked
  <2>1. Block(t, "lock") /\ AtCall(t, "lock")
    BY <1>4 DEF MutexLock
  <2>2. TasksInv'
    BY <1>1, <2>1, BlockKeeps DEF Blocking
  <2>3. QED
    BY <1>2, <2>2, InvPartsNext
<1>5. QED
  BY <1>3, <1>4

LEMMA MutexUnlockKeeps == ASSUME KernelInv, NEW t \in Tasks, MutexUnlock(t) PROVE KernelInv'
<1>1. state[t] = "ready" /\ cur = t /\ cur' = cur /\ work' = work /\ ~pending /\ pending' = pending
  BY CallerReady DEF MutexUnlock
<1>2. StoreTypeOK'
  BY DEF MutexUnlock, In, queueVars, KernelInv, PrtosTypeOK, StoreTypeOK
<1>3. TasksInv'
  BY <1>1, WakeKeeps DEF MutexUnlock, Blocking
<1>4. QED
  BY <1>2, <1>3, InvPartsNext

LEMMA SendKeeps == ASSUME KernelInv, NEW t \in Tasks, Send(t) PROVE KernelInv'
<1>1. state[t] = "ready" /\ cur = t /\ cur' = cur /\ work' = work /\ ~pending /\ pending' = pending
  BY CallerReady DEF Send
<1>2. Depth \in Nat \ {0} /\ filled \in 0 .. Depth /\ head \in 0 .. Depth - 1
  BY PrtosAssumption DEF KernelInv, PrtosTypeOK
<1>3. CASE filled < Depth
  <2>1. /\ buf' = [buf EXCEPT ![Tail_Slot] = work.program[t][ip[t]].msg]
        /\ filled' = filled + 1 /\ head' = head /\ Wake("recv") /\ Return(t)
    BY <1>2, <1>3 DEF Send
  <2>2. work.program[t][ip[t]].msg \in Messages
    BY WorkType DEF Send, KernelInv, AtCall, Returned
  <2>3. Tail_Slot \in 0 .. Depth - 1
    BY <1>2, ModRange DEF Tail_Slot
  <2>4. StoreTypeOK'
    BY <1>2, <1>3, <2>1, <2>2, <2>3 DEF Send, In, mutexVars, KernelInv, PrtosTypeOK, StoreTypeOK
  <2>5. TasksInv'
    BY <1>1, <2>1, WakeKeeps DEF Blocking
  <2>6. QED
    BY <2>4, <2>5, InvPartsNext
<1>4. CASE filled = Depth
  <2>1. Block(t, "send") /\ AtCall(t, "send") /\ UNCHANGED <<buf, head, filled>>
    BY <1>2, <1>4 DEF Send
  <2>2. StoreTypeOK'
    BY <2>1 DEF Send, In, mutexVars, KernelInv, PrtosTypeOK, StoreTypeOK
  <2>3. TasksInv'
    BY <1>1, <2>1, BlockKeeps DEF Blocking
  <2>4. QED
    BY <2>2, <2>3, InvPartsNext
<1>5. QED
  BY <1>3, <1>4 DEF Send

LEMMA ReceiveKeeps == ASSUME KernelInv, NEW t \in Tasks, Receive(t) PROVE KernelInv'
<1>1. state[t] = "ready" /\ cur = t /\ cur' = cur /\ work' = work /\ ~pending /\ pending' = pending
  BY CallerReady DEF Receive
<1>2. Depth \in Nat \ {0} /\ filled \in 0 .. Depth /\ head \in 0 .. Depth - 1
  BY PrtosAssumption DEF KernelInv, PrtosTypeOK
<1>3. CASE filled > 0
  <2>1. /\ last' = [last EXCEPT ![t] = buf[head]] /\ buf' = buf
        /\ filled' = filled - 1 /\ head' = Next_Head /\ Wake("send") /\ Return(t)
    BY <1>2, <1>3 DEF Receive
  <2>2. Next_Head \in 0 .. Depth - 1 /\ buf[head] \in Messages \cup {Nothing}
    BY <1>2, ModRange DEF Next_Head, KernelInv, PrtosTypeOK
  <2>3. StoreTypeOK'
    BY <1>2, <1>3, <2>1, <2>2 DEF Receive, In, mutexVars, KernelInv, PrtosTypeOK, StoreTypeOK
  <2>4. TasksInv'
    BY <1>1, <2>1, WakeKeeps DEF Blocking
  <2>5. QED
    BY <2>3, <2>4, InvPartsNext
<1>4. CASE filled = 0
  <2>1. Block(t, "recv") /\ AtCall(t, "recv") /\ UNCHANGED <<buf, head, filled, last>>
    BY <1>2, <1>4 DEF Receive
  <2>2. StoreTypeOK'
    BY <2>1 DEF Receive, In, mutexVars, KernelInv, PrtosTypeOK, StoreTypeOK
  <2>3. TasksInv'
    BY <1>1, <2>1, BlockKeeps DEF Blocking
  <2>4. QED
    BY <2>2, <2>3, InvPartsNext
<1>5. QED
  BY <1>3, <1>4 DEF Receive

\* The calls that wait for nobody.
LEMMA OwnCallKeeps ==
    ASSUME KernelInv, NEW t \in Tasks, Sleep(t) \/ Doze(t) \/ Yield(t) \/ Exit(t)
    PROVE  KernelInv'
<1>1. state[t] = "ready" /\ cur = t /\ cur' = cur /\ work' = work /\ ~pending /\ pending' = pending
  BY CallerReady DEF Sleep, Doze, Yield, Exit
<1>2. StoreTypeOK' /\ waiters' = waiters
  BY DEF Sleep, Doze, Yield, Exit, In, mutexVars, queueVars, KernelInv, PrtosTypeOK, StoreTypeOK
<1>3. NextCall(t) \in Nat \ {0} /\ ip[t] \in Nat \ {0} /\ Places = {"call", "blocked", "retry", "force", "doze"}
  BY NextCallType DEF KernelInv, PrtosTypeOK, Places
<1>4. /\ state = [state EXCEPT ![t] = "ready"] /\ ip = [ip EXCEPT ![t] = ip[t]]
  BY <1>1 DEF KernelInv, PrtosTypeOK
<1>5. CASE Sleep(t)
  <2>1. state' = [state EXCEPT ![t] = "ready"]
    BY <1>4, <1>5 DEF Sleep
  <2>2. CASE Return(t)
    BY <1>1, <1>2, <1>3, <2>1, <2>2, AsideKeeps, InvPartsNext DEF Return
  <2>3. CASE place' = [place EXCEPT ![t] = "doze"] /\ ip' = ip
    <3>1. TasksInv'
      BY <1>1, <1>2, <1>3, <1>4, <2>1, <2>3, AsideKeeps
    <3>2. QED
      BY <1>2, <3>1, InvPartsNext
  <2>4. QED
    BY <1>5, <2>2, <2>3 DEF Sleep
<1>6. CASE Doze(t)
  BY <1>1, <1>2, <1>3, <1>6, AsideKeeps, InvPartsNext DEF Doze
<1>7. CASE Yield(t)
  BY <1>1, <1>2, <1>3, <1>4, <1>7, AsideKeeps, InvPartsNext DEF Yield
<1>8. CASE Exit(t)
  BY <1>1, <1>2, <1>3, <1>4, <1>8, AsideKeeps, InvPartsNext DEF Exit
<1>9. QED
  BY <1>5, <1>6, <1>7, <1>8

LEMMA ForceKeeps == ASSUME KernelInv, NEW t \in Tasks, ForceIsr(t) PROVE KernelInv'
<1>1. StoreTypeOK'
  BY DEF ForceIsr, In, mutexVars, queueVars, KernelInv, PrtosTypeOK, StoreTypeOK
<1>2. UNCHANGED <<state, ip, waiters, work>> /\ pending' = TRUE
  BY DEF ForceIsr, In
<1>3. /\ place' \in [Tasks -> Places]
      /\ \A u \in Tasks : place[u] \in {"blocked", "retry"} => place'[u] \in {"blocked", "retry"}
  <2>1. place' = [place EXCEPT ![t] = IF place[t] = "blocked" THEN "retry" ELSE "call"]
    BY DEF ForceIsr, KernelInv, PrtosTypeOK
  <2>2. place[t] \in {"blocked", "force"} /\ place \in [Tasks -> Places]
    BY DEF ForceIsr, In, KernelInv, PrtosTypeOK
  <2>3. QED
    BY <2>1, <2>2 DEF Places
<1>4. WaitersParked' /\ WaitersOnce'
  BY <1>2, <1>3, StillParked
<1>5. CurrentReady'
  BY <1>2 DEF CurrentReady
<1>6. TasksTypeOK'
  BY <1>2, <1>3 DEF KernelInv, PrtosTypeOK, TasksTypeOK
<1>7. QED
  BY <1>1, <1>4, <1>5, <1>6, InvPartsNext DEF TasksInv

LEMMA KernelStep == KernelInv /\ [PrtosNext]_prtosVars => KernelInv'
<1> SUFFICES ASSUME KernelInv, [PrtosNext]_prtosVars
             PROVE  KernelInv'
  OBVIOUS
<1>1. CASE Isr
  BY <1>1, IsrKeeps
<1>2. ASSUME UNCHANGED <<state, ip, place, waiters, work, cur, pending>>, StoreTypeOK'
      PROVE  KernelInv'
  <2>1. WaitersParked' /\ WaitersOnce'
    BY <1>2, StillParked
  <2>2. CurrentReady' /\ TasksTypeOK'
    BY <1>2 DEF KernelInv, PrtosTypeOK, CurrentReady, TasksTypeOK
  <2>3. QED
    BY <1>2, <2>1, <2>2, InvPartsNext DEF TasksInv
<1>3. ASSUME RunReturns \/ UNCHANGED prtosVars \/ \E t \in Tasks : Elapse(t)
      PROVE  KernelInv'
  <2>1. UNCHANGED <<state, ip, place, waiters, work, cur, pending>>
    BY <1>3 DEF RunReturns, Elapse, prtosVars, taskVars
  <2>2. StoreTypeOK'
    BY <1>3 DEF RunReturns, Elapse, prtosVars, taskVars, mutexVars, queueVars, KernelInv,
                PrtosTypeOK, StoreTypeOK
  <2>3. QED
    BY <1>2, <2>1, <2>2
<1>4. CASE TaskStep
  BY <1>4, MutexLockKeeps, MutexUnlockKeeps, SendKeeps, ReceiveKeeps, OwnCallKeeps, ForceKeeps
     DEF TaskStep
<1>5. QED
  BY <1>1, <1>3, <1>4 DEF PrtosNext

LEMMA KernelInvariant == PrtosSpec => []KernelInv
  BY KernelInit, KernelStep, PTL DEF PrtosSpec

\* Every variable of the kernel keeps its type; in particular no waiter array
\* is ever filled past PRTOS_MAX_TASKS, which the code does not check.
THEOREM PrtosTypeCorrect == PrtosSpec => []PrtosTypeOK
  BY KernelInvariant, PTL DEF KernelInv

----------------------------------------------------------------------------
(* The mutex. *)

\* Counting the calls of a program, one call further.
LEMMA CallsCount ==
    ASSUME NEW p, Len(p) \in Nat, NEW n \in Nat, NEW name
    PROVE  /\ Calls(p, n, name) \in Nat
           /\ n \in 1 .. Len(p) =>
                Calls(p, n + 1, name) = Calls(p, n, name) + (IF p[n].call = name THEN 1 ELSE 0)
           /\ Calls(p, 1, name) = 0
<1> DEFINE C(m) == {i \in 1 .. Len(p) : i < m /\ p[i].call = name}
<1>1. \A m \in Nat : IsFiniteSet(C(m)) /\ Cardinality(C(m)) \in Nat
  <2> TAKE m \in Nat
  <2>1. IsFiniteSet(1 .. Len(p)) /\ C(m) \in SUBSET (1 .. Len(p))
    BY FS_Interval
  <2> HIDE DEF C
  <2>2. IsFiniteSet(C(m))
    BY <2>1, FS_Subset
  <2>3. QED
    BY <2>2, FS_CardinalityType
<1>2. Calls(p, n, name) \in Nat
  BY <1>1 DEF Calls
<1>3. ASSUME n \in 1 .. Len(p)
      PROVE  Calls(p, n + 1, name) = Calls(p, n, name) + (IF p[n].call = name THEN 1 ELSE 0)
  <2>1. C(n + 1) = IF p[n].call = name THEN C(n) \cup {n} ELSE C(n)
    BY <1>3
  <2>2. n \notin C(n)
    OBVIOUS
  <2>3. IsFiniteSet(C(n)) /\ Cardinality(C(n)) \in Nat
    BY <1>1
  <2>4. Cardinality(C(n + 1)) = Cardinality(C(n)) + (IF p[n].call = name THEN 1 ELSE 0)
    <3> HIDE DEF C
    <3>1. Cardinality(C(n) \cup {n}) = Cardinality(C(n)) + 1
      BY <2>2, <2>3, FS_AddElement
    <3>2. QED
      BY <2>1, <2>3, <3>1
  <2>5. QED
    BY <2>4 DEF Calls
<1>4. Calls(p, 1, name) = 0
  <2>1. C(1) = {}
    OBVIOUS
  <2>2. QED
    BY <2>1, FS_EmptySet DEF Calls
<1>5. QED
  BY <1>2, <1>3, <1>4

\* What a task owes after the call it is at: 1 after a lock, 0 after an unlock,
\* what it owed before after any other.
LEMMA CallOwes ==
    ASSUME Disciplined, KernelInv, LocksCounted, NEW t \in Tasks, ~Returned(t)
    PROVE  LET p    == work.program[t]
               call == p[ip[t]].call
               owed == IF locked /\ owner = t THEN 1 ELSE 0
           IN  /\ call = "lock" => owed = 0
               /\ call = "unlock" => owed = 1
               /\ Calls(p, NextCall(t), "lock") = Calls(p, NextCall(t), "unlock")
                     + (CASE call = "lock" -> 1 [] call = "unlock" -> 0 [] OTHER -> owed)
<1> DEFINE p == work.program[t]
           n == ip[t]
           owed == IF locked /\ owner = t THEN 1 ELSE 0
           after == CASE p[n].call = "lock" -> 1 [] p[n].call = "unlock" -> 0 [] OTHER -> owed
<1>1. Len(p) \in Nat /\ n \in 1 .. Len(p) /\ work \in Workloads
  BY WorkType DEF KernelInv, PrtosTypeOK, Returned
<1>2. /\ Calls(p, n, "lock") \in Nat /\ Calls(p, n, "unlock") \in Nat
      /\ Calls(p, n, "lock") = Calls(p, n, "unlock") + owed
  BY <1>1, CallsCount DEF LocksCounted
<1>3. /\ p[n].call = "lock"   => Calls(p, n, "lock") = Calls(p, n, "unlock")
      /\ p[n].call = "unlock" => Calls(p, n, "lock") > Calls(p, n, "unlock")
      /\ t \in work.loops => Calls(p, Len(p) + 1, "lock") = Calls(p, Len(p) + 1, "unlock")
  BY <1>1 DEF Disciplined
<1>4. /\ p[n].call = "lock" => owed = 0
      /\ p[n].call = "unlock" => owed = 1
  BY <1>2, <1>3
<1>5. Calls(p, n + 1, "lock") = Calls(p, n + 1, "unlock") + after
  <2>1. /\ Calls(p, n + 1, "lock") = Calls(p, n, "lock") + (IF p[n].call = "lock" THEN 1 ELSE 0)
        /\ Calls(p, n + 1, "unlock") = Calls(p, n, "unlock") + (IF p[n].call = "unlock" THEN 1 ELSE 0)
    <3> HIDE DEF p, n
    <3>1. n \in Nat
      BY <1>1
    <3>2. QED
      BY <1>1, <3>1, CallsCount
  <2>2. QED
    BY <1>2, <1>4, <2>1
<1>6. CASE t \in work.loops /\ n = Len(p)
  <2>1. after = 0
    <3>1. Calls(p, n + 1, "unlock") \in Nat
      BY <1>1, CallsCount
    <3>2. QED
      BY <1>3, <1>5, <1>6, <3>1
  <2>2. NextCall(t) = 1
    BY <1>6 DEF NextCall
  <2>3. Calls(p, 1, "lock") = 0 /\ Calls(p, 1, "unlock") = 0
    BY <1>1, CallsCount
  <2>4. QED
    BY <1>4, <2>1, <2>2, <2>3
<1>7. CASE ~(t \in work.loops /\ n = Len(p))
  <2>1. NextCall(t) = n + 1
    BY <1>7 DEF NextCall
  <2>2. QED
    BY <1>4, <1>5, <2>1
<1>8. QED
  BY <1>6, <1>7

\* A task between the two stores of a sleep is in that call.
DozesInSleep == \A t \in Tasks : place[t] = "doze" => AtCall(t, "sleep")

LEMMA DozeStep ==
    ASSUME KernelInv, DozesInSleep, [PrtosNext]_prtosVars
    PROVE  DozesInSleep'
<1>1. ASSUME NEW u \in Tasks, place'[u] = "doze"
      PROVE  AtCall(u, "sleep")'
  <2>1. work' = work
    BY DEF PrtosNext, TaskStep, Isr, RunReturns, Elapse, MutexLock, MutexUnlock, Send, Receive,
           Sleep, Doze, Yield, Exit, ForceIsr, In, prtosVars
  <2>2. CASE place' = place /\ ip' = ip
    BY <1>1, <2>1, <2>2 DEF DozesInSleep, AtCall, Returned
  <2>3. ASSUME NEW t \in Tasks, NEW n, NEW p, ip' = [ip EXCEPT ![t] = n],
               place' = [place EXCEPT ![t] = p],
               p = "doze" => n = ip[t] /\ AtCall(t, "sleep")
        PROVE  AtCall(u, "sleep")'
    <3>1. AtCall(u, "sleep") /\ ip'[u] = ip[u]
      BY <1>1, <2>3 DEF DozesInSleep, KernelInv, PrtosTypeOK
    <3>2. QED
      BY <2>1, <3>1 DEF AtCall, Returned
  <2>4. ASSUME NEW t \in Tasks, NEW k, Block(t, k)
        PROVE  AtCall(u, "sleep")'
    BY <2>3, <2>4 DEF Block
  <2>5. ASSUME NEW t \in Tasks, Return(t)
        PROVE  AtCall(u, "sleep")'
    BY <2>3, <2>5 DEF Return
  <2>6. ASSUME NEW t \in Tasks, Sleep(t), ~Return(t)
        PROVE  AtCall(u, "sleep")'
    <3>1. place' = [place EXCEPT ![t] = "doze"] /\ ip' = [ip EXCEPT ![t] = ip[t]]
      BY <2>6 DEF Sleep, KernelInv, PrtosTypeOK
    <3>2. QED
      BY <2>3, <2>6, <3>1 DEF Sleep
  <2>7. ASSUME NEW t \in Tasks, ForceIsr(t) \/ Exit(t) \/ Doze(t) \/ Yield(t)
        PROVE  AtCall(u, "sleep")'
    <3>1. ip = [ip EXCEPT ![t] = ip[t]]
      BY DEF KernelInv, PrtosTypeOK
    <3>2. CASE ForceIsr(t)
      <4>1. place' = [place EXCEPT ![t] = IF place[t] = "blocked" THEN "retry" ELSE "call"]
        BY <3>2 DEF ForceIsr
      <4>2. ip' = [ip EXCEPT ![t] = ip[t]]
        BY <3>1, <3>2 DEF ForceIsr
      <4>3. CASE place[t] = "blocked"
        <5>1. place' = [place EXCEPT ![t] = "retry"]
          BY <4>1, <4>3
        <5>2. QED
          BY <2>3, <4>2, <5>1
      <4>4. CASE place[t] # "blocked"
        <5>1. place' = [place EXCEPT ![t] = "call"]
          BY <4>1, <4>4
        <5>2. QED
          BY <2>3, <4>2, <5>1
      <4>5. QED
        BY <4>3, <4>4
    <3>3. CASE Exit(t)
      <4>1. place' = [place EXCEPT ![t] = "force"] /\ ip' = [ip EXCEPT ![t] = ip[t]]
        BY <3>1, <3>3 DEF Exit
      <4>2. QED
        BY <2>3, <4>1
    <3>4. CASE Doze(t) \/ Yield(t)
      <4>1. place' = [place EXCEPT ![t] = "force"] /\ ip' = [ip EXCEPT ![t] = NextCall(t)]
        BY <3>4 DEF Doze, Yield
      <4>2. QED
        BY <2>3, <4>1
    <3>5. QED
      BY <2>7, <3>2, <3>3, <3>4
  <2>8. CASE \E t \in Tasks : MutexLock(t) \/ MutexUnlock(t) \/ Send(t) \/ Receive(t)
    BY <2>4, <2>5, <2>8 DEF MutexLock, MutexUnlock, Send, Receive
  <2>9. CASE Isr \/ RunReturns \/ UNCHANGED prtosVars \/ \E t \in Tasks : Elapse(t)
    BY <2>2, <2>9 DEF Isr, RunReturns, Elapse, prtosVars, taskVars
  <2>10. QED
    BY <2>5, <2>6, <2>7, <2>8, <2>9 DEF PrtosNext, TaskStep
<1>2. QED
  BY <1>1 DEF DozesInSleep, AtCall, Returned

LEMMA DozeInvariant == PrtosSpec => []DozesInSleep
<1>1. PrtosInit => DozesInSleep
  BY DEF PrtosInit, DozesInSleep
<1>2. KernelInv /\ DozesInSleep /\ [PrtosNext]_prtosVars => DozesInSleep'
  BY DozeStep
<1>3. QED
  BY <1>1, <1>2, KernelInvariant, PTL DEF PrtosSpec

LEMMA LocksInit == PrtosInit => LocksCounted
<1> SUFFICES ASSUME PrtosInit, NEW t \in Tasks
             PROVE  Calls(work.program[t], ip[t], "lock")
                      = Calls(work.program[t], ip[t], "unlock")
                          + (IF locked /\ owner = t THEN 1 ELSE 0)
  BY DEF LocksCounted
<1>1. Len(work.program[t]) \in Nat
  BY KernelInit, WorkType DEF KernelInv
<1>2. ip[t] = 1 /\ ~locked
  BY DEF PrtosInit
<1>3. QED
  BY <1>1, <1>2, CallsCount

\* Steps that leave the mutex and every program where they are.
LEMMA LocksIdle ==
    ASSUME LocksCounted, UNCHANGED <<work, ip, locked, owner>>
    PROVE  LocksCounted'
  BY DEF LocksCounted, Calls

\* A step of t past a call that leaves the counts of the others alone.
LEMMA LocksAdvance ==
    ASSUME Disciplined, KernelInv, LocksCounted, NEW t \in Tasks, ~Returned(t),
           work' = work, ip' = [ip EXCEPT ![t] = NextCall(t)],
           LET call == work.program[t][ip[t]].call IN
             \/ call = "lock" /\ ~locked /\ locked' /\ owner' = t
             \/ call = "unlock" /\ ~locked'
             \/ call \notin {"lock", "unlock"} /\ UNCHANGED <<locked, owner>>
    PROVE  LocksCounted'
<1> DEFINE call == work.program[t][ip[t]].call
<1> SUFFICES ASSUME NEW u \in Tasks
             PROVE  Calls(work.program[u], ip'[u], "lock")
                      = Calls(work.program[u], ip'[u], "unlock")
                          + (IF locked' /\ owner' = u THEN 1 ELSE 0)
  BY DEF LocksCounted, Calls
<1>1. CASE u = t
  <2>1. ip'[t] = NextCall(t)
    BY DEF KernelInv, PrtosTypeOK
  <2>2. (IF locked' /\ owner' = t THEN 1 ELSE 0)
          = (CASE call = "lock" -> 1 [] call = "unlock" -> 0
               [] OTHER -> IF locked /\ owner = t THEN 1 ELSE 0)
    OBVIOUS
  <2>3. QED
    BY <1>1, <2>1, <2>2, CallOwes
<1>2. CASE u # t
  <2>1. ip'[u] = ip[u]
    BY <1>2 DEF KernelInv, PrtosTypeOK
  <2>2. (locked' /\ owner' = u) <=> (locked /\ owner = u)
    <3>1. CASE call = "unlock"
      <4>1. locked /\ owner = t
        BY <3>1, CallOwes
      <4>2. QED
        BY <3>1, <4>1, <1>2
    <3>2. CASE call # "unlock"
      BY <3>2, <1>2
    <3>3. QED
      BY <3>1, <3>2
  <2>3. QED
    BY <2>1, <2>2 DEF LocksCounted
<1>3. QED
  BY <1>1, <1>2

LEMMA LocksStep ==
    ASSUME Disciplined, KernelInv, DozesInSleep, LocksCounted, [PrtosNext]_prtosVars
    PROVE  LocksCounted'
<1>1. CASE Isr \/ RunReturns \/ UNCHANGED prtosVars \/ \E t \in Tasks : Elapse(t)
  BY <1>1, LocksIdle DEF Isr, RunReturns, Elapse, prtosVars, taskVars, mutexVars
<1>2. ASSUME NEW t \in Tasks, MutexLock(t)
      PROVE  LocksCounted'
  <2>1. CASE ~locked
    <3>1. ~Returned(t) /\ work.program[t][ip[t]].call = "lock" /\ work' = work
      BY <1>2 DEF MutexLock, AtCall, In
    <3>2. locked' /\ owner' = t /\ ip' = [ip EXCEPT ![t] = NextCall(t)]
      BY <1>2, <2>1 DEF MutexLock, Return
    <3>3. QED
      BY <2>1, <3>1, <3>2, LocksAdvance
  <2>2. CASE locked
    <3>1. ip' = ip
      BY <1>2, <2>2 DEF MutexLock, Block, Resumed, KernelInv, PrtosTypeOK
    <3>2. QED
      BY <1>2, <2>2, <3>1, LocksIdle DEF MutexLock, In, mutexVars
  <2>3. QED
    BY <2>1, <2>2
<1>3. ASSUME NEW t \in Tasks, MutexUnlock(t)
      PROVE  LocksCounted'
  <2>1. ~Returned(t) /\ work.program[t][ip[t]].call = "unlock" /\ work' = work
    BY <1>3 DEF MutexUnlock, AtCall, In
  <2>2. locked' = FALSE /\ ip' = [ip EXCEPT ![t] = NextCall(t)]
    BY <1>3 DEF MutexUnlock, Return
  <2>3. QED
    BY <2>1, <2>2, LocksAdvance
<1>4. ASSUME NEW t \in Tasks,
             Send(t) \/ Receive(t) \/ Sleep(t) \/ Doze(t) \/ Yield(t) \/ Exit(t) \/ ForceIsr(t)
      PROVE  LocksCounted'
  <2>1. UNCHANGED <<work, locked, owner>>
    BY <1>4 DEF Send, Receive, Sleep, Doze, Yield, Exit, ForceIsr, In, mutexVars
  <2>2. CASE ip' = ip
    BY <2>1, <2>2, LocksIdle
  <2>3. CASE ip' # ip
    <3>1. ip' = [ip EXCEPT ![t] = NextCall(t)]
      BY <1>4, <2>3 DEF Send, Receive, Sleep, Doze, Yield, Exit, ForceIsr, Block, Resumed,
                        Return, KernelInv, PrtosTypeOK
    <3>2. ~Returned(t) /\ work.program[t][ip[t]].call \notin {"lock", "unlock"}
      <4>1. CASE Doze(t)
        BY <4>1 DEF Doze, In, DozesInSleep, AtCall
      <4>2. CASE ~Doze(t)
        BY <1>4, <2>3, <4>2 DEF Send, Receive, Sleep, Yield, Exit, ForceIsr, AtCall
      <4>3. QED
        BY <4>1, <4>2
    <3>3. QED
      BY <2>1, <3>1, <3>2, LocksAdvance
  <2>4. QED
    BY <2>2, <2>3
<1>5. QED
  BY <1>1, <1>2, <1>3, <1>4 DEF PrtosNext, TaskStep

\* Tasks that use the mutex as it asks exclude each other: a task is inside
\* its critical section exactly when it owns the mutex, for every workload and
\* whatever preemption, sleep and barging make of the order of their calls.
THEOREM PrtosMutexExcludes == ASSUME Disciplined PROVE PrtosSpec => []MutexExcludes
<1>1. KernelInv /\ LocksCounted => MutexExcludes
  <2> SUFFICES ASSUME KernelInv, LocksCounted, NEW t \in Tasks
               PROVE  Inside(t) <=> locked /\ owner = t
    BY DEF MutexExcludes
  <2>1. Len(work.program[t]) \in Nat /\ ip[t] \in Nat
    BY WorkType DEF KernelInv
  <2>2. /\ Calls(work.program[t], ip[t], "lock") \in Nat
        /\ Calls(work.program[t], ip[t], "unlock") \in Nat
    BY <2>1, CallsCount
  <2>3. QED
    BY <2>2 DEF LocksCounted, Inside
<1>2. PrtosSpec => []LocksCounted
  <2>1. KernelInv /\ DozesInSleep /\ LocksCounted /\ [PrtosNext]_prtosVars => LocksCounted'
    BY LocksStep
  <2>2. QED
    BY <2>1, LocksInit, KernelInvariant, DozeInvariant, PTL DEF PrtosSpec
<1>3. QED
  BY <1>1, <1>2, KernelInvariant, PTL

----------------------------------------------------------------------------
(* The message queue implements Fifo. *)

\* The messages in the ring, in order: what Queue has for chan.
Chan == [i \in 1 .. filled |-> buf[(head + i - 1) % Depth]]

LEMMA ChanIsRing == Chan = InRingOrder(buf, head, filled, Depth)
  BY DEF Chan, InRingOrder

LEMMA ChanNextIsRing == Chan' = InRingOrder(buf', head', filled', Depth)
  BY DEF Chan, InRingOrder

LEMMA QueueInit == PrtosInit => Queue!Init
<1> SUFFICES ASSUME PrtosInit
             PROVE  Queue!Init
  OBVIOUS
<1>1. Chan = <<>>
  BY DEF PrtosInit, Chan
<1>2. last = [t \in Tasks |-> 0]
  BY DEF PrtosInit, Nothing
<1>3. QED
  BY <1>1, <1>2 DEF Chan, Queue!Init, Queue!Nothing

\* A step that leaves the ring alone leaves its contents alone.
LEMMA QueueIdle ==
    ASSUME UNCHANGED queueVars
    PROVE  UNCHANGED <<Chan, last>>
  BY DEF queueVars, Chan

LEMMA QueueSend ==
    ASSUME KernelInv, NEW t \in Tasks, Send(t), filled < Depth
    PROVE  Queue!Next
<1>1. Depth \in Nat \ {0} /\ filled \in 0 .. Depth - 1 /\ head \in 0 .. Depth - 1
  BY PrtosAssumption DEF KernelInv, PrtosTypeOK
<1>2. PICK m \in Messages : m = work.program[t][ip[t]].msg
  BY WorkType DEF Send, KernelInv, AtCall, Returned
<1>3. /\ buf' = [buf EXCEPT ![(head + filled) % Depth] = m]
      /\ filled' = filled + 1 /\ head' = head /\ last' = last
  BY <1>1, <1>2 DEF Send, Tail_Slot
<1>4. Chan' = Append(Chan, m) /\ Len(Chan) = filled
  <2> DEFINE S == Messages \cup {Nothing}
  <2>1. m \in S /\ buf \in [0 .. Depth - 1 -> S] /\ filled \in 0 .. Depth
    BY <1>1 DEF KernelInv, PrtosTypeOK
  <2> HIDE DEF S
  <2>2. InRingOrder(buf', head, filled', Depth) = Append(InRingOrder(buf, head, filled, Depth), m)
    <3>1. (head + filled) % Depth \in 0 .. Depth - 1
      BY <1>1, ModRange
    <3>2. /\ buf' \in [0 .. Depth - 1 -> S]
          /\ \A i \in 0 .. Depth - 1 : i # (head + filled) % Depth => buf'[i] = buf[i]
      BY <1>1, <1>3, <2>1, <3>1
    <3>3. InRingOrder(buf', head, filled + 1, Depth)
            = Append(InRingOrder(buf, head, filled, Depth), buf'[(head + filled) % Depth])
      BY <1>1, <2>1, <3>2, RingPut
    <3>4. buf'[(head + filled) % Depth] = m
      BY <1>3, <2>1, <3>1
    <3>5. QED
      BY <1>3, <3>3, <3>4
  <2>3. Len(InRingOrder(buf, head, filled, Depth)) = filled
    BY <1>1, <2>1, RingType, SMTT(30)
  <2>4. QED
    BY <1>3, <2>2, <2>3, ChanIsRing, ChanNextIsRing
<1>5. Queue!Send(m)
  BY <1>1, <1>3, <1>4 DEF Queue!Send, Chan
<1>6. QED
  BY <1>5 DEF Queue!Next

LEMMA QueueReceive ==
    ASSUME KernelInv, NEW t \in Tasks, Receive(t), filled > 0
    PROVE  Queue!Next
<1>1. Depth \in Nat \ {0} /\ filled \in 1 .. Depth /\ head \in 0 .. Depth - 1
  BY PrtosAssumption DEF KernelInv, PrtosTypeOK
<1>2. buf \in [0 .. Depth - 1 -> Messages \cup {Nothing}]
  BY DEF KernelInv, PrtosTypeOK
<1>3. /\ last' = [last EXCEPT ![t] = buf[head]]
      /\ head' = (head + 1) % Depth /\ filled' = filled - 1 /\ buf' = buf
  BY <1>1 DEF Receive, Next_Head
<1>4. Chan # <<>> /\ Chan' = Tail(Chan) /\ Head(Chan) = buf[head]
  BY <1>1, <1>2, <1>3, RingTake, ChanIsRing, ChanNextIsRing
<1>5. Queue!Receive(t)
  BY <1>3, <1>4 DEF Queue!Receive, Chan
<1>6. QED
  BY <1>5 DEF Queue!Next

LEMMA QueueStep == KernelInv /\ [PrtosNext]_prtosVars => [Queue!Next]_<<Chan, last>>
<1> SUFFICES ASSUME KernelInv, [PrtosNext]_prtosVars
             PROVE  Queue!Next \/ UNCHANGED <<Chan, last>>
  OBVIOUS
<1>1. Depth \in Nat \ {0} /\ filled \in 0 .. Depth
  BY PrtosAssumption DEF KernelInv, PrtosTypeOK
<1>2. CASE Isr \/ RunReturns \/ UNCHANGED prtosVars \/ \E t \in Tasks : Elapse(t)
  BY <1>2, QueueIdle DEF Isr, RunReturns, Elapse, prtosVars
<1>3. ASSUME NEW t \in Tasks, Send(t)
      PROVE  Queue!Next \/ UNCHANGED <<Chan, last>>
  <2>1. CASE filled < Depth
    BY <1>3, <2>1, QueueSend
  <2>2. CASE filled = Depth
    <3>1. UNCHANGED queueVars
      BY <1>1, <1>3, <2>2 DEF Send, queueVars
    <3>2. QED
      BY <3>1, QueueIdle
  <2>3. QED
    BY <1>1, <2>1, <2>2
<1>4. ASSUME NEW t \in Tasks, Receive(t)
      PROVE  Queue!Next \/ UNCHANGED <<Chan, last>>
  <2>1. CASE filled > 0
    BY <1>4, <2>1, QueueReceive
  <2>2. CASE filled = 0
    <3>1. UNCHANGED queueVars
      BY <1>4, <2>2 DEF Receive, queueVars
    <3>2. QED
      BY <3>1, QueueIdle
  <2>3. QED
    BY <1>1, <2>1, <2>2
<1>5. ASSUME NEW t \in Tasks,
             \/ MutexLock(t) \/ MutexUnlock(t) \/ Sleep(t) \/ Doze(t) \/ Yield(t)
             \/ Exit(t) \/ ForceIsr(t)
      PROVE  UNCHANGED <<Chan, last>>
  BY <1>5, QueueIdle DEF MutexLock, MutexUnlock, Sleep, Doze, Yield, Exit, ForceIsr
<1>6. QED
  BY <1>2, <1>3, <1>4, <1>5 DEF PrtosNext, TaskStep

\* The ring with its head and its count is a FIFO of bounded length: every
\* message sent is received once, in order, whoever was woken or barged in
\* between, for every depth and every workload.
THEOREM PrtosQueueIsFifo == PrtosSpec => QueueIsFifo
<1>1. PrtosInit => Queue!Init
  BY QueueInit
<1>2. KernelInv /\ [PrtosNext]_prtosVars => [Queue!Next]_<<Chan, last>>
  BY QueueStep
<1>3. QED
  BY <1>1, <1>2, KernelInvariant, PTL DEF PrtosSpec, QueueIsFifo, Queue!Spec, Chan

----------------------------------------------------------------------------
(* No wake-up is lost. *)

LEMMA WokenFinite ==
    ASSUME NEW k
    PROVE  IsFiniteSet(Woken(k)) /\ Cardinality(Woken(k)) \in Nat
<1>1. IsFiniteSet(Tasks)
  BY PrtosAssumption, FS_Interval DEF Tasks, MaxTasks
<1>2. QED
  BY <1>1, FS_Subset, FS_CardinalityType DEF Woken

LEMMA WokenNextFinite ==
    ASSUME NEW k
    PROVE  IsFiniteSet(Woken(k)') /\ Cardinality(Woken(k)') \in Nat
<1>1. IsFiniteSet(Tasks)
  BY PrtosAssumption, FS_Interval DEF Tasks, MaxTasks
<1>2. QED
  BY <1>1, FS_Subset, FS_CardinalityType DEF Woken

\* A step of t takes no other task out of those that are on their way.
LEMMA OthersWoken ==
    ASSUME KernelInv, NEW t \in Tasks, NEW k \in Blocking,
           work' = work,
           \A u \in Tasks \ {t} : /\ state[u] = "ready" => state'[u] = "ready"
                                  /\ ip'[u] = ip[u] /\ place'[u] = place[u]
    PROVE  Woken(k) \ {t} \subseteq Woken(k)'
  BY DEF Woken, AtCall, Returned

\* Waking the first of a list adds it to those on their way.
LEMMA WakeAdds ==
    ASSUME KernelInv, NEW t \in Tasks, NEW k \in Blocking, state[t] = "ready",
           Wake(k), waiters[k] # <<>>, Return(t), work' = work
    PROVE  \E h \in Tasks : h # t /\ h \notin Woken(k) /\ h \in Woken(k)'
<1>1. waiters[k] \in Seq(Tasks) /\ 1 \in 1 .. Len(waiters[k])
  BY DEF KernelInv, PrtosTypeOK
<1>2. PICK h \in Tasks : h = waiters[k][1] /\ h = Head(waiters[k])
  BY <1>1
<1>3. state[h] = "blocked" /\ place[h] \in {"blocked", "retry"} /\ AtCall(h, k)
  BY <1>1, <1>2 DEF KernelInv, WaitersParked
<1>4. h # t /\ h \notin Woken(k)
  BY <1>3 DEF Woken
<1>5. state' = [state EXCEPT ![h] = "ready"]
  BY <1>1, <1>2 DEF Wake, ToWake
<1>6. state'[h] = "ready" /\ ip'[h] = ip[h] /\ place'[h] = place[h]
  BY <1>4, <1>5 DEF Return, KernelInv, PrtosTypeOK
<1>7. h \in Woken(k)'
  BY <1>3, <1>6 DEF Woken, AtCall, Returned
<1>8. QED
  BY <1>4, <1>7

\* How their number changes.
LEMMA WokenCount ==
    ASSUME NEW k
    PROVE  /\ Woken(k) \subseteq Woken(k)' => Cardinality(Woken(k)) <= Cardinality(Woken(k)')
           /\ \A t : Woken(k) \ {t} \subseteq Woken(k)'
                     => Cardinality(Woken(k)) <= Cardinality(Woken(k)') + 1
           /\ \A h : h \notin Woken(k) /\ h \in Woken(k)' /\ Woken(k) \subseteq Woken(k)'
                     => Cardinality(Woken(k)) + 1 <= Cardinality(Woken(k)')
<1> DEFINE old == Woken(k)
           new == Woken(k)'
<1>1. /\ IsFiniteSet(old) /\ Cardinality(old) \in Nat
      /\ IsFiniteSet(new) /\ Cardinality(new) \in Nat
  BY WokenFinite, WokenNextFinite
<1> HIDE DEF old, new
<1>2. old \subseteq new => Cardinality(old) <= Cardinality(new)
  BY <1>1, FS_Subset
<1>3. ASSUME NEW t, old \ {t} \subseteq new
      PROVE  Cardinality(old) <= Cardinality(new) + 1
  <2>1. old \subseteq new \cup {t} /\ IsFiniteSet(new \cup {t})
    BY <1>1, <1>3, FS_AddElement
  <2>2. Cardinality(new \cup {t}) <= Cardinality(new) + 1 /\ Cardinality(new \cup {t}) \in Nat
    <3>1. Cardinality(new \cup {t}) = IF t \in new THEN Cardinality(new) ELSE Cardinality(new) + 1
      BY <1>1, FS_AddElement, Zenon
    <3>2. QED
      BY <1>1, <3>1
  <2>3. Cardinality(old) <= Cardinality(new \cup {t})
    BY <2>1, FS_Subset
  <2>4. QED
    BY <1>1, <2>2, <2>3
<1>4. ASSUME NEW h, h \notin old, h \in new, old \subseteq new
      PROVE  Cardinality(old) + 1 <= Cardinality(new)
  <2>1. Cardinality(old \cup {h}) = Cardinality(old) + 1
    BY <1>1, <1>4, FS_AddElement
  <2>2. old \cup {h} \subseteq new
    BY <1>4
  <2>3. QED
    BY <1>1, <2>1, <2>2, FS_Subset
<1>5. QED
  BY <1>2, <1>3, <1>4 DEF old, new

\* Steps that neither wait, wake nor take.
LEMMA WakeupsIdle ==
    ASSUME NoLostWakeup, UNCHANGED <<waiters, locked, filled>>, KernelInv,
           \A k \in Blocking : Woken(k) \subseteq Woken(k)'
    PROVE  NoLostWakeup'
<1>1. \A k \in Blocking : /\ Cardinality(Woken(k)) \in Nat /\ Cardinality(Woken(k)') \in Nat
                          /\ Cardinality(Woken(k)) <= Cardinality(Woken(k)')
  BY WokenCount, WokenFinite, WokenNextFinite
<1>2. Depth \in Nat /\ filled \in Nat
  BY PrtosAssumption DEF KernelInv, PrtosTypeOK
<1>3. {"lock", "recv", "send"} = Blocking
  BY DEF Blocking
<1>4. QED
  BY <1>1, <1>2, <1>3 DEF NoLostWakeup

\* What a step of t leaves the other tasks.
OthersLeft(t) ==
    \A u \in Tasks \ {t} : /\ state[u] = "ready" => state'[u] = "ready"
                           /\ ip'[u] = ip[u] /\ place'[u] = place[u]

LEMMA CallersLeave ==
    ASSUME KernelInv, NEW t \in Tasks
    PROVE  /\ \A k \in Blocking : Block(t, k) \/ (Wake(k) /\ Return(t)) => OthersLeft(t)
           /\ state' = state /\ Return(t) => OthersLeft(t)
<1>1. ASSUME NEW k \in Blocking, Block(t, k)
      PROVE  OthersLeft(t)
  BY <1>1 DEF Block, OthersLeft, KernelInv, PrtosTypeOK
<1>2. ASSUME NEW k \in Blocking, Wake(k), Return(t)
      PROVE  OthersLeft(t)
  <2>1. \A u \in Tasks : state[u] = "ready" => state'[u] = "ready"
    BY <1>2 DEF Wake, KernelInv, PrtosTypeOK
  <2>2. QED
    BY <1>2, <2>1 DEF Return, OthersLeft, KernelInv, PrtosTypeOK
<1>3. ASSUME state' = state, Return(t)
      PROVE  OthersLeft(t)
  BY <1>3 DEF Return, OthersLeft, KernelInv, PrtosTypeOK
<1>4. QED
  BY <1>1, <1>2, <1>3

\* A task at call c can be on its way to that one only.
LEMMA CallerWoken ==
    ASSUME KernelInv, NEW t \in Tasks, NEW c \in Services, AtCall(t, c), work' = work, OthersLeft(t)
    PROVE  \A k \in Blocking : /\ Woken(k) \ {t} \subseteq Woken(k)'
                               /\ k # c => Woken(k) \subseteq Woken(k)'
<1>1. \A k \in Blocking : Woken(k) \ {t} \subseteq Woken(k)'
  BY OthersWoken DEF OthersLeft
<1>2. \A k \in Blocking : k # c => t \notin Woken(k)
  BY DEF Woken, AtCall
<1>3. QED
  BY <1>1, <1>2

LEMMA LockWakeups ==
    ASSUME KernelInv, NoLostWakeup, NEW t \in Tasks, MutexLock(t)
    PROVE  NoLostWakeup'
<1>1. AtCall(t, "lock") /\ work' = work /\ filled' = filled
  BY DEF MutexLock, In, queueVars
<1>2. OthersLeft(t)
  BY CallersLeave DEF MutexLock, Blocking
<1>3. \A k \in {"recv", "send"} : /\ Cardinality(Woken(k)) \in Nat /\ Cardinality(Woken(k)') \in Nat
                                  /\ Cardinality(Woken(k)) <= Cardinality(Woken(k)')
                                  /\ waiters'[k] = waiters[k]
  <2>1. \A k \in {"recv", "send"} : Woken(k) \subseteq Woken(k)'
    <3>1. \A k \in Blocking : k # "lock" => Woken(k) \subseteq Woken(k)'
      <4>1. "lock" \in Services
        BY DEF Services, Blocking
      <4>2. QED
        BY <1>1, <1>2, <4>1, CallerWoken
    <3>2. QED
      BY <3>1 DEF Blocking
  <2>2. \A k \in {"recv", "send"} : waiters'[k] = waiters[k]
    BY DEF MutexLock, Block, KernelInv, PrtosTypeOK, Blocking
  <2>3. QED
    BY <2>1, <2>2, WokenCount, WokenFinite, WokenNextFinite
<1>4. locked'
  BY DEF MutexLock, mutexVars, KernelInv, PrtosTypeOK
<1>5. Depth \in Nat /\ filled \in Nat
  BY PrtosAssumption DEF KernelInv, PrtosTypeOK
<1>6. QED
  BY <1>1, <1>3, <1>4, <1>5 DEF NoLostWakeup

\* What the two kinds of list are after a Wake.
LEMMA WakeLists ==
    ASSUME KernelInv, NEW k \in Blocking, Wake(k)
    PROVE  /\ \A c \in Blocking \ {k} : waiters'[c] = waiters[c]
           /\ waiters[k] = <<>> => waiters'[k] = <<>>
  BY DEF Wake, ToWake, KernelInv, PrtosTypeOK

LEMMA UnlockWakeups ==
    ASSUME KernelInv, NoLostWakeup, NEW t \in Tasks, MutexUnlock(t)
    PROVE  NoLostWakeup'
<1>1. /\ AtCall(t, "unlock") /\ work' = work /\ filled' = filled /\ state[t] = "ready"
      /\ Wake("lock") /\ Return(t) /\ "lock" \in Blocking
  BY CallerReady DEF MutexUnlock, In, queueVars, Blocking
<1>2. OthersLeft(t)
  BY <1>1, CallersLeave
<1>3. \A k \in {"recv", "send"} : /\ Cardinality(Woken(k)) \in Nat /\ Cardinality(Woken(k)') \in Nat
                                  /\ Cardinality(Woken(k)) <= Cardinality(Woken(k)')
                                  /\ waiters'[k] = waiters[k]
  <2>1. \A k \in {"recv", "send"} : Woken(k) \subseteq Woken(k)'
    <3>1. \A k \in Blocking : k # "unlock" => Woken(k) \subseteq Woken(k)'
      <4>1. "unlock" \in Services
        BY DEF Services, Blocking
      <4>2. QED
        BY <1>1, <1>2, <4>1, CallerWoken
    <3>2. QED
      BY <3>1 DEF Blocking
  <2>2. \A k \in {"recv", "send"} : waiters'[k] = waiters[k]
    BY <1>1, WakeLists DEF Blocking
  <2>3. QED
    BY <2>1, <2>2, WokenCount, WokenFinite, WokenNextFinite
<1>4. waiters'["lock"] # <<>> => Woken("lock")' # {}
  <2>1. waiters'["lock"] # <<>> => waiters["lock"] # <<>>
    BY <1>1, WakeLists
  <2>2. QED
    BY <1>1, <2>1, WakeAdds
<1>5. Depth \in Nat /\ filled \in Nat
  BY PrtosAssumption DEF KernelInv, PrtosTypeOK
<1>6. QED
  BY <1>1, <1>3, <1>4, <1>5 DEF NoLostWakeup

\* A task takes one of what call mine waits for, and so makes one of what call
\* other waits for.
LEMMA ExchangeWakes ==
    ASSUME KernelInv, NEW t \in Tasks, state[t] = "ready", work' = work,
           NEW mine \in Blocking, NEW other \in Blocking \ {mine}, AtCall(t, mine),
           Wake(other), Return(t)
    PROVE  /\ Cardinality(Woken(mine)) <= Cardinality(Woken(mine)') + 1
           /\ waiters[other] # <<>> => Cardinality(Woken(other)) + 1 <= Cardinality(Woken(other)')
           /\ \A k \in Blocking \ {other} : waiters'[k] = waiters[k]
           /\ waiters[other] = <<>> => waiters'[other] = <<>>
           /\ \A k \in Blocking \ {mine} : Woken(k) \subseteq Woken(k)'
<1>1. mine \in Services /\ OthersLeft(t)
  BY CallersLeave DEF Services
<1>2. Woken(mine) \ {t} \subseteq Woken(mine)'
  BY <1>1, CallerWoken
<1>3. \A k \in Blocking \ {mine} : Woken(k) \subseteq Woken(k)'
  BY <1>1, CallerWoken
<1>4. Cardinality(Woken(mine)) <= Cardinality(Woken(mine)') + 1
  BY <1>2, WokenCount
<1>5. ASSUME waiters[other] # <<>>
      PROVE  Cardinality(Woken(other)) + 1 <= Cardinality(Woken(other)')
  <2>1. PICK h \in Tasks : h \notin Woken(other) /\ h \in Woken(other)'
    BY <1>5, WakeAdds
  <2>2. QED
    BY <1>3, <2>1, WokenCount
<1>6. QED
  BY <1>3, <1>4, <1>5, WakeLists

\* A task that blocks, and takes nothing.
LEMMA BlockWakes ==
    ASSUME KernelInv, NEW t \in Tasks, work' = work, NEW mine \in Blocking, AtCall(t, mine),
           Block(t, mine)
    PROVE  \A k \in Blocking \ {mine} :
              Woken(k) \subseteq Woken(k)' /\ waiters'[k] = waiters[k]
<1>1. mine \in Services /\ OthersLeft(t)
  BY CallersLeave DEF Services
<1>2. \A k \in Blocking \ {mine} : Woken(k) \subseteq Woken(k)'
  BY <1>1, CallerWoken
<1>3. \A k \in Blocking \ {mine} : waiters'[k] = waiters[k]
  BY DEF Block, KernelInv, PrtosTypeOK
<1>4. QED
  BY <1>2, <1>3

LEMMA SendWakeups ==
    ASSUME KernelInv, NoLostWakeup, NEW t \in Tasks, Send(t)
    PROVE  NoLostWakeup'
<1>1. /\ AtCall(t, "send") /\ work' = work /\ locked' = locked /\ state[t] = "ready"
      /\ Blocking = {"lock", "send", "recv"}
  BY CallerReady DEF Send, In, mutexVars, Blocking
<1>2. \A k \in Blocking : Cardinality(Woken(k)) \in Nat /\ Cardinality(Woken(k)') \in Nat
  BY WokenFinite, WokenNextFinite
<1>3. Depth \in Nat /\ filled \in 0 .. Depth
  BY PrtosAssumption DEF KernelInv, PrtosTypeOK
<1>4. CASE filled < Depth
  <2>1. Wake("recv") /\ Return(t) /\ filled' = filled + 1
    BY <1>3, <1>4 DEF Send
  <2>2. /\ Cardinality(Woken("send")) <= Cardinality(Woken("send")') + 1
        /\ waiters["recv"] # <<>> => Cardinality(Woken("recv")) + 1 <= Cardinality(Woken("recv")')
        /\ waiters'["lock"] = waiters["lock"] /\ waiters'["send"] = waiters["send"]
        /\ waiters["recv"] = <<>> => waiters'["recv"] = <<>>
        /\ Woken("lock") \subseteq Woken("lock")'
    BY <1>1, <2>1, ExchangeWakes
  <2>3. QED
    BY <1>1, <1>2, <1>3, <2>1, <2>2 DEF NoLostWakeup
<1>5. CASE filled = Depth
  <2>1. Block(t, "send") /\ filled' = filled
    BY <1>3, <1>5 DEF Send
  <2>2. \A k \in {"lock", "recv"} : Woken(k) \subseteq Woken(k)' /\ waiters'[k] = waiters[k]
    BY <1>1, <2>1, BlockWakes
  <2>3. Cardinality(Woken("recv")) <= Cardinality(Woken("recv")')
    BY <2>2, WokenCount
  <2>4. QED
    BY <1>1, <1>2, <1>3, <1>5, <2>1, <2>2, <2>3 DEF NoLostWakeup
<1>6. QED
  BY <1>3, <1>4, <1>5

LEMMA ReceiveWakeups ==
    ASSUME KernelInv, NoLostWakeup, NEW t \in Tasks, Receive(t)
    PROVE  NoLostWakeup'
<1>1. /\ AtCall(t, "recv") /\ work' = work /\ locked' = locked /\ state[t] = "ready"
      /\ Blocking = {"lock", "send", "recv"}
  BY CallerReady DEF Receive, In, mutexVars, Blocking
<1>2. \A k \in Blocking : Cardinality(Woken(k)) \in Nat /\ Cardinality(Woken(k)') \in Nat
  BY WokenFinite, WokenNextFinite
<1>3. Depth \in Nat /\ filled \in 0 .. Depth
  BY PrtosAssumption DEF KernelInv, PrtosTypeOK
<1>4. CASE filled > 0
  <2>1. Wake("send") /\ Return(t) /\ filled' = filled - 1
    BY <1>3, <1>4 DEF Receive
  <2>2. /\ Cardinality(Woken("recv")) <= Cardinality(Woken("recv")') + 1
        /\ waiters["send"] # <<>> => Cardinality(Woken("send")) + 1 <= Cardinality(Woken("send")')
        /\ waiters'["lock"] = waiters["lock"] /\ waiters'["recv"] = waiters["recv"]
        /\ waiters["send"] = <<>> => waiters'["send"] = <<>>
        /\ Woken("lock") \subseteq Woken("lock")'
    BY <1>1, <2>1, ExchangeWakes
  <2>3. QED
    BY <1>1, <1>2, <1>3, <2>1, <2>2 DEF NoLostWakeup
<1>5. CASE filled = 0
  <2>1. Block(t, "recv") /\ filled' = filled
    BY <1>3, <1>5 DEF Receive
  <2>2. \A k \in {"lock", "send"} : Woken(k) \subseteq Woken(k)' /\ waiters'[k] = waiters[k]
    BY <1>1, <2>1, BlockWakes
  <2>3. Cardinality(Woken("send")) <= Cardinality(Woken("send")')
    BY <2>2, WokenCount
  <2>4. QED
    BY <1>1, <1>2, <1>3, <1>5, <2>1, <2>2, <2>3 DEF NoLostWakeup
<1>6. QED
  BY <1>3, <1>4, <1>5

\* Steps outside the blocking calls take no task off its way.
LEMMA AsideWoken ==
    ASSUME KernelInv,
           \/ Isr \/ RunReturns \/ UNCHANGED prtosVars
           \/ \E t \in Tasks : Sleep(t) \/ Doze(t) \/ Yield(t) \/ Exit(t) \/ ForceIsr(t) \/ Elapse(t)
    PROVE  /\ UNCHANGED <<waiters, locked, filled>>
           /\ \A k \in Blocking : Woken(k) \subseteq Woken(k)'
<1>1. UNCHANGED <<waiters, locked, filled, work>>
  BY DEF Isr, RunReturns, prtosVars, Sleep, Doze, Yield, Exit, ForceIsr, Elapse, In, mutexVars,
         queueVars
<1>2. ASSUME NEW u \in Tasks, state[u] = "ready", place[u] \in {"blocked", "retry"}
      PROVE  state'[u] = "ready" /\ place'[u] \in {"blocked", "retry"} /\ ip'[u] = ip[u]
  <2>1. CASE Isr \/ RunReturns \/ UNCHANGED prtosVars \/ \E t \in Tasks : Elapse(t)
    BY <1>2, <2>1 DEF Isr, Awoken, RunReturns, Elapse, prtosVars, taskVars
  <2>2. ASSUME NEW t \in Tasks, Sleep(t) \/ Doze(t) \/ Yield(t) \/ Exit(t)
        PROVE  state'[u] = "ready" /\ place'[u] \in {"blocked", "retry"} /\ ip'[u] = ip[u]
    <3>1. place[t] \in {"call", "doze"}
      BY <2>2 DEF Sleep, Doze, Yield, Exit, In
    <3>2. u # t
      BY <1>2, <3>1
    <3>3. QED
      BY <1>2, <2>2, <3>2 DEF Sleep, Return, Doze, Yield, Exit, KernelInv, PrtosTypeOK
  <2>3. ASSUME NEW t \in Tasks, ForceIsr(t)
        PROVE  state'[u] = "ready" /\ place'[u] \in {"blocked", "retry"} /\ ip'[u] = ip[u]
    BY <1>2, <2>3 DEF ForceIsr, In, KernelInv, PrtosTypeOK
  <2>4. QED
    BY <2>1, <2>2, <2>3
<1>3. \A k \in Blocking : Woken(k) \subseteq Woken(k)'
  BY <1>1, <1>2 DEF Woken, AtCall, Returned
<1>4. QED
  BY <1>1, <1>3

LEMMA WakeupsStep == KernelInv /\ NoLostWakeup /\ [PrtosNext]_prtosVars => NoLostWakeup'
<1> SUFFICES ASSUME KernelInv, NoLostWakeup, [PrtosNext]_prtosVars
             PROVE  NoLostWakeup'
  OBVIOUS
<1>1. CASE \/ Isr \/ RunReturns \/ UNCHANGED prtosVars
           \/ \E t \in Tasks : Sleep(t) \/ Doze(t) \/ Yield(t) \/ Exit(t) \/ ForceIsr(t) \/ Elapse(t)
  <2>1. /\ UNCHANGED <<waiters, locked, filled>>
        /\ \A k \in Blocking : Woken(k) \subseteq Woken(k)'
    BY <1>1, AsideWoken
  <2>2. QED
    BY <2>1, WakeupsIdle
<1>2. CASE \E t \in Tasks : MutexLock(t) \/ MutexUnlock(t) \/ Send(t) \/ Receive(t)
  BY <1>2, LockWakeups, UnlockWakeups, SendWakeups, ReceiveWakeups
<1>3. QED
  BY <1>1, <1>2 DEF PrtosNext, TaskStep

\* While a task waits for the mutex, a message or a free slot, what it waits
\* for is taken, or enough woken tasks are on their way to take it: a wake-up
\* is lost neither to an interrupt between the steps of a call nor to a task
\* that barges in before the woken one retries.
THEOREM PrtosNoLostWakeup == PrtosSpec => []NoLostWakeup
<1>1. PrtosInit => NoLostWakeup
  BY DEF PrtosInit, NoLostWakeup, Blocking
<1>2. QED
  BY <1>1, WakeupsStep, KernelInvariant, PTL DEF PrtosSpec


----------------------------------------------------------------------------
(* Threads: where a call of pthread_create stands.  It has its slot from the *)
(* search to the end of its join, and passes through four stages.           *)

Occupies(c) == phase[c] \in {"live", "done"} \/ (mpc = "reset" /\ mcall = c)

\* The hart of slot s is at one of the places P, if the slot has a hart.
HartIn(s, P) == s \in Workers => hpc[s] \in P

\* Hart 0 is filling the entry; nobody looks at what it holds yet.
Filling(c, s) ==
    /\ mpc \in Fields /\ mcall = c /\ phase[c] = "live" /\ tstate[s] = "RUNNING"
    /\ launch[s]["fn"] = NoCall /\ HartIn(s, {"poll"})
    /\ mpc # "tcb" => launch[s]["tcb"] = s
    /\ mpc = "fn" => launch[s]["arg"] = c

\* The entry is full; the hart of the slot may have begun to take it.
Posted(c, s) ==
    /\ phase[c] = "live" /\ tstate[s] = "RUNNING"
    /\ launch[s]["fn"] = c /\ launch[s]["arg"] = c /\ launch[s]["tcb"] = s
    /\ s \in Workers =>
         /\ hpc[s] \in {"poll", "sp", "arg", "tcb", "clear"}
         /\ hpc[s] # "poll" => hreg[s]["fn"] = c
         /\ hpc[s] \in {"tcb", "clear"} => hreg[s]["arg"] = c
         /\ hpc[s] = "clear" => hreg[s]["tcb"] = s

\* The hart has it.
Taken(c, s) ==
    /\ s \in Workers /\ hpc[s] \in {"call", "retval", "done"}
    /\ tstate[s] = "RUNNING" /\ launch[s]["fn"] = NoCall
    /\ hreg[s]["fn"] = c /\ hreg[s]["arg"] = c /\ hreg[s]["tcb"] = s
    /\ phase[c] = IF hpc[s] = "call" THEN "live" ELSE "done"
    /\ hpc[s] = "done" => retval[s] = Answer(c, c)

\* The result is in the TCB.
Ended(c, s) ==
    /\ tstate[s] = "DONE" /\ launch[s]["fn"] = NoCall /\ HartIn(s, {"poll"})
    /\ retval[s] = Answer(c, c)
    /\ phase[c] = IF mpc = "reset" /\ mcall = c THEN "joined" ELSE "done"

FreeSlot(s) == tstate[s] = "IDLE" /\ launch[s]["fn"] = NoCall /\ HartIn(s, {"poll"})

\* A call has a handle from its search on.
HandlesGiven == \A c \in Jobs : phase[c] = "none" <=> handle[c] = NoCall

\* No slot has two calls.
SlotsAlone ==
    \A c, d \in Jobs : Occupies(c) /\ Occupies(d) /\ handle[c] = handle[d] => c = d

Stage(c, s) == Filling(c, s) \/ Posted(c, s) \/ Taken(c, s) \/ Ended(c, s)

Staged == \A c \in Jobs, s \in Slots : Occupies(c) /\ handle[c] = s => Stage(c, s)

SlotsLeftFree ==
    \A s \in Slots : (\A c \in Jobs : Occupies(c) => handle[c] # s) => FreeSlot(s)

\* What the main thread is in the middle of.
MainInCall ==
    /\ mpc # "idle" => mcall \in Jobs /\ handle[mcall] \in Slots
    /\ mpc \in {"spin", "result"} => phase[mcall] \in {"live", "done"}
    /\ \A c \in Jobs, s \in Slots : mcall = c /\ handle[c] = s =>
          /\ mpc \in Fields => Filling(c, s)
          /\ mpc \in {"result", "reset"} => Ended(c, s)

PoolInv ==
    /\ ThreadsTypeOK
    /\ HandlesGiven /\ SlotsAlone /\ Staged /\ SlotsLeftFree /\ MainInCall

LEMMA PoolBegins == ThreadsInit => PoolInv
<1> SUFFICES ASSUME ThreadsInit
             PROVE  PoolInv
  OBVIOUS
<1> USE DEF ThreadsInit
<1>1. ThreadsTypeOK
  BY ThreadsAssumption DEF ThreadsTypeOK, NoAnswer, Answer, Answers, EmptyEntry, Entries,
     MainPlaces, HartPlaces
<1>2. \A c \in Jobs : ~Occupies(c)
  BY DEF Occupies
<1>3. \A s \in Slots : FreeSlot(s)
  BY ThreadsAssumption DEF FreeSlot, HartIn, EmptyEntry, Fields
<1>4. HandlesGiven
  BY DEF HandlesGiven
<1>5. MainInCall
  BY DEF MainInCall, Fields
<1>6. QED
  BY <1>1, <1>2, <1>3, <1>4, <1>5 DEF PoolInv, SlotsAlone, Staged, SlotsLeftFree

LEMMA OccupierPlaced ==
    ASSUME PoolInv, NEW c \in Jobs, Occupies(c)
    PROVE  handle[c] \in Slots
<1>1. handle[c] \in Slots \cup {NoCall}
  BY DEF PoolInv, ThreadsTypeOK
<1>2. CASE phase[c] \in {"live", "done"}
  BY <1>1, <1>2 DEF PoolInv, HandlesGiven
<1>3. CASE mpc = "reset" /\ mcall = c
  BY <1>3 DEF PoolInv, MainInCall
<1>4. QED
  BY <1>2, <1>3 DEF Occupies

\* A hart that is not polling, or finds an entry, serves a call.
LEMMA HartServes ==
    ASSUME PoolInv, NEW h \in Workers, hpc[h] # "poll" \/ launch[h]["fn"] # NoCall
    PROVE  \E c \in Jobs : Occupies(c) /\ handle[c] = h /\ (Posted(c, h) \/ Taken(c, h))
<1>1. h \in Slots
  BY ThreadsAssumption
<1>2. ~FreeSlot(h)
  BY DEF FreeSlot, HartIn
<1>3. PICK c \in Jobs : Occupies(c) /\ handle[c] = h
  BY <1>1, <1>2 DEF PoolInv, SlotsLeftFree
<1>4. Filling(c, h) \/ Posted(c, h) \/ Taken(c, h) \/ Ended(c, h)
  BY <1>1, <1>3 DEF PoolInv, Staged, Stage
<1>5. ~Filling(c, h) /\ ~Ended(c, h)
  BY DEF Filling, Ended, HartIn
<1>6. QED
  BY <1>3, <1>4, <1>5

\* A step that moves one call leaves the others where they are.
Alone(c, s) ==
    /\ \A d \in Jobs \ {c} : phase'[d] = phase[d] /\ handle'[d] = handle[d]
    /\ \A u \in Slots \ {s} :
          tstate'[u] = tstate[u] /\ retval'[u] = retval[u] /\ launch'[u] = launch[u]
    /\ \A u \in Workers \ {s} : hpc'[u] = hpc[u] /\ hreg'[u] = hreg[u]
    /\ \/ UNCHANGED <<mpc, mcall>>
       \/ mcall' = c /\ (mpc = "idle" \/ mcall = c)

LEMMA OthersStay ==
    ASSUME PoolInv, NEW c \in Jobs, NEW s \in Slots, Alone(c, s),
           \A d \in Jobs \ {c} : Occupies(d) => handle[d] # s, Occupies(c) => handle[c] = s,
           ThreadsTypeOK', MainInCall', handle'[c] = s, phase'[c] # "none",
           IF Occupies(c)'
           THEN Stage(c, s)' ELSE FreeSlot(s)'
    PROVE  PoolInv'
<1>1. \A d \in Jobs \ {c} : (Occupies(d)' <=> Occupies(d)) /\ handle'[d] = handle[d]
                            /\ phase'[d] = phase[d]
  BY DEF Occupies, Alone
<1>2. HandlesGiven'
  <2>1. s # NoCall
    BY ThreadsAssumption
  <2>2. QED
    BY <1>1, <2>1 DEF HandlesGiven, PoolInv
<1>3. SlotsAlone'
  <2> SUFFICES ASSUME NEW d \in Jobs, NEW e \in Jobs, Occupies(d)', Occupies(e)',
                      handle'[d] = handle'[e]
               PROVE  d = e
    BY DEF SlotsAlone
  <2>1. CASE d # c /\ e # c
    BY <1>1, <2>1 DEF PoolInv, SlotsAlone
  <2>2. CASE d = c \/ e = c
    BY <1>1, <2>2
  <2>3. QED
    BY <2>1, <2>2
<1>4. Staged'
  <2> SUFFICES ASSUME NEW d \in Jobs, NEW u \in Slots, Occupies(d)', handle'[d] = u
               PROVE  Stage(d, u)'
    BY DEF Staged
  <2>1. CASE d = c
    BY <2>1
  <2>2. CASE d # c
    <3>1. Occupies(d) /\ handle[d] = u /\ u # s /\ phase'[d] = phase[d]
      BY <1>1, <2>2
    <3>2. Stage(d, u)
      BY <3>1 DEF PoolInv, Staged
    <3>3. mpc \in Fields => mpc # "idle"
      BY DEF Fields
    <3>4. /\ tstate'[u] = tstate[u] /\ retval'[u] = retval[u] /\ launch'[u] = launch[u]
          /\ u \in Workers => hpc'[u] = hpc[u] /\ hreg'[u] = hreg[u]
      BY <3>1 DEF Alone
    <3>5. UNCHANGED <<mpc, mcall>> \/ (mcall' = c /\ mcall' # d /\ (mpc = "idle" \/ mcall # d))
      BY <2>2 DEF Alone
    <3>6. Filling(d, u) => Filling(d, u)'
      BY <3>1, <3>3, <3>4, <3>5 DEF Filling, HartIn
    <3>7. Posted(d, u) => Posted(d, u)'
      BY <3>1, <3>4 DEF Posted
    <3>8. Taken(d, u) => Taken(d, u)'
      BY <3>1, <3>4 DEF Taken
    <3>9. Ended(d, u) => Ended(d, u)'
      BY <3>1, <3>4, <3>5 DEF Ended, HartIn
    <3>10. QED
      BY <3>2, <3>6, <3>7, <3>8, <3>9 DEF Stage
  <2>3. QED
    BY <2>1, <2>2
<1>5. SlotsLeftFree'
  <2> SUFFICES ASSUME NEW u \in Slots, \A d \in Jobs : Occupies(d)' => handle'[d] # u
               PROVE  FreeSlot(u)'
    BY DEF SlotsLeftFree
  <2>1. CASE u = s
    BY <2>1
  <2>2. CASE u # s
    <3>1. ASSUME NEW d \in Jobs, Occupies(d), handle[d] = u
          PROVE  d = c
      BY <1>1, <3>1
    <3>2. \A d \in Jobs : Occupies(d) => handle[d] # u
      BY <2>2, <3>1
    <3>3. FreeSlot(u)
      BY <3>2 DEF PoolInv, SlotsLeftFree
    <3>4. /\ tstate'[u] = tstate[u] /\ launch'[u] = launch[u]
          /\ u \in Workers => hpc'[u] = hpc[u]
      BY <2>2 DEF Alone
    <3>5. QED
      BY <3>3, <3>4 DEF FreeSlot, HartIn
  <2>3. QED
    BY <2>1, <2>2
<1>6. QED
  BY <1>2, <1>3, <1>4, <1>5 DEF PoolInv


\* pthread_create takes a slot that has no call.
LEMMA CreateKeeps ==
    ASSUME PoolInv, NEW c \in Jobs, Create(c)
    PROVE  PoolInv' /\ Pool!Fork(c)
<1>1. PICK s \in Slots : /\ FirstIdle(s)
                         /\ tstate' = [tstate EXCEPT ![s] = "RUNNING"]
                         /\ retval' = [retval EXCEPT ![s] = NoAnswer]
                         /\ handle' = [handle EXCEPT ![c] = s]
  BY DEF Create
<1>2. /\ mpc = "idle" /\ phase[c] = "none" /\ mpc' = "tcb" /\ mcall' = c
      /\ phase' = [phase EXCEPT ![c] = "live"] /\ UNCHANGED <<launch, hpc, hreg, got>>
  BY DEF Create, hart
<1>3. ThreadsTypeOK
  BY DEF PoolInv
<1>4. ThreadsTypeOK'
  <2>1. "tcb" \in MainPlaces /\ NoAnswer \in Answers
    BY DEF MainPlaces, Answers, NoAnswer, Answer
  <2>2. QED
    BY <1>1, <1>2, <1>3, <2>1 DEF ThreadsTypeOK
<1>5. tstate[s] = "IDLE"
  BY <1>1 DEF FirstIdle
<1>6. \A d \in Jobs : Occupies(d) => handle[d] # s
  <2> SUFFICES ASSUME NEW d \in Jobs, Occupies(d), handle[d] = s
               PROVE  FALSE
    OBVIOUS
  <2>1. Stage(d, s)
    BY DEF PoolInv, Staged
  <2>2. QED
    BY <1>5, <2>1 DEF Stage, Filling, Posted, Taken, Ended
<1>7. FreeSlot(s)
  BY <1>6 DEF PoolInv, SlotsLeftFree
<1>8. /\ phase'[c] = "live" /\ handle'[c] = s /\ tstate'[s] = "RUNNING"
  BY <1>1, <1>2, <1>3 DEF ThreadsTypeOK
<1>9. Filling(c, s)'
  BY <1>2, <1>7, <1>8 DEF Filling, FreeSlot, HartIn, Fields
<1>10. MainInCall'
  BY <1>2, <1>8, <1>9 DEF MainInCall, Fields
<1>11. Alone(c, s)
  BY <1>1, <1>2, <1>3 DEF Alone, ThreadsTypeOK
<1>12. /\ ~Occupies(c) /\ Stage(c, s)'
       /\ Occupies(c)'
       /\ phase'[c] # "none"
  BY <1>2, <1>8, <1>9 DEF Occupies, Stage
<1>13. PoolInv'
  <2>1. IF Occupies(c)' THEN Stage(c, s)' ELSE FreeSlot(s)'
    BY <1>12
  <2>2. \A d \in Jobs \ {c} : Occupies(d) => handle[d] # s
    BY <1>6
  <2>3. Occupies(c) => handle[c] = s
    BY <1>12
  <2>4. handle'[c] = s /\ phase'[c] # "none"
    BY <1>8, <1>12
  <2>5. QED
    BY <1>4, <1>10, <1>11, <2>1, <2>2, <2>3, <2>4, OthersStay
<1>14. QED
  BY <1>2, <1>13 DEF Pool!Fork

\* Stores into an entry nobody looks at, and the last one posts it.
LEMMA StoreFieldKeeps ==
    ASSUME PoolInv, StoreField
    PROVE  PoolInv' /\ UNCHANGED <<phase, got>>
<1>0. mpc \in Fields /\ mpc # "idle"
  BY DEF StoreField, Fields
<1>p. PICK c \in Jobs, s \in Slots : c = mcall /\ s = handle[mcall]
  BY <1>0 DEF PoolInv, MainInCall
<1> DEFINE v == IF mpc \in {"fn", "arg"} THEN c ELSE s
<1>1. /\ mpc \in Fields /\ mpc # "idle" /\ mpc' = StoredNext(mpc)
      /\ launch' = [launch EXCEPT ![s][mpc] = v]
      /\ UNCHANGED <<tstate, retval, mcall, handle, hpc, hreg, phase, got>>
  BY <1>0, <1>p DEF StoreField, hart
<1>2. c \in Jobs /\ s \in Slots /\ ThreadsTypeOK
  BY DEF PoolInv
<1>4. handle[c] = s /\ handle'[c] = s /\ mcall = c /\ mcall' = c
  BY <1>1, <1>p
<1>3. Filling(c, s)
  BY <1>1, <1>4 DEF PoolInv, MainInCall
<1>5. phase[c] = "live" /\ phase'[c] = "live"
  BY <1>1, <1>3 DEF Filling
<1>6. /\ launch \in [Slots -> Entries] /\ v \in Jobs \cup Slots \cup {NoCall}
  BY <1>2 DEF ThreadsTypeOK
<1>7. /\ launch' \in [Slots -> Entries]
      /\ \A u \in Slots \ {s} : launch'[u] = launch[u]
      /\ \A f \in Fields : launch'[s][f] = IF f = mpc THEN v ELSE launch[s][f]
  <2>1. launch[s] \in Entries
    BY <1>2, <1>6
  <2>2. [launch[s] EXCEPT ![mpc] = v] \in Entries
    BY <1>6, <2>1 DEF Entries
  <2>3. launch' = [launch EXCEPT ![s] = [launch[s] EXCEPT ![mpc] = v]]
    BY <1>1
  <2> HIDE DEF v
  <2>4. QED
    BY <1>1, <1>2, <1>6, <2>1, <2>2, <2>3 DEF Entries
<1>8. mpc' \in MainPlaces
  BY <1>1 DEF StoredNext, Fields, MainPlaces
<1>9. ThreadsTypeOK'
  BY <1>1, <1>2, <1>7, <1>8 DEF ThreadsTypeOK
<1>10. Alone(c, s)
  BY <1>1, <1>4, <1>7 DEF Alone
<1>11. \A d \in Jobs \ {c} : Occupies(d) => handle[d] # s
  <2>1. Occupies(c)
    BY <1>5 DEF Occupies
  <2>2. QED
    BY <1>2, <1>4, <2>1 DEF PoolInv, SlotsAlone
<1>12. /\ tstate'[s] = "RUNNING" /\ HartIn(s, {"poll"})'
       /\ launch[s]["fn"] = NoCall /\ HartIn(s, {"poll"})
       /\ mpc # "tcb" => launch[s]["tcb"] = s
       /\ mpc = "fn" => launch[s]["arg"] = c
  BY <1>1, <1>3 DEF Filling, HartIn
<1>16. /\ Occupies(c) /\ Occupies(c)'
       /\ phase'[c] # "none"
  BY <1>5 DEF Occupies
<1>13. CASE mpc = "fn"
  <2>1. mpc' = "idle" /\ v = c
    BY <1>1, <1>13 DEF StoredNext
  <2>2. launch'[s]["fn"] = c /\ launch'[s]["arg"] = c /\ launch'[s]["tcb"] = s
    BY <1>7, <1>12, <1>13, <2>1 DEF Fields
  <2>3. Posted(c, s)'
    BY <1>5, <1>12, <2>2 DEF Posted, HartIn
  <2>4. MainInCall'
    BY <2>1 DEF MainInCall, Fields
  <2>5. IF Occupies(c)' THEN Stage(c, s)' ELSE FreeSlot(s)'
    BY <1>16, <2>3 DEF Stage
  <2>6. PoolInv'
    BY <1>4, <1>9, <1>10, <1>11, <1>16, <2>4, <2>5, OthersStay
  <2>7. QED
    BY <1>1, <2>6
<1>14. CASE mpc # "fn"
  <2>1. /\ mpc' \in Fields /\ mpc' # "idle" /\ mpc' \notin {"spin", "result", "reset"}
        /\ mpc' # "tcb"
        /\ mpc' = "sp" => mpc = "tcb"
        /\ mpc' = "fn" => mpc = "arg"
    BY <1>1, <1>14 DEF StoredNext, Fields
  <2>2. launch'[s]["fn"] = NoCall
    BY <1>7, <1>12, <1>14 DEF Fields
  <2>3. launch'[s]["tcb"] = s
    BY <1>7, <1>12 DEF Fields, v
  <2>4. mpc' = "fn" => launch'[s]["arg"] = c
    BY <1>7, <2>1 DEF Fields, v
  <2>5. Filling(c, s)'
    BY <1>4, <1>5, <1>12, <2>1, <2>2, <2>3, <2>4 DEF Filling
  <2>6. MainInCall'
    BY <1>2, <1>4, <2>1, <2>5 DEF MainInCall
  <2>7. IF Occupies(c)' THEN Stage(c, s)' ELSE FreeSlot(s)'
    BY <1>16, <2>5 DEF Stage
  <2>8. PoolInv'
    BY <1>4, <1>9, <1>10, <1>11, <1>16, <2>6, <2>7, OthersStay
  <2>9. QED
    BY <1>1, <2>8
<1>15. QED
  BY <1>13, <1>14

\* Entering a join moves nothing that others see.
LEMMA JoinKeeps ==
    ASSUME PoolInv, NEW c \in Jobs, Join(c)
    PROVE  PoolInv' /\ UNCHANGED <<phase, got>>
<1>1. /\ mpc = "idle" /\ handle[c] # NoCall /\ phase[c] # "joined" /\ mpc' = "spin" /\ mcall' = c
      /\ UNCHANGED <<tstate, retval, launch, handle, hpc, hreg, phase, got>>
  BY DEF Join, shared, hart
<1>2. ThreadsTypeOK /\ phase[c] \in {"live", "done"} /\ handle[c] \in Slots
  BY <1>1 DEF PoolInv, ThreadsTypeOK, HandlesGiven
<1>3. Occupies(c)
  BY <1>2 DEF Occupies
<1>p. PICK s \in Slots : handle[c] = s
  BY <1>2
<1>4. ThreadsTypeOK'
  <2>1. "spin" \in MainPlaces
    BY DEF MainPlaces
  <2>2. QED
    BY <1>1, <1>2, <2>1 DEF ThreadsTypeOK
<1>5. MainInCall'
  BY <1>1, <1>2 DEF MainInCall, Fields
<1>6. Stage(c, s)
  BY <1>3, <1>p DEF PoolInv, Staged
<1>7. Alone(c, s)
  BY <1>1 DEF Alone
<1>8. \A d \in Jobs \ {c} : Occupies(d) => handle[d] # s
  BY <1>3, <1>p DEF PoolInv, SlotsAlone
<1>9. Stage(c, s)'
  <2>1. ~Filling(c, s)
    BY <1>1 DEF Filling, Fields
  <2>2. Posted(c, s) => Posted(c, s)'
    BY <1>1 DEF Posted
  <2>3. Taken(c, s) => Taken(c, s)'
    BY <1>1 DEF Taken
  <2>4. Ended(c, s) => Ended(c, s)'
    BY <1>1 DEF Ended, HartIn
  <2>5. QED
    BY <1>6, <2>1, <2>2, <2>3, <2>4 DEF Stage
<1>10. handle'[c] = s /\ handle[c] = s /\ s \in Slots /\ phase'[c] # "none"
  BY <1>1, <1>2, <1>p
<1>12. IF Occupies(c)' THEN Stage(c, s)' ELSE FreeSlot(s)'
  <2>1. Occupies(c)'
    BY <1>1, <1>2 DEF Occupies
  <2>2. QED
    BY <1>9, <2>1
<1>13. PoolInv'
  BY <1>4, <1>5, <1>7, <1>8, <1>10, <1>12, OthersStay
<1>11. QED
  BY <1>1, <1>13

\* A step of a hart moves the call it serves, and none hart 0 is working on.
LEMMA WorkerKeeps ==
    ASSUME PoolInv, NEW h \in Workers, NEW c \in Jobs, Occupies(c), handle[c] = h,
           Posted(c, h) \/ Taken(c, h), UNCHANGED <<mpc, mcall, handle>>, Alone(c, h),
           ThreadsTypeOK', phase'[c] \in {"live", "done"}, Stage(c, h)'
    PROVE  PoolInv'
<1>1. h \in Slots
  BY ThreadsAssumption
<1>2. \A d \in Jobs \ {c} : Occupies(d) => handle[d] # h
  BY DEF PoolInv, SlotsAlone
<1>3. ~Filling(c, h) /\ ~Ended(c, h)
  BY ThreadsAssumption DEF Filling, Ended, Posted, Taken, HartIn
<1>4. ASSUME NEW d \in Jobs, NEW u \in Slots, mcall = d, handle[d] = u,
             mpc \in Fields \/ mpc \in {"result", "reset"}
      PROVE  d # c /\ u # h
  <2>1. Filling(d, u) \/ Ended(d, u)
    BY <1>4 DEF PoolInv, MainInCall
  <2>2. d # c
    BY <1>3, <1>4, <2>1
  <2>3. Occupies(d)
    <3>1. Filling(d, u) => phase[d] = "live"
      BY DEF Filling
    <3>2. Ended(d, u) => phase[d] = "done" \/ (mpc = "reset" /\ mcall = d)
      BY DEF Ended
    <3>3. QED
      BY <2>1, <3>1, <3>2 DEF Occupies
  <2>4. QED
    BY <1>2, <1>4, <2>2, <2>3
<1>5. MainInCall'
  <2>1. mpc' # "idle" => mcall' \in Jobs /\ handle'[mcall'] \in Slots
    BY DEF PoolInv, MainInCall
  <2>2. mpc' \in {"spin", "result"} => phase'[mcall'] \in {"live", "done"}
    <3> SUFFICES ASSUME mpc \in {"spin", "result"}
                 PROVE  phase'[mcall] \in {"live", "done"}
      OBVIOUS
    <3>1. mcall \in Jobs /\ phase[mcall] \in {"live", "done"}
      BY DEF PoolInv, MainInCall
    <3>2. CASE mcall = c
      BY <3>2
    <3>3. CASE mcall # c
      BY <3>1, <3>3 DEF Alone
    <3>4. QED
      BY <3>2, <3>3
  <2>3. ASSUME NEW d \in Jobs, NEW u \in Slots, mcall' = d, handle'[d] = u
        PROVE  /\ mpc' \in Fields => Filling(d, u)'
               /\ mpc' \in {"result", "reset"} => Ended(d, u)'
    <3> SUFFICES ASSUME mpc \in Fields \/ mpc \in {"result", "reset"}
                 PROVE  /\ mpc \in Fields => Filling(d, u)'
                        /\ mpc \in {"result", "reset"} => Ended(d, u)'
      OBVIOUS
    <3>1. mcall = d /\ handle[d] = u /\ d # c /\ u # h
      BY <1>4, <2>3
    <3>2. /\ phase'[d] = phase[d] /\ tstate'[u] = tstate[u] /\ launch'[u] = launch[u]
          /\ retval'[u] = retval[u]
          /\ u \in Workers => hpc'[u] = hpc[u]
      BY <3>1 DEF Alone
    <3>3. /\ mpc \in Fields => Filling(d, u)
          /\ mpc \in {"result", "reset"} => Ended(d, u)
      BY <3>1 DEF PoolInv, MainInCall
    <3>4. Filling(d, u) => Filling(d, u)'
      BY <3>2 DEF Filling, HartIn
    <3>5. Ended(d, u) => Ended(d, u)'
      BY <3>2 DEF Ended, HartIn
    <3>6. QED
      BY <3>3, <3>4, <3>5
  <2>4. QED
    BY <2>1, <2>2, <2>3 DEF MainInCall
<1>6. IF Occupies(c)' THEN Stage(c, h)' ELSE FreeSlot(h)'
  BY DEF Occupies
<1>7. handle'[c] = h /\ phase'[c] # "none"
  OBVIOUS
<1>8. QED
  BY <1>1, <1>2, <1>5, <1>6, <1>7, OthersStay

LEMMA PollKeeps ==
    ASSUME PoolInv, NEW h \in Workers, Poll(h)
    PROVE  PoolInv' /\ UNCHANGED <<phase, got>>
<1>1. /\ hpc[h] = "poll" /\ launch[h]["fn"] # NoCall /\ hpc' = [hpc EXCEPT ![h] = "sp"]
      /\ hreg' = [hreg EXCEPT ![h]["fn"] = launch[h]["fn"]]
      /\ UNCHANGED <<tstate, retval, launch, mpc, mcall, handle, phase, got>>
  BY DEF Poll, HartAt, shared, main
<1>2. ThreadsTypeOK /\ h \in Slots
  BY ThreadsAssumption DEF PoolInv
<1>3. PICK c \in Jobs : Occupies(c) /\ handle[c] = h /\ (Posted(c, h) \/ Taken(c, h))
  BY <1>1, HartServes
<1>4. Posted(c, h)
  BY <1>1, <1>3 DEF Taken
<1>5. hpc' \in [Workers -> HartPlaces] /\ hpc'[h] = "sp"
  BY <1>1, <1>2 DEF ThreadsTypeOK, HartPlaces
<1>6. hreg[h] \in Entries /\ launch[h]["fn"] \in Jobs \cup Slots \cup {NoCall}
  BY <1>2 DEF ThreadsTypeOK, Entries, Fields
<1>7. hreg' \in [Workers -> Entries] /\ hreg'[h]["fn"] = launch[h]["fn"]
  BY <1>1, <1>2, <1>6 DEF ThreadsTypeOK, Entries, Fields
<1>8. ThreadsTypeOK'
  BY <1>1, <1>2, <1>5, <1>7 DEF ThreadsTypeOK
<1>9. Alone(c, h)
  BY <1>1, <1>2 DEF Alone, ThreadsTypeOK
<1>10. Posted(c, h)'
  BY <1>1, <1>4, <1>5, <1>7 DEF Posted
<1>11. phase'[c] \in {"live", "done"} /\ Stage(c, h)'
  BY <1>1, <1>4, <1>10 DEF Posted, Stage
<1>12. PoolInv'
  BY <1>1, <1>3, <1>8, <1>9, <1>11, WorkerKeeps
<1>13. QED
  BY <1>1, <1>12

LEMMA LoadFieldKeeps ==
    ASSUME PoolInv, NEW h \in Workers, LoadField(h)
    PROVE  PoolInv' /\ UNCHANGED <<phase, got>>
<1>1. PICK f \in {"sp", "arg", "tcb"}, n \in {"arg", "tcb", "clear"} :
          /\ hpc[h] = f /\ hpc' = [hpc EXCEPT ![h] = n]
          /\ f = "sp" => n = "arg"
          /\ f = "arg" => n = "tcb"
          /\ f = "tcb" => n = "clear"
  BY DEF LoadField, HartAt
<1>2. /\ hreg' = [hreg EXCEPT ![h][f] = launch[h][f]]
      /\ UNCHANGED <<tstate, retval, launch, mpc, mcall, handle, phase, got>>
  BY <1>1 DEF LoadField, shared, main
<1>3. ThreadsTypeOK /\ h \in Slots
  BY ThreadsAssumption DEF PoolInv
<1>4. PICK c \in Jobs : Occupies(c) /\ handle[c] = h /\ (Posted(c, h) \/ Taken(c, h))
  BY <1>1, HartServes
<1>5. Posted(c, h)
  BY <1>1, <1>4 DEF Taken
<1>6. hpc' \in [Workers -> HartPlaces] /\ hpc'[h] = n
  BY <1>1, <1>3 DEF ThreadsTypeOK, HartPlaces
<1>7. hreg[h] \in Entries /\ launch[h][f] \in Jobs \cup Slots \cup {NoCall}
  BY <1>3 DEF ThreadsTypeOK, Entries, Fields
<1>8. /\ hreg' \in [Workers -> Entries]
      /\ \A g \in Fields : hreg'[h][g] = IF g = f THEN launch[h][f] ELSE hreg[h][g]
  BY <1>2, <1>3, <1>7 DEF ThreadsTypeOK, Entries, Fields
<1>9. ThreadsTypeOK'
  BY <1>2, <1>3, <1>6, <1>8 DEF ThreadsTypeOK
<1>10. Alone(c, h)
  BY <1>1, <1>2, <1>3 DEF Alone, ThreadsTypeOK
<1>11. /\ hreg'[h]["fn"] = c
       /\ n \in {"tcb", "clear"} => hreg'[h]["arg"] = c
       /\ n = "clear" => hreg'[h]["tcb"] = h
  BY <1>1, <1>5, <1>8 DEF Posted, Fields
<1>12. Posted(c, h)'
  BY <1>2, <1>5, <1>6, <1>11 DEF Posted
<1>13. phase'[c] \in {"live", "done"} /\ Stage(c, h)'
  BY <1>2, <1>5, <1>12 DEF Posted, Stage
<1>14. PoolInv'
  BY <1>2, <1>4, <1>9, <1>10, <1>13, WorkerKeeps
<1>15. QED
  BY <1>2, <1>14

LEMMA ClearEntryKeeps ==
    ASSUME PoolInv, NEW h \in Workers, ClearEntry(h)
    PROVE  PoolInv' /\ UNCHANGED <<phase, got>>
<1>1. /\ hpc[h] = "clear" /\ hpc' = [hpc EXCEPT ![h] = "call"]
      /\ launch' = [launch EXCEPT ![h]["fn"] = NoCall]
      /\ UNCHANGED <<tstate, retval, mpc, mcall, handle, hreg, phase, got>>
  BY DEF ClearEntry, HartAt, main
<1>2. ThreadsTypeOK /\ h \in Slots
  BY ThreadsAssumption DEF PoolInv
<1>3. PICK c \in Jobs : Occupies(c) /\ handle[c] = h /\ (Posted(c, h) \/ Taken(c, h))
  BY <1>1, HartServes
<1>4. Posted(c, h)
  BY <1>1, <1>3 DEF Taken
<1>5. hpc' \in [Workers -> HartPlaces] /\ hpc'[h] = "call"
  BY <1>1, <1>2 DEF ThreadsTypeOK, HartPlaces
<1>6. launch[h] \in Entries
  BY <1>2 DEF ThreadsTypeOK
<1>7. launch' \in [Slots -> Entries] /\ launch'[h]["fn"] = NoCall
  BY <1>1, <1>2, <1>6 DEF ThreadsTypeOK, Entries, Fields
<1>8. ThreadsTypeOK'
  BY <1>1, <1>2, <1>5, <1>7 DEF ThreadsTypeOK
<1>9. Alone(c, h)
  BY <1>1, <1>2 DEF Alone, ThreadsTypeOK
<1>10. Taken(c, h)'
  BY <1>1, <1>4, <1>5, <1>7 DEF Taken, Posted
<1>11. phase'[c] \in {"live", "done"} /\ Stage(c, h)'
  BY <1>1, <1>4, <1>10 DEF Posted, Stage
<1>12. PoolInv'
  BY <1>1, <1>3, <1>8, <1>9, <1>11, WorkerKeeps
<1>13. QED
  BY <1>1, <1>12

\* The hart runs the function the call gave.
LEMMA RunKeeps ==
    ASSUME PoolInv, NEW h \in Workers, RunFunction(h)
    PROVE  PoolInv' /\ \E c \in Jobs : Pool!Run(c)
<1>1. /\ hpc[h] = "call" /\ hpc' = [hpc EXCEPT ![h] = "retval"]
      /\ phase' = [phase EXCEPT ![hreg[h]["fn"]] = "done"]
      /\ UNCHANGED <<tstate, retval, launch, mpc, mcall, handle, hreg, got>>
  BY DEF RunFunction, HartAt, shared, main
<1>2. ThreadsTypeOK /\ h \in Slots
  BY ThreadsAssumption DEF PoolInv
<1>3. PICK c \in Jobs : Occupies(c) /\ handle[c] = h /\ (Posted(c, h) \/ Taken(c, h))
  BY <1>1, HartServes
<1>4. Taken(c, h)
  BY <1>1, <1>3 DEF Posted
<1>5. hpc' \in [Workers -> HartPlaces] /\ hpc'[h] = "retval"
  BY <1>1, <1>2 DEF ThreadsTypeOK, HartPlaces
<1>6. phase[c] = "live" /\ phase' = [phase EXCEPT ![c] = "done"]
  BY <1>1, <1>4 DEF Taken
<1>7. phase'[c] = "done" /\ phase' \in [Jobs -> {"none", "live", "done", "joined"}]
  BY <1>2, <1>6 DEF ThreadsTypeOK
<1>8. ThreadsTypeOK'
  BY <1>1, <1>2, <1>5, <1>7 DEF ThreadsTypeOK
<1>9. Alone(c, h)
  BY <1>1, <1>2, <1>6 DEF Alone, ThreadsTypeOK
<1>10. Taken(c, h)'
  BY <1>1, <1>4, <1>5, <1>7 DEF Taken
<1>11. phase'[c] \in {"live", "done"} /\ Stage(c, h)'
  BY <1>7, <1>10 DEF Stage
<1>12. PoolInv'
  BY <1>1, <1>3, <1>8, <1>9, <1>11, WorkerKeeps
<1>13. QED
  BY <1>1, <1>6, <1>12 DEF Pool!Run

LEMMA StoreResultKeeps ==
    ASSUME PoolInv, NEW h \in Workers, StoreResult(h)
    PROVE  PoolInv' /\ UNCHANGED <<phase, got>>
<1>1. /\ hpc[h] = "retval" /\ hpc' = [hpc EXCEPT ![h] = "done"]
      /\ retval' = [retval EXCEPT ![hreg[h]["tcb"]] = Answer(hreg[h]["fn"], hreg[h]["arg"])]
      /\ UNCHANGED <<tstate, launch, mpc, mcall, handle, hreg, phase, got>>
  BY DEF StoreResult, HartAt, main
<1>2. ThreadsTypeOK /\ h \in Slots
  BY ThreadsAssumption DEF PoolInv
<1>3. PICK c \in Jobs : Occupies(c) /\ handle[c] = h /\ (Posted(c, h) \/ Taken(c, h))
  BY <1>1, HartServes
<1>4. Taken(c, h)
  BY <1>1, <1>3 DEF Posted
<1>5. hpc' \in [Workers -> HartPlaces] /\ hpc'[h] = "done"
  BY <1>1, <1>2 DEF ThreadsTypeOK, HartPlaces
<1>6. retval' = [retval EXCEPT ![h] = Answer(c, c)]
  BY <1>1, <1>4 DEF Taken
<1>7. Answer(c, c) \in Answers
  BY DEF Answer, Answers
<1>8. retval' \in [Slots -> Answers] /\ retval'[h] = Answer(c, c)
  BY <1>2, <1>6, <1>7 DEF ThreadsTypeOK
<1>9. ThreadsTypeOK'
  BY <1>1, <1>2, <1>5, <1>8 DEF ThreadsTypeOK
<1>10. Alone(c, h)
  BY <1>1, <1>2, <1>6 DEF Alone, ThreadsTypeOK
<1>11. Taken(c, h)'
  BY <1>1, <1>4, <1>5, <1>8 DEF Taken
<1>12. phase'[c] \in {"live", "done"} /\ Stage(c, h)'
  BY <1>1, <1>4, <1>11 DEF Taken, Stage
<1>13. PoolInv'
  BY <1>1, <1>3, <1>9, <1>10, <1>12, WorkerKeeps
<1>14. QED
  BY <1>1, <1>13

LEMMA StoreDoneKeeps ==
    ASSUME PoolInv, NEW h \in Workers, StoreDone(h)
    PROVE  PoolInv' /\ UNCHANGED <<phase, got>>
<1>1. /\ hpc[h] = "done" /\ hpc' = [hpc EXCEPT ![h] = "poll"]
      /\ tstate' = [tstate EXCEPT ![hreg[h]["tcb"]] = "DONE"]
      /\ UNCHANGED <<retval, launch, mpc, mcall, handle, hreg, phase, got>>
  BY DEF StoreDone, HartAt, main
<1>2. ThreadsTypeOK /\ h \in Slots
  BY ThreadsAssumption DEF PoolInv
<1>3. PICK c \in Jobs : Occupies(c) /\ handle[c] = h /\ (Posted(c, h) \/ Taken(c, h))
  BY <1>1, HartServes
<1>4. Taken(c, h)
  BY <1>1, <1>3 DEF Posted
<1>5. hpc' \in [Workers -> HartPlaces] /\ hpc'[h] = "poll"
  BY <1>1, <1>2 DEF ThreadsTypeOK, HartPlaces
<1>6. tstate' = [tstate EXCEPT ![h] = "DONE"]
  BY <1>1, <1>4 DEF Taken
<1>7. tstate' \in [Slots -> {"IDLE", "RUNNING", "DONE"}] /\ tstate'[h] = "DONE"
  BY <1>2, <1>6 DEF ThreadsTypeOK
<1>8. ThreadsTypeOK'
  BY <1>1, <1>2, <1>5, <1>7 DEF ThreadsTypeOK
<1>9. Alone(c, h)
  BY <1>1, <1>2, <1>6 DEF Alone, ThreadsTypeOK
<1>10. ~(mpc = "reset" /\ mcall = c)
  <2> SUFFICES ASSUME mpc = "reset", mcall = c
               PROVE  FALSE
    OBVIOUS
  <2>1. Ended(c, h)
    BY <1>2, <1>3 DEF PoolInv, MainInCall
  <2>2. QED
    BY <1>4, <2>1 DEF Taken, Ended
<1>11. Ended(c, h)'
  BY <1>1, <1>4, <1>5, <1>7, <1>10 DEF Taken, Ended, HartIn
<1>12. phase'[c] \in {"live", "done"} /\ Stage(c, h)'
  BY <1>1, <1>4, <1>11 DEF Taken, Stage
<1>13. PoolInv'
  BY <1>1, <1>3, <1>8, <1>9, <1>12, WorkerKeeps
<1>14. QED
  BY <1>1, <1>13

\* The spin ends on the slot of the thread that is joined, and its result is there.
LEMMA SpinEndsKeeps ==
    ASSUME PoolInv, SpinEnds
    PROVE  PoolInv' /\ UNCHANGED <<phase, got>>
<1>1. mpc = "spin"
  BY DEF SpinEnds
<1>2. PICK c \in Jobs, s \in Slots : c = mcall /\ s = handle[mcall]
  BY <1>1 DEF PoolInv, MainInCall
<1>3. /\ tstate[s] = "DONE" /\ mpc' = "result"
      /\ UNCHANGED <<tstate, retval, launch, mcall, handle, hpc, hreg, phase, got>>
  BY <1>2 DEF SpinEnds, Finished, shared, hart
<1>4. ThreadsTypeOK /\ handle[c] = s /\ mcall = c
  BY <1>2 DEF PoolInv
<1>5. phase[c] \in {"live", "done"}
  BY <1>1, <1>4 DEF PoolInv, MainInCall
<1>6. Occupies(c)
  BY <1>5 DEF Occupies
<1>7. Stage(c, s)
  BY <1>4, <1>6 DEF PoolInv, Staged
<1>8. Ended(c, s)
  BY <1>3, <1>7 DEF Stage, Filling, Posted, Taken
<1>9. ThreadsTypeOK'
  <2>1. "result" \in MainPlaces
    BY DEF MainPlaces
  <2>2. QED
    BY <1>3, <1>4, <2>1 DEF ThreadsTypeOK
<1>10. Ended(c, s)'
  BY <1>1, <1>3, <1>8 DEF Ended, HartIn
<1>11. MainInCall'
  BY <1>3, <1>4, <1>5, <1>10 DEF MainInCall, Fields
<1>12. Alone(c, s)
  BY <1>3, <1>4 DEF Alone
<1>13. \A d \in Jobs \ {c} : Occupies(d) => handle[d] # s
  BY <1>4, <1>6 DEF PoolInv, SlotsAlone
<1>14. handle'[c] = s /\ phase'[c] # "none"
  BY <1>3, <1>4, <1>5
<1>15. IF Occupies(c)' THEN Stage(c, s)' ELSE FreeSlot(s)'
  <2>1. Occupies(c)'
    BY <1>3, <1>5 DEF Occupies
  <2>2. QED
    BY <1>10, <2>1 DEF Stage
<1>16. PoolInv'
  BY <1>4, <1>9, <1>11, <1>12, <1>13, <1>14, <1>15, OthersStay
<1>17. QED
  BY <1>3, <1>16

\* The join returns what the function of that call returned.
LEMMA LoadResultKeeps ==
    ASSUME PoolInv, LoadResult
    PROVE  PoolInv' /\ \E c \in Jobs : Pool!Join(c)
<1>1. mpc = "result"
  BY DEF LoadResult
<1>2. PICK c \in Jobs, s \in Slots : c = mcall /\ s = handle[mcall]
  BY <1>1 DEF PoolInv, MainInCall
<1>3. /\ mpc' = "reset" /\ got' = [got EXCEPT ![c] = retval[s]]
      /\ phase' = [phase EXCEPT ![c] = "joined"]
      /\ UNCHANGED <<tstate, retval, launch, mcall, handle, hpc, hreg>>
  BY <1>2 DEF LoadResult, shared, hart
<1>4. ThreadsTypeOK /\ handle[c] = s /\ mcall = c
  BY <1>2 DEF PoolInv
<1>5. Ended(c, s)
  BY <1>1, <1>4 DEF PoolInv, MainInCall
<1>6. phase[c] = "done" /\ retval[s] = Answer(c, c)
  BY <1>1, <1>5 DEF Ended
<1>7. Occupies(c)
  BY <1>6 DEF Occupies
<1>8. phase'[c] = "joined" /\ phase' \in [Jobs -> {"none", "live", "done", "joined"}]
  BY <1>3, <1>4 DEF ThreadsTypeOK
<1>9. ThreadsTypeOK'
  <2>1. "reset" \in MainPlaces
    BY DEF MainPlaces
  <2>2. retval[s] \in Answers
    BY <1>4 DEF ThreadsTypeOK
  <2>3. got' \in [Jobs -> Answers]
    BY <1>3, <1>4, <2>2 DEF ThreadsTypeOK
  <2>4. QED
    BY <1>3, <1>4, <1>8, <2>1, <2>3 DEF ThreadsTypeOK
<1>10. Ended(c, s)'
  BY <1>3, <1>4, <1>5, <1>8 DEF Ended, HartIn
<1>11. MainInCall'
  BY <1>3, <1>4, <1>10 DEF MainInCall, Fields
<1>12. Alone(c, s)
  BY <1>3, <1>4 DEF Alone, ThreadsTypeOK
<1>13. \A d \in Jobs \ {c} : Occupies(d) => handle[d] # s
  BY <1>4, <1>7 DEF PoolInv, SlotsAlone
<1>14. handle'[c] = s /\ phase'[c] # "none"
  BY <1>3, <1>4, <1>8
<1>15. IF Occupies(c)' THEN Stage(c, s)' ELSE FreeSlot(s)'
  <2>1. Occupies(c)'
    BY <1>3, <1>4 DEF Occupies
  <2>2. QED
    BY <1>10, <2>1 DEF Stage
<1>16. PoolInv'
  BY <1>4, <1>9, <1>11, <1>12, <1>13, <1>14, <1>15, OthersStay
<1>17. Pool!Join(c)
  BY <1>3, <1>6 DEF Pool!Join, Pool!Answer, Answer
<1>18. QED
  BY <1>16, <1>17

\* The slot is nobody's again.
LEMMA ResetSlotKeeps ==
    ASSUME PoolInv, ResetSlot
    PROVE  PoolInv' /\ UNCHANGED <<phase, got>>
<1>1. mpc = "reset"
  BY DEF ResetSlot
<1>2. PICK c \in Jobs, s \in Slots : c = mcall /\ s = handle[mcall]
  BY <1>1 DEF PoolInv, MainInCall
<1>3. /\ mpc' = "idle" /\ tstate' = [tstate EXCEPT ![s] = "IDLE"]
      /\ UNCHANGED <<retval, launch, mcall, handle, hpc, hreg, phase, got>>
  BY <1>2 DEF ResetSlot, hart
<1>4. ThreadsTypeOK /\ handle[c] = s /\ mcall = c
  BY <1>2 DEF PoolInv
<1>5. Ended(c, s)
  BY <1>1, <1>4 DEF PoolInv, MainInCall
<1>6. Occupies(c) /\ phase[c] = "joined"
  BY <1>1, <1>4, <1>5 DEF Occupies, Ended
<1>7. tstate' \in [Slots -> {"IDLE", "RUNNING", "DONE"}] /\ tstate'[s] = "IDLE"
  BY <1>3, <1>4 DEF ThreadsTypeOK
<1>8. ThreadsTypeOK'
  <2>1. "idle" \in MainPlaces
    BY DEF MainPlaces
  <2>2. QED
    BY <1>3, <1>4, <1>7, <2>1 DEF ThreadsTypeOK
<1>9. MainInCall'
  BY <1>3 DEF MainInCall, Fields
<1>10. Alone(c, s)
  BY <1>3, <1>4 DEF Alone, ThreadsTypeOK
<1>11. \A d \in Jobs \ {c} : Occupies(d) => handle[d] # s
  BY <1>4, <1>6 DEF PoolInv, SlotsAlone
<1>12. handle'[c] = s /\ phase'[c] # "none"
  BY <1>3, <1>4, <1>6
<1>13. IF Occupies(c)' THEN Stage(c, s)' ELSE FreeSlot(s)'
  <2>1. ~Occupies(c)'
    BY <1>3, <1>6 DEF Occupies
  <2>2. FreeSlot(s)'
    BY <1>3, <1>5, <1>7 DEF Ended, FreeSlot, HartIn
  <2>3. QED
    BY <2>1, <2>2
<1>14. PoolInv'
  BY <1>4, <1>8, <1>9, <1>10, <1>11, <1>12, <1>13, OthersStay
<1>15. QED
  BY <1>3, <1>14

LEMMA PoolStep == PoolInv /\ [ThreadsNext]_threadVars => PoolInv' /\ [Pool!Next]_<<phase, got>>
<1> SUFFICES ASSUME PoolInv, [ThreadsNext]_threadVars
             PROVE  PoolInv' /\ [Pool!Next]_<<phase, got>>
  OBVIOUS
<1>1. CASE UNCHANGED threadVars
  <2>1. /\ UNCHANGED <<tstate, retval, launch, mpc, mcall, handle, hpc, hreg>>
        /\ UNCHANGED <<phase, got>>
    BY <1>1 DEF threadVars, shared, main, hart
  <2>2. QED
    BY <2>1 DEF PoolInv, ThreadsTypeOK, HandlesGiven, SlotsAlone, Staged, SlotsLeftFree,
       MainInCall, Occupies, Stage, Filling, Posted, Taken, Ended, FreeSlot, HartIn
<1>2. ASSUME NEW c \in Jobs, Create(c)
      PROVE  PoolInv' /\ [Pool!Next]_<<phase, got>>
  BY <1>2, CreateKeeps DEF Pool!Next
<1>3. ASSUME NEW c \in Jobs, Join(c)
      PROVE  PoolInv' /\ [Pool!Next]_<<phase, got>>
  BY <1>3, JoinKeeps
<1>4. CASE StoreField
  BY <1>4, StoreFieldKeeps
<1>5. CASE SpinEnds
  BY <1>5, SpinEndsKeeps
<1>6. CASE LoadResult
  BY <1>6, LoadResultKeeps DEF Pool!Next
<1>7. CASE ResetSlot
  BY <1>7, ResetSlotKeeps
<1>8. ASSUME NEW h \in Workers, Poll(h) \/ LoadField(h) \/ ClearEntry(h)
      PROVE  PoolInv' /\ [Pool!Next]_<<phase, got>>
  BY <1>8, PollKeeps, LoadFieldKeeps, ClearEntryKeeps
<1>9. ASSUME NEW h \in Workers, RunFunction(h)
      PROVE  PoolInv' /\ [Pool!Next]_<<phase, got>>
  BY <1>9, RunKeeps DEF Pool!Next
<1>10. ASSUME NEW h \in Workers, StoreResult(h) \/ StoreDone(h)
       PROVE  PoolInv' /\ [Pool!Next]_<<phase, got>>
  BY <1>10, StoreResultKeeps, StoreDoneKeeps
<1>11. QED
  BY <1>1, <1>2, <1>3, <1>4, <1>5, <1>6, <1>7, <1>8, <1>9, <1>10
     DEF ThreadsNext, MainThread, Worker

LEMMA PoolInvariant == ThreadsSpec => []PoolInv
<1>1. PoolInv /\ [ThreadsNext]_threadVars => PoolInv'
  BY PoolStep
<1>2. QED
  BY <1>1, PoolBegins, PTL DEF ThreadsSpec

\* The types of the state of pthread.c and of the loop of the secondary harts.
THEOREM ThreadsTypeCorrect == ThreadsSpec => []ThreadsTypeOK
<1>1. PoolInv => ThreadsTypeOK
  BY DEF PoolInv
<1>2. QED
  BY <1>1, PoolInvariant, PTL

\* pthread_create, pthread_join and the loop of crt0-pthread.S implement a
\* fork-join, for any number of slots, harts and calls: no function is run
\* twice or with another's argument, and no join returns another's result.
THEOREM ThreadsIsForkJoin == ThreadsSpec => ThreadsForkJoin
<1>1. ThreadsInit => Pool!Init
  BY DEF ThreadsInit, Pool!Init, Pool!NoAnswer, Pool!Answer, NoAnswer, Answer
<1>2. PoolInv /\ [ThreadsNext]_threadVars => [Pool!Next]_<<phase, got>>
  BY PoolStep
<1>3. QED
  BY <1>1, <1>2, PoolInvariant, PTL DEF ThreadsSpec, ThreadsForkJoin, Pool!Spec

----------------------------------------------------------------------------
(* The cooperative scheduler *)

\* The sign of the difference says so of a task that has slept s of d.
Overdue(s, d) == s >= d \/ s + HalfWrap < d

\* How far the counter is beyond the deadline of the watched task: its wake
\* cycle lies as far behind its call as that comes to, on a ring of Wrap.
SleepCounted ==
    tstatus[watched] = "SLEEPING" =>
        /\ Congruent(wake[watched] + slept, cycle + Due(asked), Wrap)
        /\ slept - Due(asked) < HalfWrap
        /\ g_cur # Scheduler => ~Overdue(slept, Due(asked))

\* Places from task t on to the watched one.
Ahead(t) == IF t <= watched THEN watched - t ELSE watched - t + g_n_tasks

\* The search comes nearer to the watched task with every turn.
TurnsOrdered ==
    ranSince # {} =>
        /\ tstatus[watched] = "READY" /\ g_cur # watched /\ g_last \in ranSince
        /\ \A t \in ranSince : t # watched /\ t < g_n_tasks /\ Ahead(g_last) <= Ahead(t)

SchedulerInv ==
    /\ RtosTypeOK
    /\ g_cur # Scheduler => tstatus[g_cur] = "READY"
    /\ g_last < g_n_tasks
    /\ g_cur = watched => slept = 0
    /\ SleepCounted /\ TurnsOrdered

LEMMA Halves ==
    /\ HalfWrap \in Nat \ {0} /\ Wrap \in Nat \ {0} /\ Wrap = 2 * HalfWrap
    /\ TaskSlots \in Nat \ {0}
    /\ \A b \in Bursts : b \in 1 .. HalfWrap - 1
    /\ \A d \in Sleeps : d \in Nat
  BY RtosAssumption DEF HalfWrap

\* What a sleep comes to lies on the ring, and is congruent to what was asked.
LEMMA DueOnRing ==
    ASSUME NEW d \in Nat
    PROVE  Due(d) \in 0 .. Wrap - 1 /\ Congruent(Due(d), d, Wrap)
  BY Halves, CongruentRest DEF Due

\* The sign of the difference tells whether the deadline has passed, or lies
\* more than half the ring ahead.
LEMMA SignTells ==
    ASSUME NEW w \in Int, NEW c \in Int, NEW s \in Nat, NEW a \in 0 .. Wrap - 1,
           Congruent(w + s, c + a, Wrap), s - a < HalfWrap
    PROVE  Elapsed(c, w) <=> Overdue(s, a)
<1> DEFINE k == s - a
           x == c - w
           h == k + Wrap
<1>1. k \in Int /\ x \in Int /\ h \in Int /\ k \in 1 - Wrap .. HalfWrap - 1
      /\ w + s \in Int /\ c + a \in Int
  BY Halves
<1>2. k - (w + s) = x - (c + a)
  BY Halves
<1>3. Overdue(s, a) <=> k >= 0 \/ h < HalfWrap
  BY Halves DEF Overdue
<1> HIDE DEF k, x
<1>4. Congruent(k, x, Wrap)
  BY <1>1, <1>2, Halves, CongruentMoved
<1>5. CASE k >= 0
  <2>1. k \in 0 .. Wrap - 1 /\ Congruent(x, k, Wrap)
    BY <1>1, <1>4, <1>5, Halves DEF Congruent
  <2>2. x % Wrap = k
    BY <1>1, <2>1, Halves, RestIs
  <2>3. QED
    BY <1>1, <1>3, <1>5, <2>2, Halves DEF Elapsed, x
<1>6. CASE ~(k >= 0)
  <2>1. h \in 0 .. Wrap - 1
    BY <1>1, <1>6, Halves
  <2>2. PICK q \in Int : q = 1
    OBVIOUS
  <2>3. Congruent(x, h, Wrap)
    <3>1. (k + q * Wrap) % Wrap = k % Wrap
      BY <1>1, Halves, ModTurns
    <3>2. h = k + q * Wrap
      BY <1>1, <2>2, Halves
    <3>3. QED
      BY <1>4, <3>1, <3>2 DEF Congruent
  <2>4. x % Wrap = h
    BY <1>1, <2>1, <2>3, Halves, RestIs
  <2>5. QED
    BY <1>3, <1>6, <2>4 DEF Elapsed, x
<1>7. QED
  BY <1>5, <1>6

\* The counter moves on with the count.
LEMMA CountMoves ==
    ASSUME NEW w \in Int, NEW c \in Int, NEW s \in Int, NEW a \in Int, NEW b \in Nat,
           Congruent(w + s, c + a, Wrap)
    PROVE  Congruent(w + (s + b), ((c + b) % Wrap) + a, Wrap)
<1> DEFINE r == (c + b) % Wrap
           y == c + b
           x1 == w + s
           y1 == c + a
           x2 == w + (s + b)
           y2 == y + a
           y3 == r + a
<1>0. y \in Int
  OBVIOUS
<1>1. Congruent(y, r, Wrap) /\ r \in Int /\ y \in Int
  <2>1. r = y % Wrap
    OBVIOUS
  <2> HIDE DEF y, r
  <2>2. Congruent(y, y % Wrap, Wrap) /\ y % Wrap \in 0 .. Wrap - 1
    BY <1>0, Halves, CongruentRest
  <2>3. QED
    BY <1>0, <2>1, <2>2, Halves
<1> HIDE DEF r
<1>2. x1 \in Int /\ y1 \in Int /\ x2 \in Int /\ y2 \in Int /\ y3 \in Int
  BY <1>1
<1>3. x2 - x1 = y2 - y1 /\ y2 - y = y3 - r
  BY <1>1
<1>4. Congruent(x1, y1, Wrap)
  OBVIOUS
<1> HIDE DEF x1, y1, x2, y2, y3, y
<1>5. Congruent(x2, y2, Wrap)
  BY <1>2, <1>3, <1>4, Halves, CongruentMoved
<1>6. Congruent(y2, y3, Wrap)
  BY <1>1, <1>2, <1>3, Halves, CongruentMoved
<1>7. Congruent(x2, y3, Wrap)
  BY <1>5, <1>6 DEF Congruent
<1>8. QED
  BY <1>7 DEF x2, y3, r

\* A deadline is as far behind the call as that comes to.
LEMMA DeadlineSet ==
    ASSUME NEW c \in Int, NEW d \in Nat
    PROVE  /\ Congruent(((c + d) % Wrap) + 0, c + Due(d), Wrap)
           /\ (c + d) % Wrap \in 0 .. Wrap - 1
<1> DEFINE y == c + d
           r == y % Wrap
           m == Due(d)
           z == c + m
<1>0. y \in Int /\ r = y % Wrap /\ m \in Int /\ z \in Int /\ d - m = y - z
  BY DueOnRing
<1>1. Congruent(m, d, Wrap)
  BY DueOnRing
<1> HIDE DEF y, r, m, z
<1>2. Congruent(d, m, Wrap)
  BY <1>1 DEF Congruent
<1>3. Congruent(y, z, Wrap)
  <2>1. y - d = z - m
    BY <1>0
  <2>2. QED
    BY <1>0, <1>2, <2>1, Halves, CongruentMoved
<1>4. Congruent(r, y, Wrap) /\ r \in 0 .. Wrap - 1
  BY <1>0, Halves, CongruentRest
<1>5. Congruent(r, z, Wrap) /\ r + 0 = r
  BY <1>3, <1>4 DEF Congruent
<1>6. QED
  BY <1>4, <1>5 DEF r, y, z, m

LEMMA SchedulerBegins == RtosInit => SchedulerInv
<1> SUFFICES ASSUME RtosInit
             PROVE  SchedulerInv
  OBVIOUS
<1>1. RtosTypeOK
  <2>1. /\ g_n_tasks \in 0 .. TaskSlots /\ cycle \in 0 .. Wrap - 1 /\ watched \in Tcbs
        /\ g_cur = Scheduler /\ g_last = -1 /\ returned = FALSE
        /\ asked = 0 /\ slept = 0 /\ ranSince = {}
    BY DEF RtosInit
  <2>2. tstatus \in [Tcbs -> {"NONE", "READY", "SLEEPING", "DEAD"}]
    BY DEF RtosInit
  <2>3. \A t \in Tcbs : tstatus[t] = "NONE" <=> t >= g_n_tasks
    BY <2>1, Halves DEF RtosInit, Tcbs
  <2>4. 0 \in 0 .. Wrap - 1
    BY Halves
  <2>5. wake \in [Tcbs -> 0 .. Wrap - 1]
    BY <2>4 DEF RtosInit
  <2>6. QED
    BY <2>1, <2>2, <2>3, <2>5 DEF RtosTypeOK
<1>2. /\ g_cur = Scheduler /\ g_last = -1 /\ slept = 0 /\ asked = 0 /\ ranSince = {}
      /\ tstatus[watched] # "SLEEPING" /\ g_n_tasks \in Nat
  BY DEF RtosInit, Tcbs
<1>3. SleepCounted /\ TurnsOrdered
  BY <1>2 DEF SleepCounted, TurnsOrdered
<1>4. QED
  BY <1>1, <1>2, <1>3, Halves DEF SchedulerInv

\* The first loop of an iteration wakes the watched task exactly in time.
LEMMA WokenInTime ==
    ASSUME SchedulerInv, tstatus[watched] = "SLEEPING"
    PROVE  /\ AfterWake[watched] = "READY" <=> Overdue(slept, Due(asked))
           /\ AfterWake[watched] \in {"READY", "SLEEPING"}
<1>1. /\ wake[watched] \in Int /\ cycle \in Int /\ slept \in Nat /\ asked \in Nat
      /\ watched \in Tcbs
  BY Halves DEF SchedulerInv, RtosTypeOK
<1>2. /\ Congruent(wake[watched] + slept, cycle + Due(asked), Wrap)
      /\ slept - Due(asked) < HalfWrap
  BY DEF SchedulerInv, SleepCounted
<1>3. Elapsed(cycle, wake[watched]) <=> Overdue(slept, Due(asked))
  BY <1>1, <1>2, DueOnRing, SignTells
<1>4. QED
  BY <1>1, <1>3 DEF AfterWake

LEMMA AfterWakeTypes ==
    ASSUME SchedulerInv
    PROVE  /\ AfterWake \in [Tcbs -> {"NONE", "READY", "SLEEPING", "DEAD"}]
           /\ \A t \in Tcbs : /\ AfterWake[t] = "NONE" <=> t >= g_n_tasks
                              /\ tstatus[t] = "READY" => AfterWake[t] = "READY"
                              /\ tstatus[t] # "SLEEPING" => AfterWake[t] = tstatus[t]
  BY DEF SchedulerInv, RtosTypeOK, AfterWake

\* Time that passes keeps the count of a sleeper that is not overdue.
LEMMA TimeKeeps ==
    ASSUME SchedulerInv, TimePasses
    PROVE  /\ cycle' \in 0 .. Wrap - 1 /\ slept' \in Nat
           /\ tstatus[watched] # "SLEEPING" => slept' = slept
           /\ tstatus[watched] = "SLEEPING" /\ ~Overdue(slept, Due(asked)) =>
                /\ Congruent(wake[watched] + slept', cycle' + Due(asked), Wrap)
                /\ slept' - Due(asked) < HalfWrap
<1> DEFINE d == Due(asked)
<1>1. PICK b \in Bursts :
          /\ cycle' = (cycle + b) % Wrap
          /\ slept' = IF tstatus[watched] = "SLEEPING" /\ slept < Wrap THEN slept + b ELSE slept
  BY DEF TimePasses
<1>2. /\ wake[watched] \in Int /\ cycle \in Int /\ slept \in Nat /\ d \in 0 .. Wrap - 1
      /\ b \in 1 .. HalfWrap - 1
  BY Halves, DueOnRing DEF SchedulerInv, RtosTypeOK
<1> HIDE DEF d
<1>3. cycle' \in 0 .. Wrap - 1
  <2>1. Wrap \in Nat \ {0}
    BY Halves
  <2>2. cycle + b \in Int
    BY <1>2
  <2>3. (cycle + b) % Wrap \in 0 .. Wrap - 1
    BY <2>1, <2>2, ModRange
  <2>4. QED
    BY <1>1, <2>3
<1>4. slept' \in Nat /\ (tstatus[watched] # "SLEEPING" => slept' = slept)
  BY <1>1, <1>2, Halves
<1>5. ASSUME tstatus[watched] = "SLEEPING", ~Overdue(slept, d)
      PROVE  /\ Congruent(wake[watched] + slept', cycle' + d, Wrap)
             /\ slept' - d < HalfWrap
  <2>0. slept < d
    BY <1>2, <1>5 DEF Overdue
  <2>1. slept' = slept + b
    BY <1>1, <1>2, <1>5, <2>0, Halves
  <2>2. Congruent(wake[watched] + slept, cycle + d, Wrap)
    BY <1>5 DEF SchedulerInv, SleepCounted, d
  <2>3. Congruent(wake[watched] + (slept + b), ((cycle + b) % Wrap) + d, Wrap)
    <3> DEFINE w == wake[watched]
    <3>1. w \in Int /\ slept \in Int /\ d \in Int /\ b \in Nat
      BY <1>2, Halves
    <3>2. Congruent(w + slept, cycle + d, Wrap)
      BY <2>2
    <3> HIDE DEF w
    <3>3. Congruent(w + (slept + b), ((cycle + b) % Wrap) + d, Wrap)
      BY <1>2, <3>1, <3>2, CountMoves
    <3>4. QED
      BY <3>3 DEF w
  <2>4. QED
    BY <1>1, <1>2, <2>0, <2>1, <2>3, Halves
<1>6. QED
  BY <1>3, <1>4, <1>5 DEF d

\* A task that is chosen in front of the watched one is nearer to it than the last.
LEMMA Nearer ==
    ASSUME SchedulerInv, NEW t \in Tcbs, Chosen(t), AfterWake[watched] = "READY",
           t # watched, ranSince # {}
    PROVE  Ahead(t) < Ahead(g_last)
<1>1. /\ g_n_tasks \in Nat /\ watched \in Nat /\ g_last \in Nat
      /\ watched < g_n_tasks /\ g_last < g_n_tasks /\ g_last # watched
  <2>1. watched \in Tcbs /\ ranSince \subseteq Tcbs /\ g_n_tasks \in Nat
    BY DEF SchedulerInv, RtosTypeOK
  <2>2. g_last \in ranSince /\ g_last # watched /\ g_last < g_n_tasks
    BY DEF SchedulerInv, TurnsOrdered
  <2>3. watched < g_n_tasks
    BY <2>1, AfterWakeTypes DEF Tcbs
  <2>4. QED
    BY <2>1, <2>2, <2>3 DEF Tcbs
<1>2. PICK i \in 0 .. g_n_tasks - 1 :
          t = Behind(i) /\ \A j \in 0 .. i - 1 : AfterWake[Behind(j)] # "READY"
  BY DEF Chosen
<1> DEFINE n == g_n_tasks
           a == Ahead(g_last)
           j == a - 1
<1>3. /\ a \in 1 .. n - 1 /\ j \in 0 .. n - 2
      /\ g_last < watched => a = watched - g_last
      /\ watched < g_last => a = watched - g_last + n
  BY <1>1 DEF Ahead
<1> HIDE DEF a
<1>4. \A k \in 0 .. n - 1 :
          Behind(k) = IF g_last + 1 + k < n THEN g_last + 1 + k ELSE (g_last + 1 + k) - n
  <2> TAKE k \in 0 .. n - 1
  <2> DEFINE x == g_last + 1 + k
  <2>1. x \in 0 .. 2 * n - 1 /\ n \in Nat \ {0}
    BY <1>1
  <2>2. Behind(k) = x % n
    BY Zenon DEF Behind
  <2> HIDE DEF x, n
  <2>3. x % n = IF x < n THEN x ELSE x - n
    BY <2>1, ModWrap
  <2>4. Behind(k) = IF x < n THEN x ELSE x - n
    BY <2>2, <2>3
  <2>5. QED
    BY <2>4 DEF x
<1>5. Behind(j) = watched
  <2>1. Behind(j) = IF g_last + 1 + j < n THEN g_last + 1 + j ELSE (g_last + 1 + j) - n
    <3>1. j \in 0 .. n - 1
      BY <1>1, <1>3
    <3> HIDE DEF j, n
    <3>2. QED
      BY <1>4, <3>1
  <2>2. QED
    BY <1>1, <1>3, <2>1
<1>6. i < j
  <2>1. j \notin 0 .. i - 1
    BY <1>2, <1>5
  <2>2. i # j
    BY <1>2, <1>5
  <2>3. QED
    BY <1>3, <2>1, <2>2
<1>7. t = IF g_last + 1 + i < n THEN g_last + 1 + i ELSE (g_last + 1 + i) - n
  BY <1>2, <1>4
<1>8. Ahead(t) < a
  BY <1>1, <1>3, <1>6, <1>7 DEF Ahead
<1>9. QED
  BY <1>8 DEF a

LEMMA SpinKeeps ==
    ASSUME SchedulerInv, g_cur = Scheduler, tstatus' = AfterWake, Spin,
           UNCHANGED <<g_n_tasks, wake, watched, asked>>
    PROVE  SchedulerInv'
<1>1. NoneReady /\ TimePasses /\ returned' \in BOOLEAN /\ UNCHANGED <<g_last, g_cur, ranSince>>
  BY DEF Spin
<1>2. RtosTypeOK'
  BY <1>1, AfterWakeTypes, TimeKeeps DEF SchedulerInv, RtosTypeOK
<1>3. watched \in Tcbs
  BY DEF SchedulerInv, RtosTypeOK
<1>4. SleepCounted'
  <2> SUFFICES ASSUME AfterWake[watched] = "SLEEPING"
               PROVE  /\ Congruent(wake[watched] + slept', cycle' + Due(asked), Wrap)
                      /\ slept' - Due(asked) < HalfWrap
    BY <1>1 DEF SleepCounted, Due
  <2>1. tstatus[watched] = "SLEEPING"
    BY <1>3, AfterWakeTypes
  <2>2. ~Overdue(slept, Due(asked))
    BY <2>1, WokenInTime
  <2>3. QED
    BY <1>1, <2>1, <2>2, TimeKeeps
<1>5. ranSince = {}
  BY <1>1, <1>3, AfterWakeTypes DEF NoneReady, SchedulerInv, TurnsOrdered
<1>6. TurnsOrdered'
  BY <1>1, <1>5 DEF TurnsOrdered
<1>7. g_cur' # watched'
  BY <1>1, <1>3 DEF Scheduler, Tcbs
<1>8. QED
  BY <1>1, <1>2, <1>4, <1>6, <1>7 DEF SchedulerInv

LEMMA DispatchKeeps ==
    ASSUME SchedulerInv, g_cur = Scheduler, tstatus' = AfterWake,
           NEW t \in Tcbs, Dispatch(t), UNCHANGED <<g_n_tasks, wake, watched, asked>>
    PROVE  SchedulerInv'
<1>1. /\ Chosen(t) /\ g_last' = t /\ g_cur' = t /\ UNCHANGED <<returned, cycle>>
      /\ ranSince' = IF t = watched THEN {}
                     ELSE IF AfterWake[watched] = "READY" THEN ranSince \cup {t} ELSE ranSince
      /\ slept' = IF t = watched THEN 0 ELSE slept
  BY DEF Dispatch
<1>2. /\ watched \in Tcbs /\ slept \in Nat /\ asked \in Nat /\ g_n_tasks \in Nat
      /\ ranSince \subseteq Tcbs
  BY DEF SchedulerInv, RtosTypeOK
<1>3. AfterWake[t] = "READY" /\ t < g_n_tasks
  <2>1. AfterWake[t] = "READY"
    BY <1>1 DEF Chosen
  <2>2. QED
    BY <1>2, <2>1, AfterWakeTypes DEF Tcbs
<1>4. RtosTypeOK'
  BY <1>1, <1>2, AfterWakeTypes DEF SchedulerInv, RtosTypeOK
<1>5. SleepCounted'
  <2> SUFFICES ASSUME AfterWake[watched] = "SLEEPING"
               PROVE  /\ Congruent(wake[watched] + slept', cycle + Due(asked), Wrap)
                      /\ slept' - Due(asked) < HalfWrap /\ ~Overdue(slept', Due(asked))
    BY <1>1 DEF SleepCounted, Due, Overdue
  <2>1. tstatus[watched] = "SLEEPING" /\ t # watched
    BY <1>2, <1>3, AfterWakeTypes
  <2>2. ~Overdue(slept, Due(asked))
    BY <2>1, WokenInTime
  <2>3. slept' = slept
    BY <1>1, <2>1
  <2>4. QED
    BY <2>1, <2>2, <2>3 DEF SchedulerInv, SleepCounted
<1>6. TurnsOrdered'
  <2> SUFFICES ASSUME ranSince' # {}
               PROVE  /\ AfterWake[watched] = "READY" /\ t # watched /\ t \in ranSince'
                      /\ \A x \in ranSince' : /\ x # watched /\ x < g_n_tasks
                                              /\ Ahead(t) <= Ahead(x)
    BY <1>1 DEF TurnsOrdered, Ahead
  <2>1. t # watched
    BY <1>1
  <2>2. AfterWake[watched] = "READY"
    BY <1>1, <1>2, AfterWakeTypes DEF SchedulerInv, TurnsOrdered
  <2>3. ranSince' = ranSince \cup {t}
    BY <1>1, <2>1, <2>2
  <2>4. ASSUME NEW x \in ranSince
        PROVE  x # watched /\ x < g_n_tasks /\ Ahead(t) <= Ahead(x)
    <3>1. Ahead(t) < Ahead(g_last)
      BY <1>1, <2>1, <2>2, Nearer
    <3>2. x # watched /\ x < g_n_tasks /\ Ahead(g_last) <= Ahead(x) /\ g_last \in ranSince
      BY DEF SchedulerInv, TurnsOrdered
    <3>3. Ahead(t) \in Int /\ Ahead(x) \in Int /\ Ahead(g_last) \in Int
      BY <1>2, <3>2 DEF Ahead, Tcbs
    <3>4. QED
      BY <3>1, <3>2, <3>3
  <2>5. Ahead(t) <= Ahead(t)
    BY <1>2 DEF Ahead, Tcbs
  <2>6. QED
    BY <1>3, <2>1, <2>2, <2>3, <2>4, <2>5
<1>7. g_cur' # Scheduler => tstatus'[g_cur'] = "READY"
  BY <1>1, <1>3
<1>8. g_last' < g_n_tasks' /\ (g_cur' = watched' => slept' = 0)
  BY <1>1, <1>3 DEF SchedulerInv
<1>9. QED
  BY <1>4, <1>5, <1>6, <1>7, <1>8 DEF SchedulerInv

\* The calls that give up the hart.
LEMMA TurnKeeps ==
    ASSUME SchedulerInv, TurnEnds
    PROVE  SchedulerInv'
<1>1. /\ g_cur # Scheduler /\ g_cur' = Scheduler /\ TimePasses
      /\ UNCHANGED <<g_n_tasks, g_last, returned, watched, ranSince>>
  BY DEF TurnEnds, task_yield, task_sleep_ms, task_exit, Running
<1>2. PICK u \in Tcbs : u = g_cur
  BY <1>1 DEF SchedulerInv, RtosTypeOK
<1>3. /\ watched \in Tcbs /\ slept \in Nat /\ asked \in Nat
      /\ tstatus \in [Tcbs -> {"NONE", "READY", "SLEEPING", "DEAD"}]
      /\ wake \in [Tcbs -> 0 .. Wrap - 1] /\ cycle \in 0 .. Wrap - 1
  BY DEF SchedulerInv, RtosTypeOK
<1>4. tstatus[u] = "READY" /\ (u = watched => slept = 0)
  BY <1>1, <1>2 DEF SchedulerInv
<1>5. PICK x \in {"READY", "SLEEPING", "DEAD"} :
          /\ tstatus' = [tstatus EXCEPT ![u] = x]
          /\ x # "SLEEPING" => wake' = wake /\ asked' = asked
          /\ x = "SLEEPING" =>
               \E d \in Sleeps : /\ wake' = [wake EXCEPT ![u] = (cycle' + d) % Wrap]
                                 /\ asked' = IF u = watched THEN d ELSE asked
  <2>1. CASE task_yield
    <3>1. tstatus' = [tstatus EXCEPT ![u] = "READY"]
      BY <1>3, <1>4, <2>1 DEF task_yield
    <3>2. QED
      BY <2>1, <3>1 DEF task_yield
  <2>2. CASE task_sleep_ms
    BY <1>2, <2>2 DEF task_sleep_ms
  <2>3. CASE task_exit
    BY <1>2, <2>3 DEF task_exit
  <2>4. QED
    BY <2>1, <2>2, <2>3 DEF TurnEnds
<1>6. /\ cycle' \in 0 .. Wrap - 1 /\ slept' \in Nat
      /\ tstatus[watched] # "SLEEPING" => slept' = slept
  BY <1>1, TimeKeeps
<1>7. wake' \in [Tcbs -> 0 .. Wrap - 1] /\ asked' \in Nat
  <2>1. CASE x # "SLEEPING"
    BY <1>3, <1>5, <2>1
  <2>2. CASE x = "SLEEPING"
    <3>1. PICK d \in Sleeps : /\ wake' = [wake EXCEPT ![u] = (cycle' + d) % Wrap]
                              /\ asked' = IF u = watched THEN d ELSE asked
      BY <1>5, <2>2
    <3>2. d \in Nat /\ cycle' \in Int
      BY <1>6, Halves
    <3>3. (cycle' + d) % Wrap \in 0 .. Wrap - 1
      BY <3>2, DeadlineSet
    <3>4. QED
      BY <1>3, <3>1, <3>2, <3>3
  <2>3. QED
    BY <2>1, <2>2
<1>8. /\ tstatus' \in [Tcbs -> {"NONE", "READY", "SLEEPING", "DEAD"}]
      /\ \A t \in Tcbs : tstatus'[t] = IF t = u THEN x ELSE tstatus[t]
  BY <1>3, <1>5
<1>9. RtosTypeOK'
  BY <1>1, <1>4, <1>6, <1>7, <1>8 DEF SchedulerInv, RtosTypeOK
<1>10. SleepCounted'
  <2> SUFFICES ASSUME tstatus'[watched] = "SLEEPING"
               PROVE  /\ Congruent(wake'[watched] + slept', cycle' + Due(asked'), Wrap)
                      /\ slept' - Due(asked') < HalfWrap
    BY <1>1 DEF SleepCounted, Due
  <2>1. CASE u = watched
    <3>1. x = "SLEEPING"
      BY <1>8, <2>1
    <3>2. PICK d \in Sleeps : /\ wake' = [wake EXCEPT ![u] = (cycle' + d) % Wrap]
                              /\ asked' = d
      BY <1>5, <2>1, <3>1
    <3>3. slept' = 0 /\ wake'[watched] = (cycle' + d) % Wrap
      BY <1>3, <1>4, <1>6, <2>1, <3>2
    <3>4. d \in Nat /\ cycle' \in Int
      BY <1>6, Halves
    <3>5. Congruent(((cycle' + d) % Wrap) + 0, cycle' + Due(d), Wrap)
      BY <3>4, DeadlineSet
    <3>6. Due(d) \in Nat
      BY <3>4, DueOnRing
    <3>7. QED
      BY <3>2, <3>3, <3>5, <3>6, Halves
  <2>2. CASE u # watched
    <3>1. tstatus[watched] = "SLEEPING"
      BY <1>3, <1>8, <2>2
    <3>2. ~Overdue(slept, Due(asked))
      BY <1>1, <3>1 DEF SchedulerInv, SleepCounted
    <3>3. wake'[watched] = wake[watched] /\ asked' = asked
      <4>1. CASE x # "SLEEPING"
        BY <1>5, <4>1
      <4>2. CASE x = "SLEEPING"
        BY <1>3, <1>5, <2>2, <4>2
      <4>3. QED
        BY <4>1, <4>2
    <3>4. QED
      BY <1>1, <3>1, <3>2, <3>3, TimeKeeps
  <2>3. QED
    BY <2>1, <2>2
<1>11. TurnsOrdered'
  <2> SUFFICES ASSUME ranSince # {}
               PROVE  TurnsOrdered'
    BY <1>1 DEF TurnsOrdered
  <2>1. u # watched /\ tstatus[watched] = "READY"
    BY <1>2 DEF SchedulerInv, TurnsOrdered
  <2>2. tstatus'[watched] = "READY" /\ g_cur' # watched
    BY <1>1, <1>3, <1>8, <2>1 DEF Scheduler, Tcbs
  <2>3. QED
    BY <1>1, <2>2 DEF SchedulerInv, TurnsOrdered, Ahead
<1>12. g_cur' # watched'
  BY <1>1, <1>3 DEF Scheduler, Tcbs
<1>13. g_last' < g_n_tasks'
  BY <1>1 DEF SchedulerInv
<1>14. QED
  BY <1>1, <1>7, <1>9, <1>10, <1>11, <1>12, <1>13 DEF SchedulerInv

\* A new task lies behind the others on the ring, and keeps their order.
LEMMA CreationKeeps ==
    ASSUME SchedulerInv, rtos_task_create
    PROVE  SchedulerInv'
<1>1. /\ g_cur # Scheduler /\ g_n_tasks < TaskSlots /\ g_n_tasks' = g_n_tasks + 1
      /\ tstatus' = [tstatus EXCEPT ![g_n_tasks] = "READY"]
      /\ wake' = [wake EXCEPT ![g_n_tasks] = 0]
      /\ UNCHANGED <<g_cur, g_last, cycle, returned, watched, asked, slept, ranSince>>
  BY DEF rtos_task_create, Running, history
<1>2. /\ RtosTypeOK /\ g_n_tasks \in Nat /\ g_n_tasks \in Tcbs /\ watched \in Tcbs
  BY <1>1, Halves DEF SchedulerInv, RtosTypeOK, Tcbs
<1>3. /\ tstatus' \in [Tcbs -> {"NONE", "READY", "SLEEPING", "DEAD"}]
      /\ \A t \in Tcbs : tstatus'[t] = IF t = g_n_tasks THEN "READY" ELSE tstatus[t]
  BY <1>1, <1>2 DEF RtosTypeOK
<1>4. /\ wake' \in [Tcbs -> 0 .. Wrap - 1]
      /\ \A t \in Tcbs : wake'[t] = IF t = g_n_tasks THEN 0 ELSE wake[t]
  <2>1. 0 \in 0 .. Wrap - 1
    BY Halves
  <2>2. QED
    BY <1>1, <1>2, <2>1 DEF RtosTypeOK
<1>5. RtosTypeOK'
  <2>1. \A t \in Tcbs : tstatus'[t] = "NONE" <=> t >= g_n_tasks'
    BY <1>1, <1>2, <1>3 DEF RtosTypeOK, Tcbs
  <2>2. g_n_tasks' \in 0 .. TaskSlots
    BY <1>1, <1>2, Halves
  <2>3. QED
    BY <1>1, <1>2, <1>3, <1>4, <2>1, <2>2 DEF RtosTypeOK
<1>6. SleepCounted'
  <2> SUFFICES ASSUME tstatus'[watched] = "SLEEPING"
               PROVE  /\ Congruent(wake'[watched] + slept, cycle + Due(asked), Wrap)
                      /\ slept - Due(asked) < HalfWrap /\ ~Overdue(slept, Due(asked))
    BY <1>1 DEF SleepCounted, Due, Overdue
  <2>1. watched # g_n_tasks /\ tstatus[watched] = "SLEEPING" /\ wake'[watched] = wake[watched]
    BY <1>2, <1>3, <1>4
  <2>2. QED
    BY <1>1, <2>1 DEF SchedulerInv, SleepCounted
<1>7. TurnsOrdered'
  <2> SUFFICES ASSUME ranSince # {}
               PROVE  TurnsOrdered'
    BY <1>1 DEF TurnsOrdered
  <2>1. /\ tstatus[watched] = "READY" /\ g_cur # watched /\ g_last \in ranSince
        /\ \A t \in ranSince : t # watched /\ t < g_n_tasks /\ Ahead(g_last) <= Ahead(t)
    BY DEF SchedulerInv, TurnsOrdered
  <2>2. tstatus'[watched] = "READY"
    BY <1>2, <1>3, <2>1
  <2>3. \A t \in ranSince : t \in Nat /\ watched \in Nat
    BY <1>2 DEF RtosTypeOK, Tcbs
  <2>4. watched < g_n_tasks
    BY <1>2, <2>1 DEF RtosTypeOK, Tcbs
  <2>5. PICK l \in ranSince : l = g_last
    BY <2>1
  <2>6. ASSUME NEW t \in ranSince
        PROVE  t < g_n_tasks' /\ Ahead(l)' <= Ahead(t)'
    BY <1>1, <1>2, <2>1, <2>3, <2>4, <2>5 DEF Ahead
  <2>7. QED
    BY <1>1, <2>1, <2>2, <2>5, <2>6 DEF TurnsOrdered, Ahead
<1>8. tstatus'[g_cur'] = "READY"
  <2>1. g_cur \in Tcbs /\ tstatus[g_cur] = "READY"
    BY <1>1, <1>2 DEF SchedulerInv, RtosTypeOK
  <2>2. QED
    BY <1>1, <1>3, <2>1
<1>9. g_last' < g_n_tasks' /\ (g_cur' = watched' => slept' = 0)
  <2>1. g_last \in Int /\ g_last < g_n_tasks
    BY <1>2 DEF SchedulerInv, RtosTypeOK, Tcbs
  <2>2. QED
    BY <1>1, <1>2, <2>1 DEF SchedulerInv
<1>10. QED
  BY <1>5, <1>6, <1>7, <1>8, <1>9 DEF SchedulerInv

LEMMA SchedulerStep == SchedulerInv /\ [RtosNext]_rtosVars => SchedulerInv'
<1> SUFFICES ASSUME SchedulerInv, [RtosNext]_rtosVars
             PROVE  SchedulerInv'
  OBVIOUS
<1>1. CASE UNCHANGED rtosVars
  <2>1. UNCHANGED <<g_n_tasks, tstatus, wake, g_cur, g_last, cycle, returned, watched,
                    asked, slept, ranSince>>
    BY <1>1 DEF rtosVars, history
  <2>2. QED
    BY <2>1 DEF SchedulerInv, RtosTypeOK, SleepCounted, Overdue, Due, TurnsOrdered, Ahead
<1>2. CASE Iterate
  <2>1. /\ g_cur = Scheduler /\ tstatus' = AfterWake
        /\ UNCHANGED <<g_n_tasks, wake, watched, asked>>
        /\ Spin \/ \E t \in Tcbs : Dispatch(t)
    BY <1>2 DEF Iterate
  <2>2. QED
    BY <2>1, SpinKeeps, DispatchKeeps
<1>3. CASE TurnEnds
  BY <1>3, TurnKeeps
<1>4. CASE rtos_task_create
  BY <1>4, CreationKeeps
<1>5. QED
  BY <1>1, <1>2, <1>3, <1>4 DEF RtosNext

LEMMA SchedulerInvariant == RtosSpec => []SchedulerInv
  BY SchedulerBegins, SchedulerStep, PTL DEF RtosSpec

\* The types of the scheduler's state (rtos.c).
THEOREM RtosTypeCorrect == RtosSpec => []RtosTypeOK
<1>1. SchedulerInv => RtosTypeOK
  BY DEF SchedulerInv
<1>2. QED
  BY <1>1, SchedulerInvariant, PTL

\* The signed comparison of rtos_run wakes a sleeper in the first iteration at
\* or after its deadline and in none before, for every width of the counter,
\* wherever it wraps, and for every sleep: but one that comes to more than half
\* the range, with more than half of it left, it wakes as well.
THEOREM RtosWakesExactly == RtosSpec => WakesExactly
<1>1. ASSUME SchedulerInv, Iterate, tstatus[watched] = "SLEEPING"
      PROVE  tstatus'[watched] = "READY" <=>
               slept >= Due(asked) \/ slept + HalfWrap < Due(asked)
  <2>1. tstatus' = AfterWake
    BY <1>1 DEF Iterate
  <2>2. QED
    BY <1>1, <2>1, WokenInTime DEF Overdue
<1>2. SchedulerInv /\ [RtosNext]_rtosVars =>
         [Iterate /\ tstatus[watched] = "SLEEPING" =>
            (tstatus'[watched] = "READY" <=>
               slept >= Due(asked) \/ slept + HalfWrap < Due(asked))]_rtosVars
  BY <1>1
<1>3. QED
  BY <1>2, SchedulerInvariant, PTL DEF RtosSpec, WakesExactly

ShortSleeps == \A d \in Sleeps : d <= HalfWrap

AskedShort == asked \in Nat /\ asked <= HalfWrap

LEMMA AsksStayShort == ASSUME ShortSleeps PROVE RtosSpec => []AskedShort
<1>1. RtosInit => AskedShort
  BY Halves DEF RtosInit, AskedShort
<1>2. AskedShort /\ [RtosNext]_rtosVars => AskedShort'
  <2>1. ASSUME RtosNext
        PROVE  asked' = asked \/ asked' \in Sleeps
    BY <2>1 DEF RtosNext, Iterate, TurnEnds, task_yield, task_sleep_ms, task_exit,
                rtos_task_create, history
  <2>2. QED
    BY <2>1, Halves DEF ShortSleeps, AskedShort, rtosVars, history
<1>3. QED
  BY <1>1, <1>2, PTL DEF RtosSpec

\* So if no sleep asks for more than half the counter's range, none ends before
\* it has lasted as long as it was asked to (task_sleep_ms).  Run rtos_sleep
\* shows what becomes of one that does.
THEOREM RtosSleepLasts == ASSUME ShortSleeps PROVE RtosSpec => SleepLasts
<1>1. ASSUME SchedulerInv, AskedShort, Iterate, tstatus[watched] = "SLEEPING",
             tstatus'[watched] = "READY"
      PROVE  slept >= asked
  <2>1. tstatus' = AfterWake
    BY <1>1 DEF Iterate
  <2>2. Overdue(slept, Due(asked)) /\ slept \in Nat
    BY <1>1, <2>1, WokenInTime DEF SchedulerInv, RtosTypeOK
  <2>3. Due(asked) = asked
    BY <1>1, Halves DEF Due, AskedShort
  <2>4. QED
    BY <1>1, <2>2, <2>3, Halves DEF Overdue, AskedShort
<1>2. SchedulerInv /\ AskedShort /\ [RtosNext]_rtosVars =>
         [Iterate /\ tstatus[watched] = "SLEEPING" /\ tstatus'[watched] = "READY" =>
            slept >= asked]_rtosVars
  BY <1>1
<1>3. QED
  BY <1>2, AsksStayShort, SchedulerInvariant, PTL DEF RtosSpec, SleepLasts

\* The search of rtos_run gives no task the hart twice while another is ready
\* and waits, for any number of tasks, created when they may.
THEOREM RtosNotOvertaken == RtosSpec => NotOvertaken
<1>1. ASSUME SchedulerInv, NEW t \in Tcbs, Iterate, g_cur' = t, t # watched,
             tstatus'[watched] = "READY", t \in ranSince
      PROVE  FALSE
  <2>1. tstatus' = AfterWake /\ g_cur = Scheduler /\ (Spin \/ \E u \in Tcbs : Dispatch(u))
    BY <1>1 DEF Iterate
  <2>2. ~Spin
    <3>1. t # Scheduler
      BY Halves DEF Scheduler, Tcbs
    <3>2. QED
      BY <1>1, <2>1, <3>1 DEF Spin
  <2>3. Chosen(t)
    BY <1>1, <2>1, <2>2 DEF Dispatch
  <2>4. Ahead(t) < Ahead(g_last)
    BY <1>1, <2>1, <2>3, Nearer
  <2>5. Ahead(g_last) <= Ahead(t) /\ g_last \in ranSince
    BY <1>1 DEF SchedulerInv, TurnsOrdered
  <2>6. Ahead(t) \in Int /\ Ahead(g_last) \in Int
    BY <1>1, <2>5 DEF Ahead, SchedulerInv, RtosTypeOK, Tcbs
  <2>7. QED
    BY <2>4, <2>5, <2>6
<1>2. SchedulerInv /\ [RtosNext]_rtosVars =>
         [\A t \in Tcbs : Iterate /\ g_cur' = t /\ t # watched
                          /\ tstatus'[watched] = "READY" => t \notin ranSince]_rtosVars
  BY <1>1
<1>3. QED
  BY <1>2, SchedulerInvariant, PTL DEF RtosSpec, NotOvertaken

----------------------------------------------------------------------------
(* The spinlock *)

OneHart == Harts = {0}

\* The running thread's reservation and register still describe the lock.
Fresh ==
    \A t \in Threads :
        running[0] = t /\ resv[0] = target[t] =>
            /\ pc[t] = "branch" => reg[t] = lock[target[t]]
            /\ pc[t] = "sc" => lock[target[t]] = 0

LockInv == TypeOK /\ Fresh /\ LockFaithful /\ MutualExclusion /\ NoLostUpdate

LEMMA OneHartTurn == ASSUME OneHart PROVE NumHarts = 1
<1>1. IsFiniteSet({0}) /\ Cardinality({0}) = 1
  BY FS_Singleton
<1>2. QED
  BY <1>1 DEF OneHart, NumHarts

\* The initial state.
LEMMA LrScInit == ASSUME OneHart, Init PROVE LockInv
<1>1. TypeOK
  BY LrScAssumption DEF Init, TypeOK, OneHart, NumHarts, Critical
<1>2. Fresh /\ LockFaithful /\ MutualExclusion /\ NoLostUpdate
  BY LrScAssumption DEF Init, Fresh, LockFaithful, MutualExclusion, NoLostUpdate, Critical
<1>3. QED
  BY <1>1, <1>2 DEF LockInv

\* Counters stay within their modulus.
LEMMA IncrementedType == ASSUME NEW v \in Nat PROVE Incremented(v) \in 0 .. CountMod - 1
  BY LrScAssumption DEF Incremented

LEMMA LrScType == ASSUME OneHart, TypeOK, Next PROVE TypeOK'
<1>1. PICK h \in Harts : Step(h)
  BY DEF Next
<1>2. h = 0 /\ turn' \in Harts
  BY <1>1, OneHartTurn, LrScAssumption DEF OneHart, Step, Stepped, TypeOK
<1>3. CASE running[h] # None /\ Instruction(h, running[h])
  <2> DEFINE t == running[h]
  <2>1. t \in Threads /\ UNCHANGED running
    BY <1>1, <1>3 DEF TypeOK, Instruction
  <2> HIDE DEF t
  <2>2. CASE Call(t)
    BY <1>2, <2>1, <2>2 DEF TypeOK, Call, Goto
  <2>3. CASE Branch(t)
    BY <1>2, <2>1, <2>3 DEF TypeOK, Branch, Goto, Refused
  <2>4. CASE LoadReserved(h, t)
    BY <1>1, <1>2, <2>1, <2>4 DEF TypeOK, LoadReserved, Goto
  <2>5. CASE StoreConditional(h, t)
    BY <1>1, <1>2, <2>1, <2>5 DEF TypeOK, StoreConditional, Goto, Refused, Critical
  <2>6. CASE LoadCounter(t)
    BY <1>2, <2>1, <2>6, LrScAssumption DEF TypeOK, LoadCounter, Goto, Critical
  <2>7. CASE StoreCounter(t)
    <3>1. Incremented(reg[t]) \in 0 .. CountMod - 1
      BY <2>1, IncrementedType DEF TypeOK
    <3>2. QED
      BY <1>2, <2>1, <2>7, <3>1 DEF TypeOK, StoreCounter, Goto, Critical
  <2>8. CASE Unlock(t)
    BY <1>2, <2>1, <2>8 DEF TypeOK, Unlock, Goto
  <2>9. QED
    BY <1>3, <2>2, <2>3, <2>4, <2>5, <2>6, <2>7, <2>8 DEF Instruction, t
<1>4. CASE Trap(h)
  BY <1>2, <1>4 DEF TypeOK, Trap, thread
<1>5. CASE HandlerLoadReserved(h)
  BY <1>2, <1>5 DEF TypeOK, HandlerLoadReserved, thread
<1>6. CASE Resume(h)
  BY <1>2, <1>6 DEF TypeOK, Resume, AfterReturn, thread
<1>7. QED
  BY <1>1, <1>3, <1>4, <1>5, <1>6 DEF Step

\* One step keeps the invariant: the running thread is the only one that moves.
LEMMA LrScStep == ASSUME OneHart, LockInv, [Next]_vars PROVE LockInv'
<1>1. CASE UNCHANGED vars
  BY <1>1 DEF vars, thread, LockInv, TypeOK, Fresh, LockFaithful, MutualExclusion, NoLostUpdate
<1>2. CASE Next
  <2>1. PICK h \in Harts : Step(h)
    BY <1>2 DEF Next
  <2>2. h = 0 /\ TypeOK /\ TypeOK'
    BY <1>2, <2>1, LrScType DEF OneHart, LockInv
  <2>3. CASE running[h] # None /\ Instruction(h, running[h])
    <3> DEFINE t == running[h]
    <3>1. t \in Threads /\ t = running[0] /\ UNCHANGED running
      BY <2>1, <2>2, <2>3 DEF TypeOK, Instruction
    <3> HIDE DEF t
    <3>2. CASE Call(t)
      BY <2>2, <3>1, <3>2
      DEF TypeOK, LockInv, Fresh, LockFaithful, MutualExclusion, NoLostUpdate, Call, Goto, Critical
    <3>3. CASE Branch(t)
      BY <2>2, <3>1, <3>3
      DEF TypeOK, LockInv, Fresh, LockFaithful, MutualExclusion, NoLostUpdate, Branch, Goto,
          Refused, Critical
    <3>4. CASE LoadReserved(h, t)
      BY <2>2, <3>1, <3>4
      DEF TypeOK, LockInv, Fresh, LockFaithful, MutualExclusion, NoLostUpdate, LoadReserved,
          Goto, Critical
    <3>5. CASE StoreConditional(h, t)
      <4>1. CASE Paired(h, t)
        <5>1. lock[target[t]] = 0
          BY <2>2, <3>1, <3>5, <4>1 DEF LockInv, Fresh, StoreConditional, Paired
        <5>2. QED
          BY <2>2, <3>1, <3>5, <4>1, <5>1
          DEF TypeOK, LockInv, Fresh, LockFaithful, MutualExclusion, NoLostUpdate,
              StoreConditional, Goto, Critical
      <4>2. CASE ~Paired(h, t)
        BY <2>2, <3>1, <3>5, <4>2
        DEF TypeOK, LockInv, Fresh, LockFaithful, MutualExclusion, NoLostUpdate,
            StoreConditional, Goto, Refused, Critical
      <4>3. QED
        BY <4>1, <4>2
    <3>6. CASE LoadCounter(t)
      BY <2>2, <3>1, <3>6
      DEF TypeOK, LockInv, Fresh, LockFaithful, MutualExclusion, NoLostUpdate, LoadCounter,
          Goto, Critical
    <3>7. CASE StoreCounter(t)
      BY <2>2, <3>1, <3>7
      DEF TypeOK, LockInv, Fresh, LockFaithful, MutualExclusion, NoLostUpdate, StoreCounter,
          Goto, Critical
    <3>8. CASE Unlock(t)
      BY <2>2, <3>1, <3>8
      DEF TypeOK, LockInv, Fresh, LockFaithful, MutualExclusion, NoLostUpdate, Unlock,
          Goto, Critical
    <3>9. QED
      BY <2>3, <3>2, <3>3, <3>4, <3>5, <3>6, <3>7, <3>8 DEF Instruction, t
  <2>4. CASE Trap(h)
    BY <2>2, <2>4, LrScAssumption
    DEF TypeOK, LockInv, Fresh, LockFaithful, MutualExclusion, NoLostUpdate, Trap,
        thread, Critical
  <2>5. CASE running[h] = None /\ HandlerLoadReserved(h)
    BY <2>2, <2>5, LrScAssumption
    DEF TypeOK, LockInv, Fresh, LockFaithful, MutualExclusion, NoLostUpdate,
        HandlerLoadReserved, thread, Critical
  <2>6. CASE Resume(h)
    BY <2>2, <2>6, LrScAssumption
    DEF TypeOK, LockInv, Fresh, LockFaithful, MutualExclusion, NoLostUpdate, Resume,
        AfterReturn, thread, Critical
  <2>7. QED
    BY <2>1, <2>3, <2>4, <2>5, <2>6 DEF Step
<1>3. QED
  BY <1>1, <1>2

LEMMA LrScInvariant == ASSUME OneHart PROVE Spec => []LockInv
<1>1. Init => LockInv
  BY LrScInit
<1>2. LockInv /\ [Next]_vars => LockInv'
  BY LrScStep
<1>3. QED
  BY <1>1, <1>2, PTL DEF Spec

\* On one hart no two threads hold one mutex, whatever traps fall between the
\* LR and the SC of pthread_mutex_lock.
THEOREM LrScMutualExclusion == ASSUME OneHart PROVE Spec => []MutualExclusion
<1>1. LockInv => MutualExclusion
  BY DEF LockInv
<1>2. QED
  BY <1>1, LrScInvariant, PTL

\* The mutex word is set exactly while some thread is inside.
THEOREM LrScLockFaithful == ASSUME OneHart PROVE Spec => []LockFaithful
<1>1. LockInv => LockFaithful
  BY DEF LockInv
<1>2. QED
  BY <1>1, LrScInvariant, PTL

\* No increment of a guarded counter is lost.
THEOREM LrScNoLostUpdate == ASSUME OneHart PROVE Spec => []NoLostUpdate
<1>1. LockInv => NoLostUpdate
  BY DEF LockInv
<1>2. QED
  BY <1>1, LrScInvariant, PTL

----------------------------------------------------------------------------
(* The counter routines *)

\* The high half k steps after h.
Rolled(h, k) == IF h + k < Radix THEN h + k ELSE h + k - Radix

LoadsTwice == {"cycle", "cycleh again"}

\* Which routine is at its loads.
AtOwnLoads ==
    /\ at \in {"cycleh"} \cup LoadsTwice => routine = "read_cycle"
    /\ at \in {"mtime", "mtime low", "mtime high"} => routine = "read_mtime"

\* The history of the round follows the counter.
Tracked ==
    at \in LoadsTwice =>
        /\ counter \in held
        /\ counter.hi = Rolled(hi1, carries)
        /\ at = "cycle" => carries < Radix - 1

\* If the high half has not moved, the two halves loaded are one value.
Whole == at = "cycleh again" /\ carries = 0 => [hi |-> hi1, lo |-> lo] \in held

IInv == CountersTypeOK /\ AtOwnLoads /\ Tracked /\ Whole /\ CycleReadExact

USE CountersAssumption

\* One advance of the counter keeps its type and moves the high half by what
\* the history counts.
LEMMA AdvanceStep ==
    ASSUME counter \in Pair, stopped \in BOOLEAN, Advance
    PROVE  /\ counter' \in Pair
           /\ stopped' = stopped
           /\ counter'.hi \in {counter.hi, NextHalf(counter.hi)}
  <1>1. PICK n \in 1 .. MaxCost : counter' = IF stopped THEN counter ELSE Added(counter, n)
    BY DEF Advance
  <1>2. n \in Nat /\ n <= Radix /\ n > 0
    OBVIOUS
  <1>3. /\ Added(counter, n) \in Pair
        /\ Added(counter, n).hi \in {counter.hi, NextHalf(counter.hi)}
    <2>1. CASE counter.lo + n < Radix
      BY <1>2, <2>1 DEF Added, Pair, Half
    <2>2. CASE ~(counter.lo + n < Radix)
      BY <1>2, <2>2 DEF Added, NextHalf, Pair, Half
    <2> QED BY <2>1, <2>2
  <1> QED BY <1>1, <1>3 DEF Advance

\* What Observe does to the two facts the round relies on.
LEMMA ObserveStep ==
    ASSUME counter \in Pair, counter' \in Pair, hi1 \in Half,
           NEW h \in SUBSET Pair, NEW k \in Half, k < Radix - 1,
           counter'.hi \in {counter.hi, NextHalf(counter.hi)},
           counter.hi = Rolled(hi1, k),
           Observe(h, k)
    PROVE  /\ held' \subseteq Pair /\ h \subseteq held' /\ counter' \in held'
           /\ carries' \in Half
           /\ counter'.hi = Rolled(hi1, carries')
           /\ carries' = 0 => k = 0 /\ counter'.hi = counter.hi
  <1>1. carries' \in Half
    BY DEF Observe, Half
  <1>2. counter'.hi = Rolled(hi1, carries')
    <2>1. CASE counter'.hi = counter.hi
      BY <2>1 DEF Observe
    <2>2. CASE counter'.hi # counter.hi
      <3>1. carries' = k + 1 /\ counter'.hi = NextHalf(counter.hi)
        BY <2>2 DEF Observe
      <3> QED BY <3>1 DEF Rolled, NextHalf, Half
    <2> QED BY <2>1, <2>2
  <1> QED BY <1>1, <1>2 DEF Observe, Half

LEMMA CountersInitially == CountersInit => IInv
  <1> SUFFICES ASSUME CountersInit PROVE IInv
    OBVIOUS
  <1>1. 0 \in Half /\ counter = [hi |-> 0, lo |-> 0] /\ result = counter /\ held = {counter}
    BY DEF CountersInit, Half
  <1>2. counter \in Pair /\ result \in Pair /\ held \subseteq Pair
    BY <1>1 DEF Pair
  <1>3. CountersTypeOK
    BY <1>1, <1>2 DEF CountersInit, CountersTypeOK
  <1>4. AtOwnLoads /\ Tracked /\ Whole /\ CycleReadExact
    BY <1>1 DEF CountersInit, AtOwnLoads, Tracked, Whole, CycleReadExact, LoadsTwice
  <1> QED BY <1>3, <1>4 DEF IInv

LEMMA CountersStep == IInv /\ [CountersNext]_counterVars => IInv'
  <1> SUFFICES ASSUME IInv, [CountersNext]_counterVars PROVE IInv'
    OBVIOUS
  <1> USE DEF IInv
  <1>1. CASE OtherCode
    <2>1. /\ counter' \in Pair /\ stopped' = stopped
          /\ counter'.hi \in {counter.hi, NextHalf(counter.hi)}
      BY <1>1, AdvanceStep DEF OtherCode, CountersTypeOK
    <2>2. held' \subseteq Pair /\ held \subseteq held' /\ carries' \in Half
      BY <1>1, <2>1 DEF OtherCode, Observe, CountersTypeOK, Half
    <2>3. CountersTypeOK'
      BY <1>1, <2>1, <2>2 DEF OtherCode, CountersTypeOK
    <2>4. AtOwnLoads' /\ CycleReadExact'
      BY <1>1 DEF OtherCode, AtOwnLoads, CycleReadExact, LoadsTwice
    <2>5. ASSUME at \in LoadsTwice
          PROVE  /\ counter' \in held' /\ counter'.hi = Rolled(hi1, carries')
                 /\ carries' = 0 => carries = 0
      <3>1. carries < Radix - 1
        BY <1>1 DEF OtherCode, Observe, CountersTypeOK, Half
      <3> QED BY <1>1, <2>1, <2>5, <3>1, ObserveStep DEF OtherCode, Tracked, CountersTypeOK
    <2>6. Tracked'
      BY <1>1, <2>5 DEF OtherCode, Tracked
    <2>7. Whole'
      BY <1>1, <2>2, <2>5 DEF OtherCode, Whole, LoadsTwice
    <2> QED BY <2>3, <2>4, <2>6, <2>7
  <1>2. CASE BetweenCalls
    BY <1>2 DEF BetweenCalls, CountersTypeOK, AtOwnLoads, Tracked, Whole, CycleReadExact, LoadsTwice
  <1>3. CASE CallRoutine
    BY <1>3 DEF CallRoutine, CountersTypeOK, AtOwnLoads, Tracked, Whole, CycleReadExact, LoadsTwice, Loads
  <1>4. CASE ReadHigh
    <2>1. /\ counter' \in Pair /\ stopped' = stopped
          /\ counter'.hi \in {counter.hi, NextHalf(counter.hi)}
      BY <1>4, AdvanceStep DEF ReadHigh, CountersTypeOK
    <2>2. held' = {counter, counter'} /\ carries' = IF counter'.hi = counter.hi THEN 0 ELSE 1
      BY <1>4 DEF ReadHigh, Observe
    <2>3. hi1' = counter.hi /\ hi1' \in Half /\ at' = "cycle"
      BY <1>4 DEF ReadHigh, CountersTypeOK, Pair
    <2>4. counter'.hi = Rolled(hi1', carries')
      <3>1. CASE counter'.hi = counter.hi
        BY <2>2, <2>3, <3>1 DEF Rolled, Half
      <3>2. CASE counter'.hi # counter.hi
        BY <2>1, <2>2, <2>3, <3>2 DEF Rolled, NextHalf, Half
      <3> QED BY <3>1, <3>2
    <2>5. CountersTypeOK'
      BY <1>4, <2>1, <2>2, <2>3 DEF ReadHigh, CountersTypeOK, Half, Loads
    <2>6. AtOwnLoads' /\ Whole' /\ CycleReadExact'
      BY <1>4, <2>3 DEF ReadHigh, AtOwnLoads, Whole, CycleReadExact, LoadsTwice
    <2>7. Tracked'
      BY <2>2, <2>3, <2>4 DEF Tracked
    <2> QED BY <2>5, <2>6, <2>7
  <1>5. CASE ReadLow
    <2>1. /\ counter' \in Pair /\ stopped' = stopped
          /\ counter'.hi \in {counter.hi, NextHalf(counter.hi)}
      BY <1>5, AdvanceStep DEF ReadLow, CountersTypeOK
    <2>2. at = "cycle" /\ at' = "cycleh again" /\ hi1' = hi1 /\ lo' = counter.lo /\ routine' = routine
      BY <1>5 DEF ReadLow
    <2>3. counter \in held /\ counter.hi = Rolled(hi1, carries) /\ carries < Radix - 1
      BY <2>2 DEF Tracked, LoadsTwice
    <2>4. /\ held' \subseteq Pair /\ held \subseteq held' /\ counter' \in held'
          /\ carries' \in Half
          /\ counter'.hi = Rolled(hi1, carries')
          /\ carries' = 0 => carries = 0
      BY <1>5, <2>1, <2>3, ObserveStep DEF ReadLow, CountersTypeOK
    <2>5. CountersTypeOK'
      BY <1>5, <2>1, <2>2, <2>4 DEF ReadLow, CountersTypeOK, Pair, Loads
    <2>6. AtOwnLoads' /\ CycleReadExact' /\ Tracked'
      BY <2>2, <2>4 DEF AtOwnLoads, CycleReadExact, Tracked, LoadsTwice
    <2>7. ASSUME carries' = 0 PROVE [hi |-> hi1, lo |-> counter.lo] \in held'
      <3>1. counter.hi = hi1
        BY <2>3, <2>4, <2>7 DEF Rolled, CountersTypeOK, Half
      <3>2. counter = [hi |-> hi1, lo |-> counter.lo]
        BY <3>1 DEF CountersTypeOK, Pair
      <3> QED BY <2>3, <2>4, <3>2
    <2>8. Whole'
      BY <2>2, <2>7 DEF Whole
    <2> QED BY <2>5, <2>6, <2>8
  <1>6. CASE ReadHighAgain
    <2>1. counter' \in Pair /\ stopped' = stopped
      BY <1>6, AdvanceStep DEF ReadHighAgain, CountersTypeOK
    <2>2. /\ at = "cycleh again" /\ routine = "read_cycle"
          /\ UNCHANGED <<routine, hi1, lo, held, carries>>
      BY <1>6 DEF ReadHighAgain, AtOwnLoads, LoadsTwice
    <2>3. CASE hi1 = counter.hi
      <3>1. at' = "idle" /\ result' = [hi |-> hi1, lo |-> lo]
        BY <1>6, <2>3 DEF ReadHighAgain, Settled
      <3>2. counter.hi = Rolled(hi1, carries)
        BY <2>2 DEF Tracked, LoadsTwice
      <3>3. carries = 0
        BY <2>3, <3>2 DEF Rolled, CountersTypeOK, Half
      <3>4. result' \in held'
        BY <2>2, <3>1, <3>3 DEF Whole
      <3>5. CountersTypeOK'
        BY <2>1, <2>2, <3>1 DEF CountersTypeOK, Pair
      <3> QED BY <2>2, <3>1, <3>4, <3>5 DEF AtOwnLoads, Tracked, Whole, CycleReadExact, LoadsTwice
    <2>4. CASE hi1 # counter.hi
      <3>1. at' = "cycleh" /\ result' = result
        BY <1>6, <2>4 DEF ReadHighAgain, Settled
      <3>2. CountersTypeOK'
        BY <2>1, <2>2, <3>1 DEF CountersTypeOK, Loads
      <3> QED BY <2>2, <3>1, <3>2 DEF AtOwnLoads, Tracked, Whole, CycleReadExact, LoadsTwice
    <2> QED BY <2>3, <2>4
  <1>7. CASE MtimeFirst
    <2>1. counter' \in Pair /\ stopped' = stopped
      BY <1>7, AdvanceStep DEF MtimeFirst, CountersTypeOK
    <2>2. held' \subseteq Pair /\ carries' \in Half
      <3>1. Observe({counter}, 0)
        BY <1>7 DEF MtimeFirst
      <3>2. held' = {counter} \cup {counter'}
        BY <3>1 DEF Observe
      <3>3. carries' = IF counter'.hi = counter.hi THEN 0 ELSE 1
        BY <3>1 DEF Observe
      <3> QED BY <2>1, <3>2, <3>3 DEF CountersTypeOK, Half
    <2>3. hi1' \in Half /\ lo' \in Half /\ at' \in {"mtime low", "mtime high"}
      BY <1>7 DEF MtimeFirst, CountersTypeOK, Pair
    <2>4. routine' = routine /\ routine = "read_mtime" /\ result' = result
      BY <1>7 DEF MtimeFirst, AtOwnLoads
    <2>5. CountersTypeOK'
      BY <2>1, <2>2, <2>3, <2>4 DEF CountersTypeOK, Loads
    <2> QED BY <2>3, <2>4, <2>5 DEF AtOwnLoads, Tracked, Whole, CycleReadExact, LoadsTwice
  <1>8. CASE MtimeSecond
    <2>1. counter' \in Pair /\ stopped' = stopped
      BY <1>8, AdvanceStep DEF MtimeSecond, CountersTypeOK
    <2>2. hi1' \in Half /\ lo' \in Half /\ at' = "idle"
      BY <1>8 DEF MtimeSecond, CountersTypeOK, Pair
    <2>3. routine' = routine /\ routine = "read_mtime" /\ result' = [hi |-> hi1', lo |-> lo']
      BY <1>8 DEF MtimeSecond, AtOwnLoads
    <2>4. held' = held /\ carries' = carries
      BY <1>8 DEF MtimeSecond
    <2>5. CountersTypeOK'
      BY <2>1, <2>2, <2>3, <2>4 DEF CountersTypeOK, Pair
    <2> QED BY <2>2, <2>3, <2>5 DEF AtOwnLoads, Tracked, Whole, CycleReadExact, LoadsTwice
  <1>9. CASE UNCHANGED counterVars
    BY <1>9 DEF counterVars, CountersTypeOK, AtOwnLoads, Tracked, Whole, CycleReadExact
  <1> QED BY <1>1, <1>2, <1>3, <1>4, <1>5, <1>6, <1>7, <1>8, <1>9 DEF CountersNext

\* Every value read_cycle returns is one the counter held during the call,
\* whatever the width of the halves and whatever runs between its loads.
THEOREM CountersReadExact == CountersSpec => []CycleReadExact
  <1>1. CountersSpec => []IInv
    BY CountersInitially, CountersStep, PTL DEF CountersSpec
  <1>2. IInv => CycleReadExact
    BY DEF IInv
  <1> QED BY <1>1, <1>2, PTL

----------------------------------------------------------------------------
(* read_mtime *)

\* What read_mtime knows between its two loads.
Halfway ==
    /\ at \in {"mtime low", "mtime high"} => counter \in held
    /\ at = "mtime low" /\ carries = 0 => counter.hi = hi1
    /\ at = "mtime high" /\ carries = 0 => [hi |-> counter.hi, lo |-> lo] \in held

MInv == Halfway /\ MtimeTearsOnCarry

LEMMA MtimeInitially == CountersInit => MInv
  BY DEF CountersInit, MInv, Halfway, MtimeTearsOnCarry

\* The history never forgets a value, nor a carry.
LEMMA ObserveKeeps ==
    ASSUME counter \in Pair, counter' \in Pair,
           NEW h \in SUBSET Pair, NEW k \in Half, Observe(h, k)
    PROVE  /\ h \subseteq held' /\ counter' \in held'
           /\ carries' = 0 => k = 0 /\ counter'.hi = counter.hi
  BY DEF Observe, Half

LEMMA MtimeStep == IInv /\ MInv /\ [CountersNext]_counterVars => MInv'
  <1> SUFFICES ASSUME IInv, MInv, [CountersNext]_counterVars PROVE MInv'
    OBVIOUS
  <1> USE DEF MInv
  <1>0. CountersTypeOK /\ AtOwnLoads
    BY DEF IInv
  <1>1. CASE OtherCode
    <2>1. counter' \in Pair /\ Observe(held, carries)
      BY <1>0, <1>1, AdvanceStep DEF OtherCode, CountersTypeOK
    <2>2. /\ held \subseteq held' /\ counter' \in held'
          /\ carries' = 0 => carries = 0 /\ counter'.hi = counter.hi
      BY <1>0, <2>1, ObserveKeeps DEF CountersTypeOK
    <2>3. UNCHANGED <<at, hi1, lo>> /\ at' # "idle"
      BY <1>1 DEF OtherCode
    <2> QED BY <2>2, <2>3 DEF Halfway, MtimeTearsOnCarry
  <1>2. CASE BetweenCalls
    BY <1>2 DEF BetweenCalls, Halfway, MtimeTearsOnCarry
  <1>3. CASE CallRoutine
    BY <1>3 DEF CallRoutine, Halfway, MtimeTearsOnCarry
  <1>4. CASE ReadHigh
    BY <1>4 DEF ReadHigh, Halfway, MtimeTearsOnCarry
  <1>5. CASE ReadLow
    BY <1>5 DEF ReadLow, Halfway, MtimeTearsOnCarry
  <1>6. CASE ReadHighAgain
    <2>1. routine' = "read_cycle" /\ at' \in {"idle", "cycleh"}
      BY <1>0, <1>6 DEF ReadHighAgain, AtOwnLoads, LoadsTwice
    <2> QED BY <2>1 DEF Halfway, MtimeTearsOnCarry
  <1>7. CASE MtimeFirst
    <2>1. counter \in Pair /\ counter' \in Pair /\ Observe({counter}, 0)
      BY <1>0, <1>7, AdvanceStep DEF MtimeFirst, CountersTypeOK
    <2>2. 0 \in Half
      BY DEF Half
    <2>3. /\ counter \in held' /\ counter' \in held'
          /\ carries' = 0 => counter'.hi = counter.hi
      BY <2>1, <2>2, ObserveKeeps
    <2>4. counter = [hi |-> counter.hi, lo |-> counter.lo]
      BY <2>1 DEF Pair
    <2>5. CASE hi1' = counter.hi /\ at' = "mtime low"
      BY <2>3, <2>5 DEF Halfway, MtimeTearsOnCarry
    <2>6. CASE lo' = counter.lo /\ at' = "mtime high"
      BY <2>3, <2>4, <2>6 DEF Halfway, MtimeTearsOnCarry
    <2> QED BY <1>7, <2>5, <2>6 DEF MtimeFirst
  <1>8. CASE MtimeSecond
    <2>1. /\ at \in {"mtime low", "mtime high"} /\ at' = "idle"
          /\ held' = held /\ carries' = carries /\ result' = [hi |-> hi1', lo |-> lo']
      BY <1>8 DEF MtimeSecond
    <2>2. counter = [hi |-> counter.hi, lo |-> counter.lo] /\ carries \in Nat
      BY <1>0 DEF CountersTypeOK, Pair, Half
    <2>3. ASSUME carries = 0 PROVE result' \in held
      <3>1. CASE at = "mtime low" /\ lo' = counter.lo /\ hi1' = hi1
        BY <2>1, <2>2, <2>3, <3>1 DEF Halfway
      <3>2. CASE at = "mtime high" /\ hi1' = counter.hi /\ lo' = lo
        BY <2>1, <2>3, <3>2 DEF Halfway
      <3> QED BY <1>8, <3>1, <3>2 DEF MtimeSecond
    <2>4. result' \in held' \/ carries' > 0
      <3>1. CASE carries = 0
        BY <2>1, <2>3, <3>1
      <3>2. CASE carries # 0
        <4>1. carries' = carries
          BY <2>1
        <4>2. carries \in Nat
          BY <2>2
        <4> QED BY <3>2, <4>1, <4>2
      <3> QED BY <3>1, <3>2
    <2> QED BY <2>1, <2>4 DEF Halfway, MtimeTearsOnCarry
  <1>9. CASE UNCHANGED counterVars
    BY <1>9 DEF counterVars, Halfway, MtimeTearsOnCarry
  <1> QED BY <1>1, <1>2, <1>3, <1>4, <1>5, <1>6, <1>7, <1>8, <1>9 DEF CountersNext

\* Both routines are honest: read_cycle is exact, and read_mtime returns a
\* value the counter never had only when the low half carried between its
\* loads, for halves of any width.
THEOREM CountersReadsHonest == CountersSpec => []ReadsHonest
  <1>1. IInv /\ MInv /\ [CountersNext]_counterVars => IInv' /\ MInv'
    BY CountersStep, MtimeStep
  <1>2. CountersSpec => [](IInv /\ MInv)
    BY <1>1, CountersInitially, MtimeInitially, PTL DEF CountersSpec
  <1>3. IInv /\ MInv => ReadsHonest
    BY DEF IInv, MInv, ReadsHonest
  <1> QED BY <1>2, <1>3, PTL
=============================================================================
