------------------------------ MODULE MCPrtos -------------------------------
(* The workloads of the preemptive kernel. *)
EXTENDS Prtos, TLC

Do(name) == [call |-> name, msg |-> Nothing]
Put(m)   == [call |-> "send", msg |-> m]

\* Four tasks of two priorities that share a mutex, give up the hart inside
\* their critical sections, and sleep outside and inside them.
LockPrograms ==
    (0 :> <<Do("lock"), Do("yield"), Do("unlock"), Do("lock"), Do("unlock")>>)
    @@ (1 :> <<Do("lock"), Do("sleep"), Do("unlock"), Do("lock"), Do("unlock")>>)
    @@ (2 :> <<Do("sleep"), Do("lock"), Do("yield"), Do("unlock")>>)
    @@ (3 :> <<Do("lock"), Do("unlock"), Do("lock"), Do("yield"), Do("unlock")>>)
LockPrio == (0 :> 0) @@ (1 :> 0) @@ (2 :> 1) @@ (3 :> 1)

\* Two producers and two consumers of one queue; one of each sleeps or yields.
QueuePrograms ==
    (0 :> <<Put(1), Put(2), Put(3)>>)
    @@ (1 :> <<Put(3), Do("yield"), Put(1), Put(2)>>)
    @@ (2 :> <<Do("recv"), Do("recv"), Do("recv")>>)
    @@ (3 :> <<Do("recv"), Do("sleep"), Do("recv"), Do("recv")>>)
QueuePrio == [t \in 0 .. 3 |-> 0]

\* Tasks that never stop: two always ready, two that sleep.
LoopPrograms ==
    (0 :> <<Do("yield")>>)
    @@ (1 :> <<Do("yield"), Do("sleep")>>)
    @@ (2 :> <<Do("sleep")>>)
    @@ (3 :> <<Do("yield")>>)
LoopPrio == [t \in 0 .. 3 |-> 1]

MCWorkloads ==
    {[prio |-> LockPrio,  program |-> LockPrograms,  loops |-> {}],
     [prio |-> QueuePrio, program |-> QueuePrograms, loops |-> {}],
     [prio |-> LoopPrio,  program |-> LoopPrograms,  loops |-> 0 .. 3]}

\* The tasks use the mutex as it asks; see Disciplined.
ASSUME DisciplineAssumption == Disciplined
=============================================================================
