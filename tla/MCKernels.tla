----------------------------- MODULE MCKernels -----------------------------
(***************************************************************************)
(* The guest's schedulers: the preemptive kernel (Prtos), the cooperative  *)
(* one (Rtos), and threads on secondary harts (Threads).  They share no    *)
(* state and no property speaks of two of them, so a behaviour runs one;   *)
(* the initial states of the others are cut to one each, which is a        *)
(* workload that repeats for the kernel.                                   *)
(***************************************************************************)
EXTENDS MCPrtos, Rtos, Threads

VARIABLE runs   \* the scheduler this behaviour runs

kernelVars == <<prtosVars, rtosVars, threadVars, runs>>

KernelsInit ==
    /\ runs \in {"prtos", "rtos", "threads"}
    /\ PrtosInit /\ (runs # "prtos" => work.loops # {})
    /\ RtosInit /\ (runs # "rtos" => g_n_tasks = 0 /\ cycle = 0 /\ watched = 0)
    /\ ThreadsInit

RunPrtos   == runs = "prtos" /\ PrtosNext /\ UNCHANGED <<rtosVars, threadVars, runs>>
RunRtos    == runs = "rtos" /\ RtosNext /\ UNCHANGED <<prtosVars, threadVars, runs>>
RunThreads == runs = "threads" /\ ThreadsNext /\ UNCHANGED <<prtosVars, rtosVars, runs>>

\* Each is scheduled as its module says; see there for the reasons.
PrtosFair ==
    /\ WF_prtosVars(runs = "prtos" /\ TaskStep)
    /\ WF_prtosVars(runs = "prtos" /\ Isr)
    /\ WF_prtosVars(runs = "prtos" /\ RunReturns)
    /\ \A t \in Tasks : WF_prtosVars(runs = "prtos" /\ Elapse(t))

RtosFair ==
    /\ WF_rtosVars(runs = "rtos" /\ Iterate)
    /\ WF_rtosVars(runs = "rtos" /\ TurnEnds)

ThreadsFair ==
    /\ WF_threadVars(runs = "threads" /\ InCall)
    /\ \A h \in Workers : WF_threadVars(runs = "threads" /\ Worker(h))

KernelsSpec ==
    /\ KernelsInit
    /\ [][RunPrtos \/ RunRtos \/ RunThreads]_kernelVars
    /\ PrtosFair /\ RtosFair /\ ThreadsFair
=============================================================================
