------------------------------ MODULE ForkJoin ------------------------------
(***************************************************************************)
(* What pthread_create and pthread_join promise: a function is run once,   *)
(* with the argument it was created with, and its join returns what it     *)
(* returned.                                                               *)
(***************************************************************************)
CONSTANTS Jobs, NoCall

VARIABLES
    phase,     \* by call of pthread_create: "none", "live", "done", "joined"
    got        \* by call: what its join returned

\* The value a thread returns tells which function ran and on which argument.
Answer(fn, arg) == <<fn, arg>>
NoAnswer == Answer(NoCall, NoCall)

Init ==
    /\ phase = [c \in Jobs |-> "none"]
    /\ got = [c \in Jobs |-> NoAnswer]

Fork(c) ==
    /\ phase[c] = "none"
    /\ phase' = [phase EXCEPT ![c] = "live"]
    /\ UNCHANGED got

Run(c) ==
    /\ phase[c] = "live"
    /\ phase' = [phase EXCEPT ![c] = "done"]
    /\ UNCHANGED got

Join(c) ==
    /\ phase[c] = "done"
    /\ phase' = [phase EXCEPT ![c] = "joined"]
    /\ got' = [got EXCEPT ![c] = Answer(c, c)]

Next == \E c \in Jobs : Fork(c) \/ Run(c) \/ Join(c)

Spec == Init /\ [][Next]_<<phase, got>>
=============================================================================
