-------------------------------- MODULE Fifo --------------------------------
(***************************************************************************)
(* What a message queue of the preemptive RTOS promises its tasks: a       *)
(* bounded FIFO.  Every message sent is received once, in order.           *)
(***************************************************************************)
EXTENDS Integers, Sequences

CONSTANTS Tasks, Messages, Depth

VARIABLES
    chan,      \* messages sent and not yet received
    last       \* what each task's latest receive returned

Nothing == 0

Init ==
    /\ chan = <<>>
    /\ last = [t \in Tasks |-> Nothing]

Send(msg) ==
    /\ Len(chan) < Depth
    /\ chan' = Append(chan, msg)
    /\ UNCHANGED last

Receive(t) ==
    /\ chan # <<>>
    /\ chan' = Tail(chan)
    /\ last' = [last EXCEPT ![t] = Head(chan)]

Next == (\E msg \in Messages : Send(msg)) \/ (\E t \in Tasks : Receive(t))

Spec == Init /\ [][Next]_<<chan, last>>
=============================================================================
