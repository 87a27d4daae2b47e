------------------------------ MODULE MCLrSc ------------------------------
(* Three threads of one hart, or one on each of two. *)
EXTENDS LrSc

CONSTANTS t1, t2, t3

OneHart == {0}
TwoHarts == {0, 1}
AllOnOne == [t \in Threads |-> 0]
OneEach == [t \in Threads |-> IF t = t1 THEN 0 ELSE 1]
=============================================================================
