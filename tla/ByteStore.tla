----------------------------- MODULE ByteStore ------------------------------
(***************************************************************************)
(* What the drivers of the SPI flash and of the I2C devices promise: an    *)
(* array of bytes that calls read and write, each call as if at once.      *)
(***************************************************************************)
EXTENDS Integers, Sequences

CONSTANTS
    Size,        \* number of cells
    Writable,    \* how many of them, from the first, keep what is written
    Initial,     \* the cells at the start
    Beyond,      \* what a read beyond the last cell gives
    Addresses,   \* where a call starts
    Buffers,     \* what a call writes
    Counts       \* how many bytes a call reads

VARIABLES
    cells,
    reply        \* what the last read gave

Init ==
    /\ cells = Initial
    /\ reply = <<>>

Write(a, buf) ==
    /\ cells' = [c \in 0 .. Size - 1 |->
                    IF c < Writable /\ c - a + 1 \in DOMAIN buf THEN buf[c - a + 1]
                    ELSE cells[c]]
    /\ UNCHANGED reply

Read(a, n) ==
    /\ reply' = [i \in 1 .. n |-> IF a + i - 1 < Size THEN cells[a + i - 1] ELSE Beyond]
    /\ UNCHANGED cells

Next ==
    \E a \in Addresses :
        \/ \E buf \in Buffers : Write(a, buf)
        \/ \E n \in Counts : Read(a, n)

Spec == Init /\ [][Next]_<<cells, reply>>
=============================================================================
