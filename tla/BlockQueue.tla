----------------------------- MODULE BlockQueue -----------------------------
(***************************************************************************)
(* What the VirtIO block device promises its driver: requests are served   *)
(* once each, in the order they were made available, all those outstanding *)
(* in one go, and handed back in that order.                               *)
(***************************************************************************)
EXTENDS Integers, Sequences

CONSTANTS Heads, MaxSectors, Tags

Sectors  == 0 .. MaxSectors - 1
\* A request: read into, or write tag from, its buffer; sector MaxSectors
\* stands for all those beyond the disk.
Requests == [type : {"IN"}, sector : 0 .. MaxSectors, tag : {0}]
            \cup [type : {"OUT"}, sector : 0 .. MaxSectors, tag : Tags]
\* An answer: the status byte, and for a read what the buffer holds.
Answers  == [status : {"OK", "IOERR"}, data : Tags \cup {0}]

VARIABLES
    todo,    \* <<head, request>> made available and not yet served
    done,    \* <<head, answer>> served and not yet taken by the driver
    disk

vars == <<todo, done, disk>>

Init == todo = <<>> /\ done = <<>> /\ disk = [s \in Sectors |-> 0]

\* The effect of request r on disk d.
Stored(d, r) ==
    IF r.type = "OUT" /\ r.sector \in Sectors THEN [d EXCEPT ![r.sector] = r.tag] ELSE d

Answer(d, r) ==
    [status |-> IF r.sector \in Sectors THEN "OK" ELSE "IOERR",
     data   |-> IF r.type = "IN" /\ r.sector \in Sectors THEN d[r.sector] ELSE 0]

Submit == \E h \in Heads, r \in Requests : todo' = Append(todo, <<h, r>>) /\ UNCHANGED <<done, disk>>

Serve ==
    LET after[n \in 0 .. Len(todo)] ==
            IF n = 0 THEN disk ELSE Stored(after[n - 1], todo[n][2])
    IN  /\ disk' = after[Len(todo)]
        /\ done' = done \o [n \in 1 .. Len(todo) |->
                              <<todo[n][1], Answer(after[n - 1], todo[n][2])>>]
        /\ todo' = <<>>

Take == done # <<>> /\ done' = Tail(done) /\ UNCHANGED <<todo, disk>>

\* A device reset drops what is outstanding and keeps the disk.
Reset == todo' = <<>> /\ done' = <<>> /\ UNCHANGED disk

Next == Submit \/ Serve \/ Take \/ Reset

Spec == Init /\ [][Next]_vars
=============================================================================
