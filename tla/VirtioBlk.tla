----------------------------- MODULE VirtioBlk -----------------------------
(***************************************************************************)
(* The VirtIO block device (riscv-virtio_block.adb) and its virtqueue      *)
(* (Process_VirtIO_Queue in riscv-memory.adb), with a driver that keeps to *)
(* the protocol: at most N requests in flight, rings zeroed after a reset. *)
(* The device works inside the store that notifies it, so a whole batch is *)
(* one step.                                                               *)
(*                                                                         *)
(* The rings are guest memory.  Their indices count modulo IdxMod, the     *)
(* device's own counters modulo WordMod; a request is a chain of three     *)
(* descriptors, named by its head, one sector long.                        *)
(***************************************************************************)
EXTENDS Integers, Sequences, FiniteSets

CONSTANTS
    N,             \* queue size both sides agreed on
    IdxMod,        \* 2^16: modulus of the ring indices in memory
    WordMod,       \* 2^32: modulus of Last_Avail_Idx and Used_Idx
    Heads,         \* descriptor chains
    MaxSectors,    \* sectors on the disk
    Tags           \* contents the driver writes

\* VirtIO asks for a power of two; what the ring arithmetic needs is that N
\* divides both moduli.
ASSUME VirtioAssumption ==
    /\ N \in Nat \ {0}
    /\ IdxMod \in Nat /\ IdxMod > N /\ IdxMod % N = 0
    /\ WordMod \in Nat \ {0} /\ WordMod % IdxMod = 0
    /\ MaxSectors \in Nat \ {0}
    /\ Heads # {}
    /\ 0 \notin Tags

VARIABLES
    QueueReady, Notify_Pending, InterruptStatus, Last_Avail_Idx, Used_Idx, disk,
    avail, used,       \* the rings: [idx, ring]
    desc,              \* the request each head describes
    result,            \* what its status and data buffers hold
    usedTail,          \* driver: used entries it has taken
    setUp              \* driver: rings zeroed since the last reset

queue  == <<QueueReady, Notify_Pending, InterruptStatus, Last_Avail_Idx, Used_Idx>>
driver == <<avail, desc, usedTail, setUp>>
blkVars   == <<queue, disk, used, result, driver>>

\* Requests, answers and their effect on a disk, as BlockQueue defines them.
Abs == INSTANCE BlockQueue WITH todo <- <<>>, done <- <<>>

Slots == 0 .. N - 1

NoRequest == [type |-> "IN", sector |-> MaxSectors, tag |-> 0]
NoAnswer  == [status |-> "OK", data |-> 0]

BlkInit ==
    /\ QueueReady = FALSE /\ Notify_Pending = FALSE /\ InterruptStatus = FALSE
    /\ Last_Avail_Idx = 0 /\ Used_Idx = 0
    /\ disk = [s \in Abs!Sectors |-> 0]
    /\ avail = [idx |-> 0, ring |-> [i \in Slots |-> CHOOSE h \in Heads : TRUE]]
    /\ used = avail
    /\ desc = [h \in Heads |-> NoRequest]
    /\ result = [h \in Heads |-> NoAnswer]
    /\ usedTail = 0
    /\ setUp = TRUE

----------------------------------------------------------------------------
(* The device *)

\* A device counter n entries further.
IndexAfter(i, n) == (i + n) % WordMod

Avail_Slot(n) == IndexAfter(Last_Avail_Idx, n) % N
Used_Slot(n)  == IndexAfter(Used_Idx, n) % N

\* Entries made available since the device last looked.
Outstanding == (avail.idx - Last_Avail_Idx) % IdxMod

\* Process_VirtIO_Queue: each entry is served on the disk the last one left.
Batch ==
    LET after[n \in 0 .. Outstanding] ==
            IF n = 0 THEN [disk |-> disk, result |-> result, ring |-> used.ring]
            ELSE LET st == after[n - 1]
                     h  == avail.ring[Avail_Slot(n - 1)]
                 IN  [disk |-> Abs!Stored(st.disk, desc[h]),
                      result |-> [st.result EXCEPT ![h] = Abs!Answer(st.disk, desc[h])],
                      ring |-> [st.ring EXCEPT ![Used_Slot(n - 1)] = h]]
    IN  after[Outstanding]

Process_Queue ==
    /\ disk' = Batch.disk
    /\ result' = Batch.result
    /\ used' = [idx |-> (Used_Idx + Outstanding) % IdxMod, ring |-> Batch.ring]
    /\ Last_Avail_Idx' = IndexAfter(Last_Avail_Idx, Outstanding)
    /\ Used_Idx' = IndexAfter(Used_Idx, Outstanding)
    /\ InterruptStatus' = TRUE
    /\ Notify_Pending' = FALSE

Idle == UNCHANGED <<disk, result, used, Last_Avail_Idx, Used_Idx>>

\* A notification of a queue that is not ready stays pending.
Notify ==
    /\ setUp
    /\ \/ QueueReady /\ Process_Queue
       \/ ~QueueReady /\ Notify_Pending' = TRUE /\ Idle /\ UNCHANGED InterruptStatus
    /\ UNCHANGED <<QueueReady, driver>>

\* Fault variant: only a store to QueueNotify processes the queue.
MakeReadySilent ==
    /\ setUp
    /\ QueueReady' = TRUE
    /\ Idle
    /\ UNCHANGED <<Notify_Pending, InterruptStatus, driver>>

\* Any store to the device processes a pending notification, so the one that
\* makes the queue ready serves what was notified before.
MakeReady ==
    /\ setUp
    /\ QueueReady' = TRUE
    /\ \/ Notify_Pending /\ Process_Queue
       \/ ~Notify_Pending /\ Idle /\ UNCHANGED <<Notify_Pending, InterruptStatus>>
    /\ UNCHANGED driver

\* Writing 0 to QueueReady.
MakeUnready ==
    /\ QueueReady' = FALSE
    /\ Idle
    /\ UNCHANGED <<Notify_Pending, InterruptStatus, driver>>

\* Writing InterruptACK.  A notification is only ever pending while the queue
\* is not ready, and then there is nothing to process.
Acknowledge ==
    /\ InterruptStatus' = FALSE
    /\ Idle
    /\ UNCHANGED <<QueueReady, Notify_Pending, driver>>

\* Fault variant: the device's position in the rings kept.
CounterKept(i) == i

\* What a reset leaves of a device counter.
CounterAfterReset(i) == 0

\* Writing 0 to Status; the driver's rings are stale until it zeroes them.
Reset ==
    /\ QueueReady' = FALSE /\ Notify_Pending' = FALSE /\ InterruptStatus' = FALSE
    /\ Last_Avail_Idx' = CounterAfterReset(Last_Avail_Idx)
    /\ Used_Idx' = CounterAfterReset(Used_Idx)
    /\ setUp' = FALSE
    /\ UNCHANGED <<disk, result, used, avail, desc, usedTail>>

----------------------------------------------------------------------------
(* The driver.  That of virtio-blk-test.c submits, notifies, takes the answer  *)
(* and acknowledges in one go; this one may have N requests in flight, notify  *)
(* once for several, and take and acknowledge when it likes.                   *)

\* Heads the device or the used ring still holds.
InFlight ==
    {avail.ring[(avail.idx - n) % N] :
        n \in 1 .. (avail.idx - usedTail) % IdxMod}

Submit ==
    /\ setUp
    /\ (avail.idx - usedTail) % IdxMod < N
    /\ \E h \in Heads \ InFlight, r \in Abs!Requests :
          /\ desc' = [desc EXCEPT ![h] = r]
          /\ avail' = [idx  |-> (avail.idx + 1) % IdxMod,
                       ring |-> [avail.ring EXCEPT ![avail.idx % N] = h]]
    /\ UNCHANGED <<queue, disk, used, result, usedTail, setUp>>

Take ==
    /\ setUp /\ usedTail # used.idx
    /\ usedTail' = (usedTail + 1) % IdxMod
    /\ UNCHANGED <<queue, disk, used, result, avail, desc, setUp>>

\* The driver zeroes its rings after a reset (vq_reset); of their entries and of
\* the descriptors nothing is read before it is written again.
SetUp ==
    /\ ~setUp /\ setUp' = TRUE
    /\ avail' = [avail EXCEPT !.idx = 0]
    /\ used' = [used EXCEPT !.idx = 0]
    /\ usedTail' = 0
    /\ UNCHANGED <<queue, disk, result, desc>>

BlkNext ==
    \/ Notify \/ MakeReady \/ MakeUnready \/ Acknowledge \/ Reset
    \/ Submit \/ Take \/ SetUp

BlkSpec == BlkInit /\ [][BlkNext]_blkVars

----------------------------------------------------------------------------
(* Properties *)

BlkTypeOK ==
    /\ {QueueReady, Notify_Pending, InterruptStatus, setUp} \subseteq BOOLEAN
    /\ Last_Avail_Idx \in 0 .. WordMod - 1
    /\ Used_Idx \in 0 .. WordMod - 1
    /\ disk \in [Abs!Sectors -> Tags \cup {0}]
    /\ {avail, used} \subseteq [idx : 0 .. IdxMod - 1, ring : [Slots -> Heads]]
    /\ usedTail \in 0 .. IdxMod - 1
    /\ desc \in [Heads -> Abs!Requests]
    /\ result \in [Heads -> Abs!Answers]

\* The requests between the device and the driver, in order.
Todo ==
    IF ~setUp THEN <<>>
    ELSE [n \in 1 .. Outstanding |->
            LET h == avail.ring[Avail_Slot(n - 1)] IN <<h, desc[h]>>]

Done ==
    IF ~setUp THEN <<>>
    ELSE [n \in 1 .. (used.idx - usedTail) % IdxMod |->
            LET h == used.ring[(usedTail + n - 1) % N] IN <<h, result[h]>>]

\* The device keeps the promise of BlockQueue: every request is served exactly
\* once and in order, and its answer is still in its buffers when the driver
\* takes it, whatever the indices wrap past and however often it is reset.
Queue == INSTANCE BlockQueue WITH todo <- Todo, done <- Done
QueueSpec == Queue!Spec

\* No notification is lost to a queue that was not ready yet: once the queue is
\* ready nothing waits behind an unprocessed notification.
NoStaleNotification == QueueReady => ~Notify_Pending
=============================================================================
