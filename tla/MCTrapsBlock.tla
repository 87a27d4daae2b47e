---------------------------- MODULE MCTrapsBlock ----------------------------
(***************************************************************************)
(* A hart that traps and returns, and the VirtIO block device.  They share *)
(* no state and no property speaks of both, so a behaviour runs one.       *)
(***************************************************************************)
EXTENDS MCHart, VirtioBlk

VARIABLE runs   \* "hart" or "virtio"

TrapsBlockInit == Init /\ BlkInit /\ runs \in {"hart", "virtio"}

RunHart   == runs = "hart" /\ Next /\ UNCHANGED <<blkVars, runs>>
RunVirtio == runs = "virtio" /\ BlkNext /\ UNCHANGED <<vars, runs>>

TrapsBlockSpec ==
    TrapsBlockInit /\ [][RunHart \/ RunVirtio]_<<vars, blkVars, runs>>
=============================================================================
