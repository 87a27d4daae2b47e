-------------------------------- MODULE Plic --------------------------------
(***************************************************************************)
(* The PLIC (riscv-plic.adb) between the interrupt lines of the devices    *)
(* and mip.MEIP/SEIP.  Check_Interrupts of the RV64 hart polls the lines   *)
(* and refreshes both bits before every instruction (PLIC_Update_Mip);     *)
(* between polls the guest programs the registers, claims and completes,   *)
(* and devices raise and lower their lines.                                *)
(*                                                                         *)
(* A register write is a byte write merged into the word it belongs to;    *)
(* all a guest can store is in the low byte of the small instances, so the *)
(* merge is a whole write.  The procedure Claim has no caller.             *)
(***************************************************************************)
EXTENDS Integers, FiniteSets

CONSTANTS
    MaxSources,    \* 32 in the code; source 0 means none
    Polled,        \* sources whose lines PLIC_Update_Mip reads (VirtIO 8, GPIO 2)
    Priorities,    \* values the guest writes to priority and threshold registers
    EnableMasks    \* sets of sources the guest writes to an enable register

Sources  == 1 .. MaxSources - 1
SourceId == 0 .. MaxSources - 1
Contexts == {0, 1}             \* CTX_M_MODE, CTX_S_MODE

ASSUME PlicAssumption ==
    /\ MaxSources \in Nat \ {0}
    /\ Polled \subseteq Sources
    /\ Priorities \subseteq Nat
    /\ EnableMasks \subseteq (SUBSET SourceId)

VARIABLES
    priority, pending, enable, threshold, claimed,
    eip,       \* contexts whose external-interrupt bit is set in mip
    lines,     \* sources whose device asserts its interrupt line
    claim      \* history: <<context, source>> the last step read from a claim register

regs == <<priority, enable, threshold>>
vars == <<priority, pending, enable, threshold, claimed, eip, lines, claim>>

\* No claim register was read.
NoClaim == <<>>

TypeOK ==
    /\ priority \in [SourceId -> 0 .. 7]
    /\ pending \subseteq Sources
    /\ enable \in [Contexts -> SUBSET SourceId]
    /\ threshold \in [Contexts -> 0 .. 7]
    /\ claimed \in [Contexts -> SourceId]
    /\ eip \subseteq Contexts
    /\ lines \subseteq Polled
    /\ claim \in (Contexts \X SourceId) \cup {NoClaim}

\* Initialize: every source at priority 1 and enabled, thresholds at 0.
Init ==
    /\ priority = [s \in SourceId |-> IF s = 0 THEN 0 ELSE 1]
    /\ pending = {}
    /\ enable = [c \in Contexts |-> SourceId]
    /\ threshold = [c \in Contexts |-> 0]
    /\ claimed = [c \in Contexts |-> 0]
    /\ eip = {} /\ lines = {}
    /\ claim = NoClaim

----------------------------------------------------------------------------
(* Arbitration *)

\* Fault variant: the last of equals wins.
Best_PendingLast(pend, c) ==
    LET best[s \in SourceId] ==
            IF s = 0 THEN 0
            ELSE IF /\ s \in pend \cap enable[c]
                    /\ priority[s] > threshold[c]
                    /\ priority[s] >= priority[best[s - 1]]
                 THEN s ELSE best[s - 1]
    IN  best[MaxSources - 1]

\* Best_Pending over the pending sources pend: the loop keeps a source only
\* when its priority beats the threshold and the best so far.
Best_Pending(pend, c) ==
    LET best[s \in SourceId] ==
            IF s = 0 THEN 0
            ELSE IF /\ s \in pend \cap enable[c]
                    /\ priority[s] > threshold[c]
                    /\ priority[s] > priority[best[s - 1]]
                 THEN s ELSE best[s - 1]
    IN  best[MaxSources - 1]

\* Fault variants: a lowered line leaves its pending bit up; only a rising one
\* is noticed.
SampledSticky == pending \cup lines
SampledEdge == (pending \ Polled) \cup (lines \ pending)

\* The pending bits after the device lines are polled.
Sampled == (pending \ Polled) \cup lines

\* PLIC_Update_Mip.
Poll ==
    /\ pending' = Sampled
    /\ eip' = {c \in Contexts : Best_Pending(Sampled, c) # 0}
    /\ claim' = NoClaim
    /\ UNCHANGED <<regs, claimed, lines>>

----------------------------------------------------------------------------
(* Register accesses *)

\* Priorities and thresholds are three bits.
Masked(v) == v % 8

WritePriority ==
    \E s \in Sources, v \in Priorities :
        /\ priority' = [priority EXCEPT ![s] = Masked(v)]
        /\ claim' = NoClaim
        /\ UNCHANGED <<pending, enable, threshold, claimed, eip, lines>>

\* Bit 0 stays clear once a mask has been written.
WriteEnable ==
    \E c \in Contexts, m \in EnableMasks :
        /\ enable' = [enable EXCEPT ![c] = m \ {0}]
        /\ claim' = NoClaim
        /\ UNCHANGED <<priority, pending, threshold, claimed, eip, lines>>

WriteThreshold ==
    \E c \in Contexts, v \in Priorities :
        /\ threshold' = [threshold EXCEPT ![c] = Masked(v)]
        /\ claim' = NoClaim
        /\ UNCHANGED <<priority, pending, enable, claimed, eip, lines>>

\* Reading the claim register: Read_Word answers Best_Pending and changes nothing.
ClaimRead ==
    \E c \in Contexts :
        /\ claim' = <<c, Best_Pending(pending, c)>>
        /\ UNCHANGED <<regs, pending, claimed, eip, lines>>

\* Writing the claim register: the data is ignored, Complete gets Best_Pending.
CompleteWrite ==
    \E c \in Contexts :
        /\ claimed' = [claimed EXCEPT ![c] =
                         IF Best_Pending(pending, c) = @ THEN 0 ELSE @]
        /\ claim' = NoClaim
        /\ UNCHANGED <<regs, pending, eip, lines>>

----------------------------------------------------------------------------
(* The devices: a line goes up with an event and down when the guest has     *)
(* acknowledged it in the device's own registers.                            *)

RaiseLine ==
    \E s \in Polled \ lines :
        /\ lines' = lines \cup {s}
        /\ claim' = NoClaim
        /\ UNCHANGED <<regs, pending, claimed, eip>>

LowerLine ==
    \E s \in lines :
        /\ lines' = lines \ {s}
        /\ claim' = NoClaim
        /\ UNCHANGED <<regs, pending, claimed, eip>>

Next ==
    \/ Poll
    \/ WritePriority \/ WriteEnable \/ WriteThreshold
    \/ ClaimRead \/ CompleteWrite
    \/ RaiseLine \/ LowerLine

Spec == Init /\ [][Next]_vars

----------------------------------------------------------------------------
(* Properties *)

\* The sources of pend the gateway lets through to context c.
Deliverable(pend, c) == {s \in pend \cap enable[c] : priority[s] > threshold[c]}

\* The two external-interrupt bits a poll leaves in mip are exactly what the
\* device lines call for at that moment: no bit outlives the line that raised
\* it, and none is missed.
EipFaithful ==
    [][pending' # pending \/ eip' # eip =>
          eip' = {c \in Contexts : Deliverable(lines, c) # {}}]_vars

\* A claim answers a deliverable source, and no deliverable one has a higher
\* priority, or the same and a lower number; 0 when there is none.
ClaimIsBest ==
    [][claim' # NoClaim =>
          LET c == claim'[1]
              s == claim'[2]
          IN  /\ s \in Deliverable(pending, c) \/ (s = 0 /\ Deliverable(pending, c) = {})
              /\ \A o \in Deliverable(pending, c) \ {s} :
                    \/ priority[o] < priority[s]
                    \/ priority[o] = priority[s] /\ s < o]_vars

\* A line that stays up, for a source that stays enabled above the threshold,
\* reaches the hart, and the bit stays up with it.
LineDelivered ==
    \A s \in Polled, c \in Contexts :
        <>[](s \in lines /\ s \in Deliverable({s}, c)) => <>[](c \in eip)
=============================================================================
