-------------------------------- MODULE Uart --------------------------------
(***************************************************************************)
(* The 16550 of riscv-uart.adb on a pseudo-terminal (--pty): what the      *)
(* terminal sends waits in the host's queue until a load from LSR moves it *)
(* into the input ring, from which loads from RBR take it.                 *)
(*                                                                         *)
(* main.adb calls Poll_Input once, before the guest runs; nothing polls    *)
(* the UART's interrupt for the PLIC.  Output has no state.                *)
(***************************************************************************)
EXTENDS Integers, Sequences

CONSTANTS
    Input_Buffer_Size,   \* 256 in the code
    Chars,               \* the bytes the terminal sends
    MaxTyped             \* bound: bytes the terminal has sent, all told

ASSUME UartAssumption ==
    /\ Input_Buffer_Size \in Nat \ {0}
    /\ MaxTyped \in Nat /\ 0 \notin Chars /\ Chars \subseteq Nat

VARIABLES
    IER,                 \* the enabled ones of RDA and THRE
    IIR,                 \* "none", "RDA" or "THR"
    Input_Buffer, Input_Head, Input_Tail, Input_Count,
    pty,                 \* external: the host's queue of the pseudo-terminal
    typed,               \* history: what the terminal has sent
    got                  \* history: what RBR has given of it

ring == <<Input_Buffer, Input_Head, Input_Tail, Input_Count>>
uartVars == <<IER, IIR, ring, pty, typed, got>>

Slot == 0 .. Input_Buffer_Size - 1

UartTypeOK ==
    /\ IER \subseteq {"RDA", "THRE"} /\ IIR \in {"none", "RDA", "THR"}
    /\ Input_Buffer \in [Slot -> Chars \cup {0}]
    /\ Input_Head \in Slot /\ Input_Tail \in Slot /\ Input_Count \in 0 .. Input_Buffer_Size
    /\ pty \in Seq(Chars) /\ typed \in Seq(Chars) /\ got \in Seq(Chars)

UartInit ==
    /\ IER = {} /\ IIR = "none"
    /\ Input_Buffer = [i \in Slot |-> 0]
    /\ Input_Head = 0 /\ Input_Tail = 0 /\ Input_Count = 0
    /\ pty = <<>> /\ typed = <<>> /\ got = <<>>

----------------------------------------------------------------------------

\* What Update_Interrupts makes of IIR.
Identified(ier, count) ==
    IF "RDA" \in ier /\ count > 0 THEN "RDA" ELSE IF "THRE" \in ier THEN "THR" ELSE "none"

Wrapped(i) == i % Input_Buffer_Size

\* External: the user types, also before the guest runs.
Type ==
    /\ Len(typed) < MaxTyped
    /\ \E c \in Chars : pty' = Append(pty, c) /\ typed' = Append(typed, c)
    /\ UNCHANGED <<IER, IIR, ring, got>>

\* Fault variant: the ring takes one byte more than it has room for.
RoomPast == Input_Buffer_Size + 1 - Input_Count

\* How many bytes the drain loop of Read and of Poll_Input may take.
Room == Input_Buffer_Size - Input_Count

\* Poll_Input, and a load from LSR.  Neither calls Update_Interrupts.
Drain ==
    LET n == IF Len(pty) < Room THEN Len(pty) ELSE Room IN
      /\ Input_Buffer' = [i \in Slot |->
            LET k == Wrapped(i - Input_Head) + 1 IN IF k <= n THEN pty[k] ELSE Input_Buffer[i]]
      /\ Input_Head' = Wrapped(Input_Head + n)
      /\ Input_Count' = Input_Count + n
      /\ pty' = SubSeq(pty, n + 1, Len(pty))
      /\ UNCHANGED <<IER, IIR, Input_Tail, typed, got>>

\* A load from RBR.
ReadRBR ==
    /\ Input_Count > 0
    /\ got' = Append(got, Input_Buffer[Input_Tail])
    /\ Input_Tail' = Wrapped(Input_Tail + 1)
    /\ Input_Count' = Input_Count - 1
    /\ IIR' = Identified(IER, Input_Count')
    /\ UNCHANGED <<IER, Input_Buffer, Input_Head, pty, typed>>

\* A store to IER.
WriteIER ==
    /\ IER' \in SUBSET {"RDA", "THRE"}
    /\ IIR' = Identified(IER', Input_Count)
    /\ UNCHANGED <<ring, pty, typed, got>>

\* A store to THR.
WriteTHR ==
    /\ IIR' = Identified(IER, Input_Count)
    /\ UNCHANGED <<IER, ring, pty, typed, got>>

UartNext == Type \/ Drain \/ ReadRBR \/ WriteIER \/ WriteTHR

UartSpec == UartInit /\ [][UartNext]_uartVars

----------------------------------------------------------------------------
(* Properties *)

InRing == [k \in 1 .. Input_Count |-> Input_Buffer[Wrapped(Input_Tail + k - 1)]]

\* What was typed is read once and in its order, by way of a host's queue that
\* may hold more than the ring and a ring that wraps; and IIR announces a byte
\* only if there is one, although a drain does not update it (Read, Poll_Input).
InputIsFifo ==
    /\ got \o InRing \o pty = typed
    /\ IIR = "RDA" => "RDA" \in IER /\ Input_Count > 0
=============================================================================
