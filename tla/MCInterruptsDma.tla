-------------------------- MODULE MCInterruptsDma --------------------------
(***************************************************************************)
(* What Run does besides executing instructions: Check_Interrupts before   *)
(* each of them, DMA_Process after every tenth.  The hart's registers and  *)
(* the DMA controller share no state, so a behaviour runs one.             *)
(*                                                                         *)
(* For DMA, two channels over three bytes of RAM, then channel 0's count   *)
(* register, a byte of ROM and a hole: a copy of two bytes to 2 or 3       *)
(* reaches a register.                                                     *)
(***************************************************************************)
EXTENDS MCHart, Dma

MCRegisters == [a \in {3} |-> <<0, "count">>]
MCContents == [a \in {0, 1, 2, 4} |-> IF a = 1 THEN 0 ELSE 2]

\* CTRL 27 starts with both addresses incrementing; STATUS 6 clears DONE and ERROR.
MCWrites == {<<"dst", 2>>, <<"count", 2>>, <<"ctrl", 27>>, <<"status", 6>>}

VARIABLE runs   \* "hart" or "dma"

InterruptsDmaInit == Init /\ DmaInit /\ runs \in {"hart", "dma"}

RunHart == runs = "hart" /\ Next /\ UNCHANGED <<dmaVars, runs>>
RunDma  == runs = "dma" /\ DmaNext /\ UNCHANGED <<vars, runs>>

\* The fairness of Hart.FairSpec and of Dma.DmaFairSpec.
InterruptsDmaSpec ==
    /\ InterruptsDmaInit
    /\ [][RunHart \/ RunDma]_<<vars, dmaVars, runs>>
    /\ WF_vars(runs = "hart" /\ Next)
    /\ WF_dmaVars(runs = "dma" /\ Process)
=============================================================================
