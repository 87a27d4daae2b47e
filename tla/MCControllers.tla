---------------------------- MODULE MCControllers ----------------------------
(***************************************************************************)
(* The two interrupt controllers, Clint for two harts and Plic with three  *)
(* sources, two of them wired to devices, and the UART and the timer,      *)
(* whose interrupts no controller sees.  They share no state and no        *)
(* property speaks of two of them, so a behaviour drives one and leaves    *)
(* the others at reset.                                                    *)
(***************************************************************************)
EXTENDS Clint, Plic, Uart, Timer

MCMasks == {{0, 1, 2}, {0, 3}}

VARIABLE drives   \* the device this behaviour drives

devices == <<vars, clintVars, uartVars, timerVars>>

ControllersInit ==
    /\ Init /\ ClintInit /\ UartInit /\ TimerInit
    /\ drives \in {"clint", "plic", "uart", "timer"}

DriveClint ==
    drives = "clint" /\ ClintNext /\ UNCHANGED <<vars, uartVars, timerVars, drives>>
DrivePlic ==
    drives = "plic" /\ Next /\ UNCHANGED <<clintVars, uartVars, timerVars, drives>>
DriveUart ==
    drives = "uart" /\ UartNext /\ UNCHANGED <<vars, clintVars, timerVars, drives>>
DriveTimer ==
    drives = "timer" /\ TimerNext /\ UNCHANGED <<vars, clintVars, uartVars, drives>>

\* Check_Interrupts polls before every instruction of a running hart; Run ticks
\* after every instruction, and a guest that waits for the timer goes on.
ControllersSpec ==
    /\ ControllersInit
    /\ [][DriveClint \/ DrivePlic \/ DriveUart \/ DriveTimer]_<<devices, drives>>
    /\ WF_vars(drives = "plic" /\ Poll)
    /\ WF_timerVars(drives = "timer" /\ TimerTick)
    /\ WF_timerVars(drives = "timer" /\ Delay)
=============================================================================
