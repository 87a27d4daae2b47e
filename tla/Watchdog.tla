------------------------------ MODULE Watchdog ------------------------------
(***************************************************************************)
(* The watchdog of riscv-watchdog.adb in a machine whose profile has one,  *)
(* as the guest reaches it: riscv-memory.adb forwards an access only if    *)
(* Is_Watchdog_Address says so.  A word store is taken as one access.      *)
(***************************************************************************)
EXTENDS Integers

CONSTANTS
    Reload_Default,   \* Reload_Value at reset, 1000 in the code
    Reloads           \* what the guest stores to WDT_RELOAD

VARIABLES
    Enabled, Counter, Reload_Value, Reset_Flag,
    asked             \* history: ENABLE in the last store to WDT_CTRL, until a timeout

wdt == <<Enabled, Counter, Reload_Value, Reset_Flag>>
watchdogVars == <<wdt, asked>>

WatchdogTypeOK ==
    /\ Enabled \in BOOLEAN /\ Reset_Flag \in BOOLEAN /\ asked \in BOOLEAN
    /\ Counter \in Nat /\ Reload_Value \in Nat

\* Enable_Watchdog, as Apply_Profile calls it.
WatchdogInit ==
    /\ Enabled = FALSE /\ Counter = Reload_Default
    /\ Reload_Value = Reload_Default /\ Reset_Flag = FALSE
    /\ asked = FALSE

----------------------------------------------------------------------------
(* The guest *)

\* Is_Watchdog_Address for an address in the watchdog's range.
Is_Watchdog_Address == Enabled

WriteControl ==
    \E enable \in BOOLEAN :
        /\ Enabled' = IF Is_Watchdog_Address THEN enable ELSE Enabled
        /\ asked' = enable
        /\ UNCHANGED <<Counter, Reload_Value, Reset_Flag>>

WriteReload ==
    \E n \in Reloads :
        /\ Reload_Value' = IF Is_Watchdog_Address THEN n ELSE Reload_Value
        /\ UNCHANGED <<Enabled, Counter, Reset_Flag, asked>>

WriteFeed ==
    /\ Counter' = IF Is_Watchdog_Address THEN Reload_Value ELSE Counter
    /\ UNCHANGED <<Enabled, Reload_Value, Reset_Flag, asked>>

\* A load from WDT_CTRL clears the flag.
ReadControl ==
    /\ Reset_Flag' = (Reset_Flag /\ ~Is_Watchdog_Address)
    /\ UNCHANGED <<Enabled, Counter, Reload_Value, asked>>

----------------------------------------------------------------------------
(* The run loop *)

\* Watchdog_Tick; at zero the hart starts over.
Tick ==
    /\ Enabled /\ Counter > 0
    /\ IF Counter = 1
       THEN /\ Reset_Flag' = TRUE /\ Enabled' = FALSE /\ asked' = FALSE
            /\ Counter' = Reload_Value
       ELSE /\ Counter' = Counter - 1
            /\ UNCHANGED <<Enabled, Reset_Flag, asked>>
    /\ UNCHANGED Reload_Value

WatchdogNext == WriteControl \/ WriteReload \/ WriteFeed \/ ReadControl \/ Tick

WatchdogSpec == WatchdogInit /\ [][WatchdogNext]_watchdogVars

----------------------------------------------------------------------------
(* Properties *)

\* doc/WATCHDOG.md on ENABLE: "Set to 1 to start watchdog counting down."
EnableStarts == asked => Enabled
=============================================================================
