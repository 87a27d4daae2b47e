------------------------------- MODULE Timer --------------------------------
(***************************************************************************)
(* Channel 0 of the timer in riscv-timer.adb and the guest that uses it    *)
(* through programs/timer.c, whose calls load and store its registers with *)
(* ticks in between.  The channels have nothing but the prescaler in       *)
(* common.  What nothing reads is left out: PWM_MODE, OUTPUT_HIGH, OUTPUT  *)
(* and INT_ENABLE (Interrupt_Pending has no caller).                       *)
(***************************************************************************)
EXTENDS Integers

CONSTANTS
    TimerRadix,    \* number of values of COUNTER and COMPARE, 2^32 in the code
    Prescalers,    \* what the guest stores to PRESCALE
    Delays         \* the arguments of timer_delay

Value == 0 .. TimerRadix - 1

\* A delay of 0 never returns: Tick ignores a COMPARE of 0.
ASSUME TimerAssumption ==
    /\ TimerRadix \in Nat \ {0, 1}
    /\ Prescalers \subseteq 1 .. 255
    /\ Delays \subseteq Value \ {0}

VARIABLES
    Prescale, Tick_Counter,
    Ch_Counter, Ch_Compare,   \* Counter and Compare of the channel
    ctrl,          \* the channel's Enabled, Auto_Reload and Int_Enable
    Int_Status,    \* the channel's flag
    doing,         \* the guest's call and its next access
    loaded_ctrl,   \* the CTRL it has loaded
    wanted,        \* the argument of its timer_delay
    spoiled,       \* history: the flag was set when it was called, or could be by
                   \* a channel that ran with its interrupt enabled
    counted        \* history: how often the counters counted since it cleared
                   \* COUNTER, up to wanted

channel == <<Prescale, Tick_Counter, Ch_Counter, Ch_Compare, ctrl, Int_Status>>
call == <<doing, loaded_ctrl, wanted, spoiled, counted>>
timerVars == <<channel, call>>

Control == [enabled : BOOLEAN, reload : BOOLEAN, int : BOOLEAN]
Off == [enabled |-> FALSE, reload |-> FALSE, int |-> FALSE]
OneShot == [enabled |-> TRUE, reload |-> FALSE, int |-> TRUE]

DelayAccesses == {"counter", "compare", "control", "wait", "clear", "restore"}

TimerTypeOK ==
    /\ Prescale \in 1 .. 255 /\ Tick_Counter \in 0 .. 254
    /\ Ch_Counter \in Value /\ Ch_Compare \in Value
    /\ ctrl \in Control /\ loaded_ctrl \in Control
    /\ Int_Status \in BOOLEAN /\ spoiled \in BOOLEAN
    /\ doing \in DelayAccesses \cup {"idle", "modify"}
    /\ wanted \in Value /\ counted \in 0 .. wanted

TimerInit ==
    /\ Prescale = 1 /\ Tick_Counter = 0 /\ Ch_Counter = 0 /\ Ch_Compare = 0
    /\ ctrl = Off /\ Int_Status = FALSE
    /\ doing = "idle" /\ loaded_ctrl = Off /\ wanted = 0
    /\ spoiled = FALSE /\ counted = 0

----------------------------------------------------------------------------
(* Tick *)

\* Fault variant: a match one count early.
MatchEarly(counter) == counter + 1 >= Ch_Compare /\ Ch_Compare # 0

Match(counter) == counter >= Ch_Compare /\ Ch_Compare # 0

Rises(n) == IF n < wanted THEN n + 1 ELSE n

\* The channel counts.
Count ==
    LET counter == (Ch_Counter + 1) % TimerRadix IN
      IF ctrl.enabled
      THEN /\ Ch_Counter' = IF Match(counter) /\ ctrl.reload THEN 0 ELSE counter
           /\ ctrl' = [ctrl EXCEPT !.enabled = ~Match(counter) \/ ctrl.reload]
           /\ Int_Status' = (Int_Status \/ (Match(counter) /\ ctrl.int))
      ELSE UNCHANGED <<Ch_Counter, ctrl, Int_Status>>

TimerTick ==
    /\ IF Tick_Counter + 1 >= Prescale
       THEN Tick_Counter' = 0 /\ Count /\ counted' = Rises(counted)
       ELSE /\ Tick_Counter' = Tick_Counter + 1
            /\ UNCHANGED <<Ch_Counter, ctrl, Int_Status, counted>>
    /\ UNCHANGED <<Prescale, Ch_Compare, doing, loaded_ctrl, wanted, spoiled>>

----------------------------------------------------------------------------
(* The guest *)

\* timer_set_prescale, timer_set_counter, timer_set_compare and
\* timer_clear_interrupt are one store each.
SetRegister ==
    /\ doing = "idle"
    /\ \/ Prescale' \in Prescalers /\ UNCHANGED <<Ch_Counter, Ch_Compare, Int_Status>>
       \/ Ch_Counter' \in Value /\ UNCHANGED <<Prescale, Ch_Compare, Int_Status>>
       \/ Ch_Compare' \in Value /\ UNCHANGED <<Prescale, Ch_Counter, Int_Status>>
       \/ Int_Status' = FALSE /\ UNCHANGED <<Prescale, Ch_Counter, Ch_Compare>>
    /\ UNCHANGED <<Tick_Counter, ctrl, call>>

\* timer_enable_channel, _set_auto_reload and _enable_interrupt load CTRL ...
LoadControl ==
    /\ doing = "idle"
    /\ doing' = "modify" /\ loaded_ctrl' = ctrl
    /\ UNCHANGED <<channel, wanted, spoiled, counted>>

\* ... and store it with a bit changed, whatever has become of it since.
StoreControl ==
    /\ doing = "modify"
    /\ \E b \in BOOLEAN :
          ctrl' \in {[loaded_ctrl EXCEPT !.enabled = b], [loaded_ctrl EXCEPT !.reload = b],
                     [loaded_ctrl EXCEPT !.int = b]}
    /\ doing' = "idle"
    /\ UNCHANGED <<Prescale, Tick_Counter, Ch_Counter, Ch_Compare, Int_Status,
                   loaded_ctrl, wanted, spoiled, counted>>

\* timer_delay, up to its load of CTRL.
CallDelay ==
    /\ doing = "idle"
    /\ wanted' \in Delays
    /\ doing' = "counter" /\ loaded_ctrl' = ctrl
    /\ spoiled' = (Int_Status \/ (ctrl.enabled /\ ctrl.int))
    /\ counted' = 0
    /\ UNCHANGED channel

\* Fault variant: the match is no one-shot, and its interrupt is not enabled.
ArmedSilent == [OneShot EXCEPT !.int = loaded_ctrl.int]

\* The CTRL that timer_delay waits with.
Armed == OneShot

\* The accesses of timer_delay after that.
DelayAccess ==
    \/ /\ doing = "counter" /\ doing' = "compare"
       /\ Ch_Counter' = 0 /\ counted' = 0
       /\ UNCHANGED <<Ch_Compare, ctrl, Int_Status>>
    \/ /\ doing = "compare" /\ doing' = "control"
       /\ Ch_Compare' = wanted
       /\ UNCHANGED <<Ch_Counter, ctrl, Int_Status, counted>>
    \/ /\ doing = "control" /\ doing' = "wait"
       /\ ctrl' = Armed
       /\ UNCHANGED <<Ch_Counter, Ch_Compare, Int_Status, counted>>
    \/ /\ doing = "wait" /\ Int_Status /\ doing' = "clear"
       /\ UNCHANGED <<Ch_Counter, Ch_Compare, ctrl, Int_Status, counted>>
    \/ /\ doing = "clear" /\ doing' = "restore"
       /\ Int_Status' = FALSE
       /\ UNCHANGED <<Ch_Counter, Ch_Compare, ctrl, counted>>
    \/ /\ doing = "restore" /\ doing' = "idle"
       /\ ctrl' = loaded_ctrl
       /\ UNCHANGED <<Ch_Counter, Ch_Compare, Int_Status, counted>>

Delay ==
    /\ DelayAccess
    /\ UNCHANGED <<Prescale, Tick_Counter, loaded_ctrl, wanted, spoiled>>

TimerNext ==
    \/ TimerTick
    \/ SetRegister \/ LoadControl \/ StoreControl
    \/ CallDelay \/ Delay

\* Run ticks after every instruction, and the guest goes on with its call.
TimerSpec ==
    /\ TimerInit /\ [][TimerNext]_timerVars
    /\ WF_timerVars(TimerTick) /\ WF_timerVars(Delay)

----------------------------------------------------------------------------
(* Properties *)

\* timer_delay waits as long as it was asked to, whatever the channel was doing
\* when it was called, unless the flag it waits for was set then or a channel
\* with its interrupt enabled could still set it: timer_delay clears the flag
\* after the wait and not before it.
DelayLasts == doing = "clear" => spoiled \/ counted = wanted

\* And it comes back: its match is not missed, nor lost to a match of what the
\* channel was doing before.
DelayReturns == doing = "counter" ~> doing = "idle"
=============================================================================
