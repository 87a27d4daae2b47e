CONSTANTS
  Radix = 3
  Harts = {0, 1}
  MaxSources = 4
  Polled = {1, 3}
  Priorities = {0, 10}
  EnableMasks <- MCMasks
  Input_Buffer_Size = 3
  Chars = {1, 2}
  MaxTyped = 5
  TimerRadix = 4
  Prescalers = {1, 3}
  Delays = {1, 3}
SPECIFICATION ControllersSpec
INVARIANTS FlagFaithful InputIsFifo DelayLasts
PROPERTIES DeadlineReached EipFaithful ClaimIsBest LineDelivered DelayReturns
