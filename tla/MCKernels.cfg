CONSTANTS
  NTasks = 4
  Messages = {1, 2, 3}
  Workloads <- MCWorkloads
  Depth = 2
  TaskSlots = 3
  Wrap = 6
  Bursts = {2}
  Sleeps = {2, 10}
  Slots = {1, 2, 3}
  Workers = {1, 2}
  Jobs = {11, 12, 13}
  NoCall = NoCall
SPECIFICATION KernelsSpec
INVARIANTS MutexExcludes NoLostWakeup
PROPERTIES QueueIsFifo RunEnds EqualsShare WakesExactly NotOvertaken SleeperRuns ThreadsForkJoin JoinEnds
CHECK_DEADLOCK FALSE
