CONSTANTS
  WordSize = 64
  InsnPCs = {8, 10}
  BootTvec = {0}
  GuestCSRs = {"mstatus", "mtvec", "stvec", "mepc", "sepc", "medeleg", "misa", "satp", "sip"}
  Exceptions = {2}
  StatusValues <- MCStatusTrap
  TvecValues = {33}
  EpcValues = {10}
  MedelegValues = {{2, 9}}
  IntSets <- MCIntSets
  Driven = {}
  SbiEnabled = FALSE
  Ints = {1}
  N = 2
  IdxMod = 4
  WordMod = 8
  Heads = {h1, h2}
  MaxSectors = 1
  Tags = {1}
SPECIFICATION TrapsBlockSpec
INVARIANT NoStaleNotification
PROPERTIES FallBreaksReservation MachineStateIsolated QueueSpec
CHECK_DEADLOCK FALSE
