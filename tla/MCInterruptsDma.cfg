CONSTANTS
  WordSize = 64
  InsnPCs = {8}
  BootTvec = {16}
  GuestCSRs = {"mstatus", "sstatus", "mideleg", "mie", "sie", "mip", "sip"}
  Exceptions = {}
  StatusValues <- MCStatusPair
  TvecValues = {}
  EpcValues = {}
  MedelegValues = {}
  IntSets <- MCIntTriple
  Driven = {7, 9}
  SbiEnabled = TRUE
  Ints = {1, 7, 9}
  NumChannels = 2
  DmaWordSize = 32
  Ram = {0, 1, 2}
  Rom = {4}
  Contents <- MCContents
  Registers <- MCRegisters
  GuestWrites <- MCWrites
SPECIFICATION InterruptsDmaSpec
INVARIANTS TransferAccounted TransferCopies
PROPERTIES RiseIsATrap InterruptsSpareFrames TimerDelivered ActiveEnds
CHECK_DEADLOCK FALSE
