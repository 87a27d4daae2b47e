CONSTANTS
  t1 = t1
  t2 = t2
  t3 = t3
  Harts <- OneHart
  Threads = {t1, t2, t3}
  Home <- AllOnOne
  Locks = {a, b}
  None = None
  CountMod = 2
  Radix = 3
  MaxCost = 2
  Routines = {"read_cycle", "read_mtime"}
  Names = {"A", "B"}
  NumClusters = 3
  Entries = 2
  SectorSize = 2
  Handles = {h1, h2}
  Lengths = {3}
  SplitsFull = FALSE
  ByteRadix = 8
  CMD_READ_ID = 4
  FlashSize = 10
  FlashAddresses = {1, 8, 9}
  FlashBuffers <- MCFlashBuffers
  FlashCounts = {1, 3}
  EepromSize = 4
  Measured <- MCMeasured
  Registers = {0, 1, 3}
  BusBytes = {0, 3}
SYMMETRY ThreadSymmetry
SPECIFICATION GuestSpec
INVARIANTS MutualExclusion NoLostUpdate ReadsHonest ClosedFilesStand ClustersOwned
PROPERTIES ReadBack DevicesAreByteStores
