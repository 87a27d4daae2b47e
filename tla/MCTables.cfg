CONSTANTS
  Slots = 5
  Preset <- MCPreset
  Stored <- MCStored
  Reset <- MCReset
  TrapWrites <- MCTrapWrites
  Bits <- MCBits
  ReadOnly = {"mhartid"}
  Stubs = {"mhpmcounter3"}
  Values <- MCValues
  LineBits = {7}
  TrapValues <- MCTrapValues
  WindowBits <- MCWindowBits
  WindowWrite <- MCWindowWrite
  AddrMod = 8
  MaxRegions = 2
  Candidates <- MCCandidates
  Devices = {4}
  PeriphMin = 4
  PeriphMax = 5
  Bytes = {0, 1}
  GuestData <- MCGuestData
SPECIFICATION TablesSpec
INVARIANTS FaultExact StoreExact
PROPERTIES MapSpec
