SPECIFICATION LiveSpec
CONSTANTS
  Packets <- MCPackets
  NoPacket = NoPacket
  NoData = NoData
  MAX_PACKETS = 2
  MallocFails = TRUE
  MaxCount = 4
  MaxPresses = 2
INVARIANTS TypeOK StoreIsSession NumberIsId InspectorAgrees OneCtrlCIsSafe
PROPERTY StopsWhenAsked
CHECK_DEADLOCK FALSE
