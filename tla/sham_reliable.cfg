SPECIFICATION LiveSpec
CONSTANTS
  MTU = 3
  FileLen = 11
  NameLen = 1
  NameMax = 2
  MAX_INFLIGHT = 3
  MAX_BUF_PKTS = 4
  DEFAULT_WIN = 6
  WinMax = 10
  ChannelCap = 8
  Faults = {}
  MaxFaults = 0
  MaxRetx = 1
  FilesOpen = TRUE
PROPERTIES ImplementsDelivery BothEnd
CHECK_DEADLOCK FALSE
