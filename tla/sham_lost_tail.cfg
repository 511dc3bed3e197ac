SPECIFICATION Spec
CONSTANTS
  MTU = 3
  FileLen = 7
  NameLen = 1
  NameMax = 2
  MAX_INFLIGHT = 3
  MAX_BUF_PKTS = 3
  DEFAULT_WIN = 6
  WinMax = 10
  ChannelCap = 8
  Faults = {"lose"}
  MaxFaults = 1
  MaxRetx = 1
  FilesOpen = TRUE
INVARIANT FileComplete
CHECK_DEADLOCK FALSE
