SPECIFICATION Spec
CONSTANTS
  MTU = 3
  FileLen = 7
  NameLen = 1
  NameMax = 2
  MAX_INFLIGHT = 3
  MAX_BUF_PKTS = 3
  DEFAULT_WIN = 6
  WinMax = 10
  ChannelCap = 8
  Faults = {"lose", "duplicate", "reorder"}
  MaxFaults = 2
  MaxRetx = 1
  FilesOpen = FALSE
INVARIANTS TypeOK NothingForgotten WrittenInOrder
PROPERTY WindowRespected
CHECK_DEADLOCK FALSE
