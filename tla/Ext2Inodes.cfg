SPECIFICATION Spec
CONSTANTS
  TotalBlocks = 19
  BlocksPerGroup = 10
  TotalInodes = 5
  InodesPerGroup = 3
  FirstUnreserved = 4
  BlockSize = 2
  AddrBlocks = 20
  NDirect = 1
  Ppb = 2
  File = {f1, f2}
  Name = {"a", "b", "long"}
  LongName = {"long"}
  RecSpace = 14
  Data = {2}
  WriteSizes = {1, 15}
  ReadSizes = {1}
  SeekTo = {0, 3}
  MaxSize = 16
  MaxCalls = 4
CHECK_DEADLOCK FALSE
INVARIANT InodesMarked
