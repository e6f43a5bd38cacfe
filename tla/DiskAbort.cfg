SPECIFICATION Spec
CONSTANTS
  StartPopularity = 2
  MaxPopularity = 3
  MaxEntries = 2
  QUEUE_SIZE = 2
  Atapi = {"sr0"}
  RwGrow = 3
  RwCleared = 2
  CountSize = 8
  SectorCounts = 4
  Client = {a}
  Sync = s
  HdaClient = {a}
  PartClient = {}
  SrClient = {}
  Sectors = 3
  PartStart = 1
  PartCount = 1
  Offset = {0, 2}
  Size = {2, 6}
  MaxCalls = 2
  MaxOtherCalls = 1
  MaxSyncs = 0
CHECK_DEADLOCK FALSE
INVARIANT NoAbort
