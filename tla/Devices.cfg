\* The disk: one client of the whole disk, one of a partition and of the ATAPI drive,
\* one hd_sync; a cache of one sector, queues that are full with two requests.
CONSTANTS
  StartPopularity = 2
  MaxPopularity = 3
  MaxEntries = 1
  QUEUE_SIZE = 2
  Atapi = {"sr0"}
  RwGrow = 3
  RwCleared = 2
  CountSize = 8
  SectorCounts = 4
  Client = {a, b}
  Sync = s
  HdaClient = {a}
  PartClient = {b}
  SrClient = {b}
  Sectors = 2
  PartStart = 1
  PartCount = 1
  Offset = {1, 2}
  Size = {4}
  MaxCalls = 2
  MaxOtherCalls = 1
  MaxSyncs = 1
SPECIFICATION AllSpec
INVARIANTS TypeOK CacheOrdered OperationsApart RequestInProgress ScreenExact
PROPERTIES FbconExact
CHECK_DEADLOCK FALSE
