SPECIFICATION Spec
CONSTANTS
  ShKeys = {1, 2, 3, 5}
  ShMain = {5}
  SealAt = 2
  CompactFiles = 2
  MaxBatch = 2
  MaxFk = 3
  MaxSeals = 2
  MaxUnlinks = 1
  MaxCuts = 1
  PgKeys = {1, 2}
  MegaMin = 4
  PageCap = 1
  PgMaxFk = 6
  PgMaxCut = 2
  PgCrashes = 1
  PgRegrow = FALSE
  CmKeyOf <- KeyOf
  CmShards = {1, 2}
  CmShardOf <- ShardOf
  CmStart = 3
  CmForce = FALSE
  CmWindows = FALSE
  CmKillMax = 2
  IsSides = {"a", "b"}
  IsTop = 2
  IsOrigin = 1
  IsWindow = 2
  IsGap = 1
  IsDrops = 1
  IsKills = 1
  RTxs = {"x", "y"}
  Wits = {1, 2}
  RTasks = {"s", "t"}
  Lim = 1
  Scan = 1
  RMaxNow = 1
  RMaxGen = 2
  RgBackends = {"uring", "pool"}
  RgJobs <- RingJobs
  RgRounds = 2
  RgPub = 9
  RgPage = 4
  RgMeta = 2
  RgHeader = 1
  RgEntries = 2
  RgSlots = 2
  RgEpochs = 4
  RgIoFaults = 1
  RgRingFaults = 1
INVARIANTS  OrderSafe    RingSafe
 
CHECK_DEADLOCK FALSE
