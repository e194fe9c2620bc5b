SPECIFICATION Spec
CONSTANTS
  b0 = b0
  b1 = b1
  b1x = b1x
  b2 = b2
  Null = Null
  Blocks <- MCBlocks
  Parent <- MCParent
  NTx <- MCNTx
  Window = 1
  MaxFk = 4
  MaxLen = 3
  MaxRun = 2
  MaxCrash = 2
  MaxCrashWithheld = 1
  Withhold = TRUE
  FlushFails = {"worker"}
  HMaxFk = 4
  MaxKeys = 2
  RebuildKeys = 3
  HMaxCrash = 1
  HMaxFail = 1
  CMaxFk = 3
  MaxBatch = 2
  LocWin = 2
  CMaxFail = 2
  CMaxDie = 2
  Faulty = {"seq", "out", "sp", "cloc", "covf", "coff", "sloc", "sovf", "soff"}
  SdBlocks <- MCBlocks
  Genesis = b0
  SdParent <- SpendParent
  SdWindow = 1
  SdMaxLen = 3
  MaxGen = 1
  SdMaxCrash = 1
INVARIANTS TipSafe TipOrder HeadSafe  SpendSafe
PROPERTIES StoreLives
CHECK_DEADLOCK FALSE
