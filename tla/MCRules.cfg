SPECIFICATION Spec
CONSTANTS
  MAX_STACK_SIZE = 7
  MAX_OPS_LEGACY = 6
  MAX_PUBKEYS_PER_MULTISIG = 3
  ScNumMax = 3
  ScTime = 4
  ScPerSig = 1
  ScScenes <- ScriptScenes
  SvOffset = 1
  SvScripts <- ScriptList
  SvInputs <- InputsAll
  SvPairs <- PairInputs
  SvFlags <- FlagSets
  SbDirect = 2
  SbLen = 4
  SbData <- SigBytes
  SpWorkers = {"w1", "w2"}
  SpPubs = {"p"}
  SpCpu = {"c"}
  SpJoin = {"j"}
  SpN = 2
  SpChunk = 1
  SpKeep = TRUE
  SpOutcomes = {"ok", "warn", "panic"}
  SpScenes <- PoolScenes
  BbTx <- BatchTxs
  BbPaths <- BatchPaths
  BbMaturity = 1
  BbBip34 = 2
  BbRepeat <- BatchRepeats
  BbMaxRows = 8
  BbWave = 3
  BbPack = 3
  BbUndo = 2
  BmPrior <- Priors
  BmBlocks <- MoneyBlocks
  BmMaxMoney = 4
  BmHeights = {1, 2, 4}
  BmInterval = 2
  BmReward = 2
  BsTx <- ShapeTx
  BsBodies <- ShapeBodies
  BsHeights = {1, 17, 128, 384}
  BsBip34 = 17
  BsSegwit = 100
  BsMaxStripped = 150
  BsMaxWeight = 400
  BsMaxSigops = 80
  ElShs = {"p", "q"}
  ElTxs = {"b", "c"}
  ElOuts <- MCOuts
  ElIns <- MCIns
  ElClash <- MCClash
  ElSubMax = 2
  ElTipCap = 1
  ElAnnCap = 1
  ElGap = 1
  ElTop = 2
  ElMoves = 2
  ElAsks = 2
  EwClients = {"u", "v"}
  EwSlots = 1
  EwIdle = 2
  EwCap = 2
  EwLines <- MCLines
  EwEvents = 1
  EbKinds = {"sh", "get", "set", "skip", "bad"}
  EbLen = 3
  EbWindow = 2
  EbBudget = 1
INVARIANTS ScriptSafe PoolSafe  RulesSafe  ServeSafe
PROPERTIES ScriptExact
CHECK_DEADLOCK FALSE
