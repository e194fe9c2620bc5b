SPECIFICATION Spec
CONSTANTS
  tb = tb
  ts = ts
  tp = tp
  tr = tr
  c1 = c1
  b1 = b1
  s1 = s1
  t1 = t1
  t2 = t2
  t3 = t3
  w1 = w1
  v1 = v1
  w2 = w2
  w3 = w3
  pa = pa
  pb = pb
  Base = Base
  None = None
  Tip = Tip
  Txs <- HubTxs
  Coins <- HubCoins
  Maker <- HubMaker
  Ins <- HubIns
  Weight <- HubWeight
  Beats <- HubBeats
  Order <- HubOrder
  Admitters = {a1}
  MaxWeight = 2
  MaxMoves = 2
  MaxEvents = 3
  Txids = {t1, t2, t3}
  Wtxids = {w1, v1, w2, w3}
  Parents = {pa, pb}
  Peers = {1, 2}
  NoEntry = NoEntry
  TxidOf <- OrphanTxid
  OrphanWeight <- OrphanWeights
  ParentsOf <- OrphanParents
  Reserve = 3
  MaxOrphanWeight = 4
  MaxCount = 2
  ExpireAge = 1
  MaxNow = 1
  MaxParks = 3
  MaxGen = 1
  ITxs = {"x", "y"}
  SendCap = 1
  ResendDelay = 1
  IMaxNow = 1
  IMaxOrder = 3
  QPeers = {"o", "i"}
  Preferred = {"o"}
  Hashes = {"h"}
  Window = 1
  TxidDelay = 1
  NonPrefDelay = 1
  PeerCap = 2
  GlobalCap = 3
  ParkMax = 1
  QMaxNow = 1
  PIds = {1, 2, 3}
  Targets = {"t"}
  Noban = {1}
  MaxIn = 2
  MaxHb = 2
INVARIANTS GraphAgrees CoinsSafe ParkedSafe  
PROPERTIES AtomicPool RelaySteps
CHECK_DEADLOCK FALSE
