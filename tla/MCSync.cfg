SPECIFICATION Spec
CONSTANTS
  Heights = {1, 2}
  Hashes = {"x", "y"}
  Lens = {1, 2}
  Charges = {3}
  MaxId = 3
  AsPeers = {1, 2}
  AsFirst = {1}
  AsManual = {2}
  AsTop = 2
  AsTipMax = 1
  AsRacers = 2
  AsPerPeer = 2
  AsWindow = 2
  AsStop = 3
  AsQuarter = 1
  AsFree = 1
  AsAhead = 1
  AsFaults = 1
  HPeers = {"s", "t"}
  Claimed <- LanePeers
  Has <- LaneHas
  Silent = {"s"}
  Productive = {"s"}
  QCap = 1
  WireCap = 2
  MaxInv = 1
  APeers = {"s", "t"}
  Stallers = {"s"}
  Bodies = {1, 2}
  AskTrees <- TwoBlocks
  AMaxFaults = 1
  WTree <- WalkTree
  WBad = {4}
  WFloor = 2
  WQCap = 1
  WBatch = 2
  MaxCrash = 1
  MaxUnsaved = 1
INVARIANTS MapsAgree  WalkSafe
PROPERTIES SyncProgress
CHECK_DEADLOCK FALSE
