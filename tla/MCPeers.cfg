SPECIFICATION Spec
CONSTANTS
  SMaxFrames = 3
  SMaxOwn = 1
  MaxServe = 2
  Budget = 1
  QFrames = 1
  QCheap = 1
  QGlobal = 2
  InSess = {"fa", "fb", "fc"}
  OutSess = {"fo"}
  MaxCmpct = 1
  APeers = {"s", "t"}
  Stallers = {"s"}
  Bodies = {1, 2}
  AskTrees <- TwoBlocks
  AMaxFaults = 0
  ObModes = {"book", "connect", "trust"}
  ObBook = {"a", "b"}
  ObAnswers = {"a", "b"}
  ObAddrs = {"a"}
  ObHosts = {}
  ObConnect = "x"
  ObAddModes = {"connect", "trust"}
  ObMax = 1
  ObSlots = 2
INVARIANTS SessionSafe PeersSafe
PROPERTIES PeersProgress
CHECK_DEADLOCK FALSE
