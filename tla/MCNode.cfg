SPECIFICATION Spec
CONSTANTS
  TlAsync = {"a", "b"}
  TlSync = {"s"}
  TlWaits = {"w"}
  TlCap = 1
  NrBlocks = 2
  BlockTree <- HubTree
  BadSets <- HubBad
  HeldCap = 2
  StaleBelow = 2
  ForkTipCap = 2
  FileCap = 2
  BMaxFault = 1
  BMaxInval = 1
INVARIANTS HubSafe RunSafe
PROPERTIES NodeProgress
CHECK_DEADLOCK FALSE
