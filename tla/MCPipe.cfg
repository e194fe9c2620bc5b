SPECIFICATION Spec
CONSTANTS
  Top <- TopAB
  ForkH = 1
  LoadCap = 1
  ScriptCap = 1
  WavesMax = 1
  WriteCap = 1
  WaveMax = 2
  Bad <- AnyBad
  Faults = {"cascade", "engine", "session"}
  MaxFault = 1
  MaxGen = 2
INVARIANTS RejectedAreBad PipeSafe
CHECK_DEADLOCK FALSE
