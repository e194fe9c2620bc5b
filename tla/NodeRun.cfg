SPECIFICATION NrSpec
CONSTANTS
  NrBlocks = 2
INVARIANT DrainedAtFlush
CHECK_DEADLOCK FALSE
