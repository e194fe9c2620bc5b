SPECIFICATION IsSpec
CONSTANTS
  IsSides = {"a", "b"}
  IsTop = 2
  IsOrigin = 1
  IsWindow = 2
  IsGap = 1
  IsDrops = 1
  IsKills = 1
INVARIANT RowsWholeAlways
CHECK_DEADLOCK FALSE
