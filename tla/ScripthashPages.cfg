SPECIFICATION PgSpec
CONSTANTS
  PgKeys = {1}
  MegaMin = 3
  PageCap = 1
  PgMaxFk = 5
  PgMaxCut = 1
  PgCrashes = 0
  PgRegrow = TRUE
INVARIANT ListRecovered
CHECK_DEADLOCK FALSE
