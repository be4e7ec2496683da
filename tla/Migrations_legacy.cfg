CONSTANTS
  Latest = 3
  MayCrash = TRUE
SPECIFICATION MigrationsSpec
INVARIANT LegacyIsReset
CHECK_DEADLOCK FALSE
