CONSTANTS
  codex = codex
  claude = claude
  a1 = a1
  All = All
  NoJob = NoJob
  Providers = {codex, claude}
  Accounts = {a1}
  Owner <- OnlyOfCodex
  Jobs = {j1, j2}
  Callers = {c1}
  RETAINED_REFRESH_JOBS = 1
  MaxParallelAccounts = 1
  Requests <- CodexOrAll
  Configurations <- BothOrNone
  Reachability = {TRUE, FALSE}
  f1 = f1
  Sessions = {f1}
  LastDay = 2
  Lookback = 2
  MaxLines = 2
  MaxScans = 2
  MaxMoves = 1
  u1 = u1
  u2 = u2
  People = {u1, u2}
  Nobody = Nobody
  NProfiles = 2
  Deadline = 2
  Grace = 1
  MaxTurns = 1
  Holders = {u1, u2}
  NoHolder = Nobody
  MaxShifts = 1
  MaxDays = 4
  MaxSessions = 1
  MaxSwaps = 1
  MaxUses = 7
  SpacePage = 2
  SpacePages = 3
  MaxLost = 1
SPECIFICATION CollectingSpec
SYMMETRY JobSymmetry
CHECK_DEADLOCK FALSE
INVARIANTS OneFlightPerProvider DiscoveriesComplete DiscoveredBeforeCollected QueryableJobs AnswerCoversScope CollectionSound
PROPERTIES StatusOnlyAdvances
