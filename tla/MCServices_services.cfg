CONSTANTS
  p1 = p1
  i1 = i1
  e1 = e1
  s1 = s1
  Profiles = {p1}
  Ids = {i1}
  Externals = {e1}
  Legacy = {}
  UniqueExternal = TRUE
  Ladder <- ShortLadder
  MaxRetryAfter = 3
  Deleters = {}
  NoAccount = NoAccount
  StorageFaults = FALSE
  Sources = {s1}
  MaxWrites = 1
  Capacity = 1
  Debounce = 1
  MaxLatency = 1
  MinInterval = 1
  MaxTasks = 1
  Clients = {1, 2}
  MaxSlots = 2
  MaxFrames <- Framing
  Pollable = {"quick", "slow"}
  MinimumInterval <- Minimum
  PollIntervals = {1, 3}
  Recheck = 2
  MaxShift = 2
  MaxEvents = 2
SPECIFICATION ServicesSpec
INVARIANTS LoopsSound
PROPERTIES LimitsSettle PartsSettle PollsSound
CHECK_DEADLOCK FALSE
