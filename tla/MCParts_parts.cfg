CONSTANTS
  t1 = t1
  t2 = t2
  k1 = k1
  k2 = k2
  p1 = p1
  i1 = i1
  i2 = i2
  e1 = e1
  d1 = d1
  Profiles = {p1}
  Ids = {i1, i2}
  Externals = {e1}
  Legacy = {}
  UniqueExternal = TRUE
  Ladder <- OneRung
  MaxRetryAfter = 0
  Deleters = {d1}
  NoAccount = NoAccount
  StorageFaults = TRUE
  b1 = b1
  b2 = b2
  b3 = b3
  l1 = l1
  l2 = l2
  r1 = r1
  r2 = r2
  settings = settings
  trust = trust
  Borrowers = {b1, b2, b3}
  PoolSize = 2
  Latest = 3
  MayCrash = TRUE
  MaxTime = 4
  Cycles = {1, 4}
  FeedPage = 1
  ReaderPage = 2
  Retention = 2
  Attempts = {l1, l2}
  MaxCodes = 2
  ImportFiles = {settings, trust}
  Protected = {trust}
  ImportRequests = {r1, r2}
  Retained = 1
  Edits = {"interval", "toggle", "silence", "ladder", "delete"}
  Kinds = {"codex", "claude", "grok"}
  Askers = {1, 2}
  Bases = {"account", "default"}
  MaxProfiles = 2
  Clients = {1, 2}
  MaxSlots = 2
  MaxFrames <- Framing
  KeychainCallers = {k1, k2}
  Operations = {"get", "authorize", "replace", "delete"}
  QueueCapacity = 1
  MaxRequests = 3
  MaxOutside = 1
  MaxSteps = 3
  Tasks = {t1, t2}
  MaxTokens = 2
  MaxTrouble = 1
  MaxOthers = 1
  MaxEvents = 1
  LaunchAttempts = 2
  Entries = {0, 1, 2}
  Malformed = 0
  PageSize = 2
  MaxPages = 3
  InFlight = 2
  MaxEdits = 2
  MaxDrawn = 3
  MaxSaves = 1
  DayHours = 3
  YearDays = 3
  f1 = f1
  f2 = f2
  Features = {f1, f2}
  MaxReadings = 4
  s1 = s1
  s2 = s2
  Launches = {s1, s2}
  MaxRotations = 1
  MaxHours = 5
  Period = 4
  HistoryLimit = 5
  Cloud = Cloud
  Device = Device
  MaxDays = 2
  MaxUses = 2
SPECIFICATION PartsSpec
INVARIANTS PermitGuaranteesConnection DatabaseOpens HistoryConsistent LoginsSafe ImportsSafe ConfigConsistent ProfilesSound AnswersTrue UsageBacksHealth SignInsSafe ReportsTrue
PROPERTIES KeepsLedger StrangersKept
CHECK_DEADLOCK FALSE
