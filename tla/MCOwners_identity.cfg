CONSTANTS
  p1 = p1
  p2 = p2
  i1 = i1
  i2 = i2
  old = old
  e1 = e1
  Profiles = {p1, p2}
  Ids = {i1, i2}
  Externals = {old, e1}
  Legacy = {old}
  UniqueExternal = TRUE
  Ladder <- OneRung
  MaxRetryAfter = 0
  Deleters = {}
  NoAccount = NoAccount
  StorageFaults = FALSE
  w1 = w1
  w2 = w2
  ua = ua
  ub = ub
  Users = {ua, ub}
  NoUser = NoUser
  Fetchers = {w1, w2}
  MaxFetches = 2
  MaxTokens = 3
  MaxChanges = 1
SPECIFICATION OwnersSpec
SYMMETRY UnnamedSymmetry
INVARIANTS NoSharedIdentity CursorSound
CHECK_DEADLOCK FALSE
