CONSTANTS
  p1 = p1
  p2 = p2
  i1 = i1
  i2 = i2
  old = old
  e1 = e1
  Profiles = {p1}
  Ids = {i1, i2}
  Externals = {e1}
  Legacy = {}
  UniqueExternal = TRUE
  Ladder <- OneRung
  MaxRetryAfter = 0
  Deleters = {d1}
  NoAccount = NoAccount
  StorageFaults = FALSE
  w1 = w1
  w2 = w2
  ua = ua
  ub = ub
  Users = {ua, ub}
  NoUser = NoUser
  Fetchers = {w1, w2}
  MaxFetches = 1
  MaxTokens = 3
  MaxChanges = 0
SPECIFICATION OwnersSpec
PROPERTIES ProfileNotRecreated
CHECK_DEADLOCK FALSE
