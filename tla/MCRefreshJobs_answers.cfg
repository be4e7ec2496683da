CONSTANTS
  codex = codex
  claude = claude
  a1 = a1
  All = All
  NoJob = NoJob
  Providers = {codex}
  Accounts = {a1}
  Owner <- OnlyOfCodex
  Jobs = {j1, j2}
  Callers = {c1}
  RETAINED_REFRESH_JOBS = 1
  MaxParallelAccounts = 1
  Requests <- CodexOrAll
  Configurations <- CodexOrNone
  Reachability = {TRUE, FALSE}
SPECIFICATION FairSpec
CHECK_DEADLOCK FALSE
PROPERTIES RequestsEnd ImplementsService
