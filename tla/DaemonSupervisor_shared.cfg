CONSTANTS
  Calls = {c1, c2}
  Agents = {"unavailable"}
  LaunchAttempts = 1
  MaxRestarts = 1
  Daemons = {p1, p2}
  None = None
  MaxGeneration = 4
  MaxTrouble = 1
SPECIFICATION Spec
PROPERTY StartupIsShared
CHECK_DEADLOCK FALSE
