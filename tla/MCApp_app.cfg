CONSTANTS
  p2 = p2
  Calls = {c1}
  Agents = {"unavailable", "notRegistered", "enabled", "requiresApproval"}
  LaunchAttempts = 2
  MaxRestarts = 1
  Daemons = {p1, p2}
  None = None
  MaxGeneration = 8
  MaxTrouble = 1
  AppProviders = {"a"}
  Readers = {"poll"}
  MaxTurns = 2
SPECIFICATION AppSpec
INVARIANTS RecoverySound
PROPERTIES NoChildForgotten BackoffHasCause SwitchObeyed AppRecovers
CHECK_DEADLOCK FALSE
