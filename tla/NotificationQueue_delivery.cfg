CONSTANTS
  Deliveries = {d1, d2}
  MaxAlerts = 2
  Capacity = 1
  Page = 2
  Faults = TRUE
  Crashes = TRUE
SPECIFICATION FairSpec
INVARIANTS NothingForgotten
PROPERTIES AcknowledgedWasShown QueueDrains
