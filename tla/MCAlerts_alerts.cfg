CONSTANTS
  Policies <- Switch
  MaxPercent = 3
  MaxLeft = 1
  MaxAge = 2
  NoRow = NoRow
  None = None
  StorageFaults = TRUE
  Crashes = TRUE
SPECIFICATION FairSpec
INVARIANTS MarkedWasQueued
PROPERTIES OncePerCrossing CooldownKept CrossingAlerted
