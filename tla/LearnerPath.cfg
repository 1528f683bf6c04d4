SPECIFICATION Spec
CONSTANTS
  Day = 5
  Zone <- Zones
  NoTime = notime
  Target <- Targets
  Level <- Levels
  Priority <- Priorities
  Hard <- Needs
  Soft <- Helps
  Invalid = {5}
  NoState = nostate
  Delay = 1
  DeterministicCap = 4
  EasyCap = 4
  TotalLimit = 3
  RootLimit = 2
  NewLimit = 1
  RepairLimit = 1
  Home <- Utc
  MaxNow = 10
  MaxOperations = 4
  MaxLevel = 2
INVARIANTS
  NoEarlyReset
  UnlockedByAnswers
  SentAwayForAReason
PROPERTIES
  WindowsFollow
CHECK_DEADLOCK FALSE
