SPECIFICATION Spec
CONSTANTS
  Thread = {t1, t2}
  Run = {run1}
  Key = {k1, k2, k3}
  Act = {1, 2, 3}
  Answers = {"correct"}
  Ratings = {"again"}
  Schedules = {2}
  None = none
  NoTime = notime
  MaxTime = 1
  Day = 2
  Delay = 1
  DeterministicCap = 3
  EasyCap = 5
INVARIANTS
  CanonicalProjection
  OneEventEach
  EndedRunIsWhole
  AnsweredIsRecorded
  WaitsForLater
SYMMETRY Interchangeable
CHECK_DEADLOCK FALSE
