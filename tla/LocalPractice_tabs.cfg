SPECIFICATION Spec
CONSTANTS
  Thread = {t1, t2}
  Run = {run1, run2}
  Act = {a1, a2, a3}
  Example = {e1, e2}
  Key = {k1, k2}
  None = none
  TotalLimit = 2
  RootLimit = 2
  NewLimit = 1
  RepairLimit = 1
  MaxDay = 1
INVARIANTS
  WithinLimits
  OncePerRunAndWindow
  OneAtATime
  OneRepair
  RecordedWithinRun
SYMMETRY Interchangeable
CHECK_DEADLOCK FALSE
