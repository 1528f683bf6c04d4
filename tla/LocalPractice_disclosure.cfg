SPECIFICATION Spec
CONSTANTS
  Thread = {t1}
  Run = {run1, run2}
  Act = {a1, a2}
  Example = {e1}
  Key = {k1, k2}
  None = none
  TotalLimit = 8
  RootLimit = 6
  NewLimit = 2
  RepairLimit = 2
  MaxDay = 1
INVARIANT RecordedDisclosure
CHECK_DEADLOCK FALSE
