SPECIFICATION Spec
CONSTANTS
  Thread = {t1, t2}
  None = none
  NoTime = notime
  Day = 3
  Delay = 1
  DeterministicCap = 7
  EasyCap = 11
  GoodMax = 7
  EasyMax = 11
  MaxTime = 6
  MaxRecalls = 3
  MaxEvents = 2
PROPERTY WrongAnswerIsDue
SYMMETRY Interchangeable
CHECK_DEADLOCK FALSE
