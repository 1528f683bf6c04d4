SPECIFICATION Spec
CONSTANTS
  Thread = {t1, t2}
  Word = {w1, w2}
  None = none
  Flags = {TRUE, FALSE}
  MaxVersion = 2
  MaxBypasses = 2
INVARIANTS
  LimitUnderLock
  ScoreUnderLock
  CompletedRunIsComplete
  ActivityPerOpenQuestion
SYMMETRY Interchangeable
CHECK_DEADLOCK FALSE
