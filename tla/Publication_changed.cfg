SPECIFICATION Spec
CONSTANTS
  t1 = t1
  t2 = t2
  t3 = t3
  word1 = word1
  rule = rule
  None = None
  Thread = {t1, t2}
  Unit = {word1, rule}
  Linked = {word1}
  Number = {1, 2, 3}
  Date = {1, 2, 3}
  Request <- Corrections
  MaxEdition = 1
  MaxRequests = 2
SYMMETRY Threads
INVARIANT ChangedContentRejected
CHECK_DEADLOCK FALSE
