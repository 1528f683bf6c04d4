SPECIFICATION Spec
CONSTANTS
  t1 = t1
  t2 = t2
  t3 = t3
  word1 = word1
  rule = rule
  None = None
  Thread = {t1, t2, t3}
  Unit = {word1, rule}
  Linked = {word1}
  Number = {1, 2, 3}
  Date = {1, 2, 3}
  Request <- Requests
  MaxEdition = 1
  MaxRequests = 3
SYMMETRY Threads
INVARIANTS TypeOK AcceptedIsPinned ActiveIsWhole
PROPERTIES ImplementsTimeline FreshAtActivation ExactRepeatAccepted
CHECK_DEADLOCK FALSE
