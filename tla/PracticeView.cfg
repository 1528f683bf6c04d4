SPECIFICATION Spec
CONSTANTS
  Answer = {right, wrong}
  Wrong = {wrong}
  None = none
  MaxUuid = 6
  MaxCalls = 8
INVARIANTS
  KeyKeepsAnswer
  ShownIsStored
  NoOwnDeadEnd
  UncertainIsRetained
CHECK_DEADLOCK FALSE
