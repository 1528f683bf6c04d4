SPECIFICATION PromptSpec
CONSTANTS
  Request = {r1, r2, r3}
  NoRequest = none
  Editing = {}
  Lease = 5
  Beat = 1
  MaxMissed = 1
SYMMETRY Interchangeable
INVARIANTS
  SingleProviderCall
  NoWastedCall
  NoLostWork
CHECK_DEADLOCK FALSE
