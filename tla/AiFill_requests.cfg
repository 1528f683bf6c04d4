SPECIFICATION FairSpec
CONSTANTS
  Request = {r1, r2}
  NoRequest = none
  Editing = {r2}
  Lease = 2
  Beat = 1
  MaxMissed = 0
INVARIANTS
  TypeOK
  FencedOwnerIsAlone
  OneText
PROPERTIES
  ImplementsStore
  RequestsEnd
  AbandonedLeaseEnds
CHECK_DEADLOCK FALSE
