CONSTANTS
  Kinds <- MCKinds
  Wishes <- MCWishes
  Cap = 2
  StuffingLen = 3
  MaxUnits = 5
  MaxOpens = 2
  MaxQueue = 1
  MaxFaults = 1
SPECIFICATION Spec
INVARIANTS
  TypeOK
  SectionsIntact
  SectionsDelivered
  PidsFollowFilters
CHECK_DEADLOCK FALSE
