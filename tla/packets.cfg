CONSTANTS
  DataSize = 4
  PosSize = 8
  Packets = 5
  Sizes <- MCSizes
  MaxPuts = 20
SPECIFICATION Spec
INVARIANTS
  TypeOK
  InsideBuffer
  NewestIntact
PROPERTIES
  OnlyLapsLost
CHECK_DEADLOCK FALSE
