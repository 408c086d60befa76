CONSTANTS
  NumDevices = 2
  MldStart = TRUE
  Vdr1 = Vdr1
  Vdr2 = Vdr2
  Callers <- MCCallers
  Plugin = Plugin
  Main = Main
  NULL = NULL
  MaxReinits = 3
SPECIFICATION Spec
SYMMETRY MCSymmetry
INVARIANTS
  TypeOK
  StagesNested
  NothingLeft
  TuneOnLive
CHECK_DEADLOCK FALSE
