CONSTANTS
  NumDevices = 2
  Slots <- MCSlots
  CamMax = 1
  Tuner1 = Tuner1
  Tuner2 = Tuner2
  Vdr1 = Vdr1
  Vdr2 = Vdr2
  Callers <- MCTwoCallers
  Plugin = Plugin
  Main = Main
  NULL = NULL
  MaxTunes = 2
  MaxChanges = 1
  MaxControls = 1
SPECIFICATION Spec
SYMMETRY MCSymmetry
INVARIANTS
  TypeOK
  TunersExclusive
  CamCounted
  DisabledHoldNothing
CHECK_DEADLOCK FALSE
