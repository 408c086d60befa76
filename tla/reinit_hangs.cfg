CONSTANTS
  NumDevices = 2
  Slots <- MCSlots
  CamMax = 1
  Tuner1 = Tuner1
  Tuner2 = Tuner2
  Vdr1 = Vdr1
  Vdr2 = Vdr2
  Callers <- MCOneCaller
  Plugin = Plugin
  Main = Main
  NULL = NULL
  MaxTunes = 1
  MaxChanges = 1
  MaxControls = 1
SPECIFICATION FairSpec
PROPERTIES
  ReinitReturns
CHECK_DEADLOCK FALSE
