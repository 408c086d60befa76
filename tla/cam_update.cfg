CONSTANTS
  Sessions <- MCSessions
  Cams <- MCCams
  Box <- MCBox
  MaxChanges = 2
  MaxMenus = 2
SPECIFICATION Spec
INVARIANTS
  TypeOK
  NoSessionLeft
  AnswersReachCam
  UpToDateIsTrue
PROPERTIES
  OnlyShownFlags
  UpdateEnds
CHECK_DEADLOCK FALSE
