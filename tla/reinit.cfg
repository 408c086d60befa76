CONSTANTS
  NumDevices = 2
  NumTunerSlots = 2
  NumCamSlots = 1
  Boxes <- OneBox
  Tuners <- MCTuners
  TunerInfo <- MCTunerInfo
  CiSlots <- MCCiSlots
  Positions <- MCPositions
  Channels <- MCChannels
  TriggerCam = TRUE
  CamDisable = FALSE
  CamsOf <- OneBoxCams
  TunersOf <- OneBoxTuners
  CamReports = {0, 1}
  Prios = {"none", "record"}
  InitialLimit <- NoLimit
  TunerLimits <- S2Off
  EventKinds = {"cam", "reinit", "stop"}
  MaxEvents = 2
SPECIFICATION Spec
INVARIANTS
  CamAccounting
  DisabledHoldNothing
  ReceiversOnTransponder
PROPERTIES
  RecordingKept
