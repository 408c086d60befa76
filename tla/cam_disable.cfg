CONSTANTS
  NumDevices = 2
  NumTunerSlots = 2
  NumCamSlots = 1
  Boxes <- MCBoxes
  Tuners <- MCTuners
  TunerInfo <- MCTunerInfo
  CiSlots <- MCCiSlots
  Positions <- MCPositions
  Channels <- MCChannels
  TriggerCam = FALSE
  CamDisable = TRUE
  CamsOf <- MCCamsOf
  TunersOf <- MCTunersOf
  CamReports = {0, 1}
  Prios = {"none", "record"}
  InitialLimit <- NoLimit
  TunerLimits <- S2Off
  EventKinds = {}
  MaxEvents = 0
SPECIFICATION Spec
INVARIANTS
  CamDisableRejects
