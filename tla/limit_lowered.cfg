CONSTANTS
  NumDevices = 2
  NumTunerSlots = 3
  NumCamSlots = 1
  Boxes <- MCBoxes
  Tuners <- MCTuners
  TunerInfo <- MCTunerInfo
  CiSlots <- MCCiSlots
  Positions <- MCPositions
  Channels <- MCChannels
  TriggerCam = TRUE
  CamDisable = FALSE
  CamsOf <- MCCamsOf
  TunersOf <- MCTunersOf
  CamReports = {0, 1}
  Prios = {"none", "record"}
  InitialLimit <- NoLimit
  TunerLimits <- S2Off
  EventKinds = {"limit"}
  MaxEvents = 1
SPECIFICATION Spec
PROPERTIES
  NoAllocationBeyondLimit
