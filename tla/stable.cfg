CONSTANTS
  NumDevices = 2
  NumTunerSlots = 3
  NumCamSlots = 2
  Boxes <- MCBoxes
  Tuners <- MCTuners
  TunerInfo <- ApartTuners
  CiSlots <- TwoCiSlots
  Positions <- MCPositions
  Channels <- ThreeChannels
  TriggerCam = TRUE
  CamDisable = FALSE
  CamsOf <- TwoCams
  TunersOf <- MCTunersOf
  CamReports = {0, 1}
  Prios = {"none", "transfer", "record"}
  InitialLimit <- OneDvbS2
  TunerLimits <- S2Off
  EventKinds = {}
  MaxEvents = 0
SPECIFICATION Spec
INVARIANTS
  LimitRespected
  RightTuner
  OfferKept
  CamNotOverbooked
