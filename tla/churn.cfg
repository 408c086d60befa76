CONSTANTS
  NumDevices = 2
  NumTunerSlots = 2
  NumCamSlots = 1
  Boxes <- MCBoxes
  Tuners <- MCTuners
  TunerInfo <- MCTunerInfo
  CiSlots <- MCCiSlots
  Positions <- MCPositions
  Channels <- OneEncrypted
  TriggerCam = TRUE
  CamDisable = FALSE
  CamsOf <- MCCamsOf
  TunersOf <- MCTunersOf
  CamReports = {0, 1}
  Prios = {"none", "record"}
  InitialLimit <- NoLimit
  TunerLimits <- S2Off
  EventKinds = {"box", "preference", "limit", "reinit"}
  MaxEvents = 2
SPECIFICATION FairSpec
INVARIANTS
  TypeOK
  TunerAccounting
  NoDuplicates
PROPERTIES
  AllocatorSpec
  DevicesFollowTuners
