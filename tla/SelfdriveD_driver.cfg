SPECIFICATION Spec
CONSTANTS
  CarStates <- DriverCars
  OtherEvents <- OneEach
  ParamValues <- GasSetting
  Pandas <- GoodPanda
  PcmCruise = TRUE
  AllowAlways = TRUE
  NoMainCruise = FALSE
  SteeringModes = {"REMAIN_ACTIVE", "PAUSE", "DISENGAGE"}
  MadsToggles = {TRUE}
  SoftDisableTime = 2
  MismatchLimit = 2
INVARIANTS
  DoorPausesSteering
PROPERTIES
  BrakeStopsSteering
  EntryChecked
  DriverTurnsOn
  SteeringOutlivesCruise
