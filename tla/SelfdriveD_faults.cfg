SPECIFICATION FairSpec
CONSTANTS
  CarStates <- TimerCars
  OtherEvents <- FaultEvents
  ParamValues <- AllOn
  Pandas <- AllPandas
  PcmCruise = FALSE
  AllowAlways = FALSE
  NoMainCruise = FALSE
  SteeringModes = {"REMAIN_ACTIVE"}
  MadsToggles = {TRUE, FALSE}
  SoftDisableTime = 3
  MismatchLimit = 2
INVARIANTS
  SoftDisableTimed
  MismatchDisengages
PROPERTIES
  SoftDisablingEnds
