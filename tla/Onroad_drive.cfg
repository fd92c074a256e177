SPECIFICATION Spec
CONSTANTS
  ProcList <- OnlyCard
  Onroad = {"card"}
  Offroad = {}
  MaxDrives = 2
  MaxFaults = 1
INVARIANTS OfThisDrive SafetyOfThisDrive QueriedOverObd
PROPERTY DriveGetsItsMode
CHECK_DEADLOCK FALSE
