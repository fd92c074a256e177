SPECIFICATION DeviceSpec
CONSTANTS
  ProcList <- TwoProcs
  Onroad = {"card"}
  Offroad = {"updated"}
  MaxDrives = 2
  Temps = {90, 95, 108}
  CycleFrames = 1
INVARIANTS OverlapIsShort StartsCool
PROPERTY ShutdownEnds
CHECK_DEADLOCK FALSE
