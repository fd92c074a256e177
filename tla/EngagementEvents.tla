--------------------------- MODULE EngagementEvents ---------------------------
(***************************************************************************)
(* The events selfdrived raises each cycle, and the event types the two    *)
(* engagement state machines ask for.                                      *)
(*                                                                         *)
(* An event list is modelled as a set of names: both state machines only   *)
(* ask whether a name or a type is present.  Names the code never tells    *)
(* apart are represented by one of them: commIssue stands for every event  *)
(* with SOFT_DISABLE and NO_ENTRY (overheat, processNotRunning, ...),      *)
(* canError for every one with IMMEDIATE_DISABLE and NO_ENTRY, resumeBlocked*)
(* for every one with NO_ENTRY alone.  Events whose only types are WARNING *)
(* or PERMANENT never reach a state machine and are left out, except the   *)
(* alert-only events MADS writes in the place of another one.              *)
(***************************************************************************)

StockEvent ==
  {"pcmEnable", "buttonEnable", "pcmDisable", "buttonCancel", "pedalPressed",
   "steerDisengage", "wrongCarMode", "wrongCruiseMode", "preEnableStandstill",
   "gasPressedOverride", "steerOverride", "doorOpen", "seatbeltNotLatched",
   "wrongGear", "reverseGear", "brakeHold", "parkBrake", "belowEngageSpeed",
   "speedTooLow", "cruiseDisabled", "espActive", "canBusMissing", "canError",
   "commIssue", "controlsMismatch", "resumeBlocked", "selfdriveInitializing"}

(* GEARS_ALLOW_PAUSED_SILENT and GEARS_ALLOW_PAUSED of mads/state.py.      *)
SilentGears ==
  {"silentWrongGear", "silentReverseGear", "silentBrakeHold",
   "silentDoorOpen", "silentSeatbeltNotLatched", "silentParkBrake"}

PausedGears ==
  {"wrongGear", "reverseGear", "brakeHold", "doorOpen",
   "seatbeltNotLatched", "parkBrake"}

EventSP ==
  SilentGears \cup
  {"lkasEnable", "lkasDisable", "manualSteeringRequired", "silentLkasEnable",
   "silentLkasDisable", "controlsMismatchLateral", "manualLongitudinalRequired",
   "wrongCarModeAlertOnly", "pedalPressedAlertOnly"}

(* The silent replacement MADS gives to a stock event while it steers alone. *)
SilentOf ==
  [doorOpen           |-> "silentDoorOpen",
   seatbeltNotLatched |-> "silentSeatbeltNotLatched",
   wrongGear          |-> "silentWrongGear",
   reverseGear        |-> "silentReverseGear",
   brakeHold          |-> "silentBrakeHold",
   parkBrake          |-> "silentParkBrake"]

-----------------------------------------------------------------------------
(* Event types: the keys of EVENTS and EVENTS_SP, read as sets of names.   *)

ENABLE == {"pcmEnable", "buttonEnable", "lkasEnable", "silentLkasEnable"}

PRE_ENABLE == {"preEnableStandstill"}

OVERRIDE_LATERAL == {"steerOverride"}

OVERRIDE_LONGITUDINAL == {"gasPressedOverride"}

USER_DISABLE ==
  {"pcmDisable", "buttonCancel", "parkBrake", "pedalPressed", "steerDisengage",
   "wrongCarMode", "wrongCruiseMode", "reverseGear",
   "lkasDisable", "manualSteeringRequired", "silentLkasDisable"}

SOFT_DISABLE ==
  {"commIssue", "wrongGear", "doorOpen", "seatbeltNotLatched", "espActive"}

(* Fault: the lateral mismatch event carries no disable. *)
IMMEDIATE_DISABLE_NoLateral ==
  {"controlsMismatch", "canError", "canBusMissing", "cruiseDisabled", "speedTooLow"}

IMMEDIATE_DISABLE ==
  {"controlsMismatch", "canError", "canBusMissing", "cruiseDisabled",
   "speedTooLow", "controlsMismatchLateral"}

NO_ENTRY ==
  SilentGears \cup
  {"buttonCancel", "parkBrake", "pedalPressed", "steerDisengage", "wrongCarMode",
   "wrongCruiseMode", "belowEngageSpeed", "resumeBlocked", "reverseGear",
   "selfdriveInitializing", "commIssue", "wrongGear", "doorOpen",
   "seatbeltNotLatched", "espActive", "controlsMismatch", "canError",
   "canBusMissing", "controlsMismatchLateral"}

(* EventsBase.contains: some event of the list carries the type. *)
Contains(evs, type) == evs \cap type # {}
===============================================================================
