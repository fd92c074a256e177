------------------------------ MODULE SelfdriveD ------------------------------
(***************************************************************************)
(* selfdrived: SelfdriveD.step runs at 100 Hz and calls, one after the     *)
(* other, data_sample, update_events, the stock state machine, MADS, and   *)
(* the publisher.  Every call is an action, ordered by pc, because         *)
(* params_thread writes the cached parameters between any two of them.     *)
(* The pandas, the car and the other processes are the environment: what   *)
(* they say is chosen anew in every cycle.                                 *)
(***************************************************************************)
EXTENDS Mads

CONSTANTS
  Pandas,           \* what the pandas may answer
  PcmCruise,        \* CP.pcmCruise: the car's own cruise engages openpilot
  CarStates,        \* the car states a cycle may sample
  OtherEvents,      \* the sets of events other components may raise in a cycle
  ParamValues,      \* the values the parameters may take
  SteeringModes,    \* the steering modes MADS may be built with
  MadsToggles       \* the values of the Mads toggle at start

(* What the rest of update_events (and the brand-specific car events) may add. *)
SystemEvent ==
  {"steerDisengage", "belowEngageSpeed", "speedTooLow", "cruiseDisabled",
   "espActive", "canError", "commIssue", "resumeBlocked", "wrongCruiseMode"}

ASSUME SelfdriveConstants ==
  /\ Pandas \subseteq Panda
  /\ PcmCruise \in BOOLEAN
  /\ CarStates \subseteq CarState
  /\ OtherEvents \subseteq SUBSET SystemEvent
  /\ ParamValues \subseteq Params
  /\ SteeringModes \subseteq SteeringMode
  /\ MadsToggles \subseteq BOOLEAN

VARIABLES
  pc,                 \* the call of step that runs next
  initialized,        \* SelfdriveD.initialized
  mismatch_counter,   \* SelfdriveD.mismatch_counter
  mads_toggle         \* MADS.enabled_toggle, read once

envVars == <<CS, CS_prev, panda, params>>
setupVars == <<steering_mode_on_brake, mads_disengage_on_accelerator, mads_toggle>>
vars == <<pc, initialized, mismatch_counter, events, events_sp,
          smVars, madsVars, lateral_mismatch_counter, enabled_prev,
          envVars, setupVars>>

Calls == {"data_sample", "update_events", "state_machine",
          "mads_events", "mads_state_machine", "publish"}

(* A CarState message with nothing set; CS_prev starts as one. *)
NoCarState ==
  [brakePressed |-> FALSE, regenBraking |-> FALSE, gasPressed |-> FALSE,
   speed |-> "standstill", available |-> FALSE, cruiseEnabled |-> FALSE,
   buttonEnable |-> FALSE, gear |-> "park", doorOpen |-> FALSE,
   seatbeltUnlatched |-> FALSE, parkingBrake |-> FALSE,
   brakeHoldActive |-> FALSE, steeringPressed |-> FALSE,
   buttons |-> {}, canValid |-> FALSE, canTimeout |-> FALSE]

Init ==
  /\ StateMachineInit
  /\ MadsInit
  /\ pc = "data_sample"
  /\ initialized = FALSE
  /\ mismatch_counter = 0
  /\ events = {}
  /\ events_sp = {}
  /\ CS = NoCarState
  /\ CS_prev = NoCarState
  /\ panda = [controlsAllowed |-> FALSE, controlsAllowedLateral |-> FALSE]
  /\ params \in ParamValues
  /\ mads_disengage_on_accelerator = params.disengage_on_accelerator
  /\ steering_mode_on_brake \in SteeringModes
  /\ mads_toggle \in MadsToggles

-----------------------------------------------------------------------------
(* SelfdriveD.data_sample: a CarState, or the last one when none came; the *)
(* end of initialization (all services valid, or six seconds) is an input. *)

MismatchCounter ==
  IF ~enabled THEN 0
  ELSE IF ~panda'.controlsAllowed THEN mismatch_counter + 1
  ELSE mismatch_counter

DataSample ==
  /\ pc = "data_sample"
  /\ CS' \in CarStates \cup {CS_prev}
  /\ panda' \in Pandas
  /\ initialized' \in {initialized, TRUE}
  /\ mismatch_counter' = MismatchCounter
  /\ pc' = "update_events"
  /\ UNCHANGED <<CS_prev, params, events, events_sp, smVars, madsVars,
                 lateral_mismatch_counter, enabled_prev, setupVars>>

-----------------------------------------------------------------------------
(* SelfdriveD.update_events with the car events of car_events.py.          *)

PedalPressed ==
  LET Brakes(now, before) == now /\ (~before \/ CS.speed # "standstill")
  IN \/ GasRising /\ params.disengage_on_accelerator
     \/ Brakes(CS.brakePressed, CS_prev.brakePressed)
     \/ Brakes(CS.regenBraking, CS_prev.regenBraking)

CarEvents ==
  Only(CS.doorOpen, "doorOpen")
    \cup Only(CS.seatbeltUnlatched, "seatbeltNotLatched")
    \cup Only(CS.gear # "drive", "wrongGear")
    \cup Only(CS.gear = "reverse", "reverseGear")
    \cup Only(~CS.available, "wrongCarMode")
    \cup Only(CS.brakeHoldActive, "brakeHold")
    \cup Only(CS.parkingBrake, "parkBrake")
    \cup Only(CS.steeringPressed, "steerOverride")
    \cup Only(CS.brakePressed /\ CS.speed = "standstill", "preEnableStandstill")
    \cup Only(CS.gasPressed, "gasPressedOverride")
    \cup Only(CS.buttonEnable, "buttonEnable")
    \cup Only("cancel" \in CS.buttons, "buttonCancel")
    \cup Only(PcmCruise /\ CS.cruiseEnabled /\ ~CS_prev.cruiseEnabled, "pcmEnable")
    \cup Only(PcmCruise /\ ~CS.cruiseEnabled, "pcmDisable")
    \cup Only(PedalPressed, "pedalPressed")

(* A time-out of the CAN bus takes the place of the CAN error; in Park its  *)
(* event is removed again while MADS is enabled, and no event is left.     *)
CanMuted == CS.canTimeout /\ CS.gear = "park" /\ mads_enabled

CanEvents == Only(CS.canTimeout /\ ~CanMuted, "canBusMissing")
               \cup Only(~CS.canTimeout /\ ~CS.canValid, "canError")

CollectedEvents(other) ==
  (IF CS.canValid THEN CarEvents ELSE {})
    \cup CanEvents
    \cup Only(mismatch_counter >= MismatchLimit, "controlsMismatch")
    \cup other

UpdateEvents ==
  /\ pc = "update_events"
  /\ \/ /\ ~initialized
        /\ events' = {"selfdriveInitializing"}
        /\ pc' = IF mads_toggle THEN "mads_events" ELSE "publish"
     \/ /\ initialized
        /\ \E other \in OtherEvents : events' = CollectedEvents(other)
        /\ pc' = "state_machine"
  /\ UNCHANGED <<initialized, mismatch_counter, events_sp, smVars, madsVars,
                 lateral_mismatch_counter, enabled_prev, envVars, setupVars>>

-----------------------------------------------------------------------------
(* The two state machines.                                                 *)

RunStateMachine ==
  /\ pc = "state_machine"
  /\ StateMachineUpdate(events)
  /\ pc' = IF mads_toggle THEN "mads_events" ELSE "publish"
  /\ UNCHANGED <<initialized, mismatch_counter, events, events_sp, madsVars,
                 lateral_mismatch_counter, enabled_prev, envVars, setupVars>>

(* MADS.update up to its state machine, which does not run before the end  *)
(* of initialization; enabled_prev is copied at the end of MADS.update.    *)
RunMadsEvents ==
  /\ pc = "mads_events"
  /\ MadsUpdateEvents
  /\ pc' = IF initialized THEN "mads_state_machine" ELSE "publish"
  /\ enabled_prev' = IF initialized THEN enabled_prev ELSE enabled
  /\ UNCHANGED <<initialized, mismatch_counter, smVars, madsVars,
                 envVars, setupVars>>

RunMadsStateMachine ==
  /\ pc = "mads_state_machine"
  /\ MadsStateMachineUpdate
  /\ enabled_prev' = enabled
  /\ pc' = "publish"
  /\ UNCHANGED <<initialized, mismatch_counter, events, events_sp,
                 state, enabled, active, lateral_mismatch_counter,
                 envVars, setupVars>>

(* publish_selfdriveState, and the end of step.  The events are cleared    *)
(* here and not by the next update_events: nothing reads them in between.  *)
Publish ==
  /\ pc = "publish"
  /\ CS_prev' = CS
  /\ events' = {}
  /\ events_sp' = {}
  /\ pc' = "data_sample"
  /\ UNCHANGED <<initialized, mismatch_counter, smVars, madsVars,
                 lateral_mismatch_counter, enabled_prev,
                 CS, panda, params, setupVars>>

Step ==
  \/ DataSample
  \/ UpdateEvents
  \/ RunStateMachine
  \/ RunMadsEvents
  \/ RunMadsStateMachine
  \/ Publish

(* params_thread, which runs beside step: what the settings page wrote     *)
(* becomes visible to selfdrived, and to MADS through read_params.         *)
ParamsThread ==
  /\ params' \in ParamValues \ {params}
  /\ UNCHANGED <<pc, initialized, mismatch_counter, events, events_sp, smVars,
                 madsVars, lateral_mismatch_counter, enabled_prev,
                 CS, CS_prev, panda, setupVars>>

Next == Step \/ ParamsThread

Spec == Init /\ [][Next]_vars

(* The control loop is real-time and never blocks (recv_one times out after *)
(* 20 ms), so step keeps running.                                           *)
FairSpec == Spec /\ WF_vars(Step)

-----------------------------------------------------------------------------
(* Properties                                                              *)

TypeOK ==
  /\ pc \in Calls
  /\ initialized \in BOOLEAN
  /\ mismatch_counter \in Nat
  /\ lateral_mismatch_counter \in Nat
  /\ events \subseteq StockEvent
  /\ events_sp \subseteq EventSP
  /\ state \in State
  /\ soft_disable_timer \in 0..SoftDisableTime
  /\ enabled \in BOOLEAN /\ active \in BOOLEAN
  /\ mads_state \in MadsState
  /\ mads_enabled \in BOOLEAN /\ mads_active \in BOOLEAN
  /\ enabled_prev \in BOOLEAN
  /\ CS \in CarState /\ CS_prev \in CarState
  /\ panda \in Panda
  /\ params \in Params
  /\ steering_mode_on_brake \in SteeringMode
  /\ mads_disengage_on_accelerator \in BOOLEAN
  /\ mads_toggle \in BOOLEAN

(* The driver gets the whole soft-disable window: while the stock state     *)
(* machine is soft disabling the shared timer is running, however MADS used *)
(* it before.                                                              *)
SoftDisableTimed == state = "softDisabling" => soft_disable_timer \in 1..SoftDisableTime

(* The two machines never disagree with the panda for long: after a cycle   *)
(* neither is in control with its mismatch counter at the limit.           *)
MismatchDisengages ==
  pc = "publish" =>
    /\ enabled => mismatch_counter < MismatchLimit
    /\ mads_active /\ ~enabled => lateral_mismatch_counter < MismatchLimit

(* No entry check is lost when MADS trades an event for its silent twin:    *)
(* steering never starts with a door or a belt open, out of drive, on the   *)
(* parking brake, without valid CAN or after a time-out of the bus.  One    *)
(* way remains, and only for a MADS that is paused: in Park the time-out    *)
(* that stands for all that is known of the car is removed from the events  *)
(* (selfdrived.py:368-371, 451-453).                                       *)
EntryChecked ==
  [][~mads_active /\ mads_active' =>
       \/ CanMuted /\ ~CS.canValid /\ mads_state = "paused"
       \/ /\ CS.canValid /\ ~CS.canTimeout
          /\ ~CS.doorOpen /\ ~CS.seatbeltUnlatched /\ ~CS.parkingBrake
          /\ CS.gear = "drive"]_vars

(* A car that stands with a door or a belt open is never steered by MADS    *)
(* alone, whatever the state machines did in the cycle.                    *)
DoorPausesSteering ==
  pc = "publish" /\ initialized /\ CS.canValid /\ ~enabled
    /\ CS.speed = "standstill" /\ (CS.doorOpen \/ CS.seatbeltUnlatched)
      => ~mads_active

(* The step of the cycle that decides the MADS state. *)
MadsSettles == pc = "mads_state_machine" /\ pc' = "publish"

BrakePedal ==
  LET Brakes(now, before) == now /\ (~before \/ CS.speed # "standstill")
  IN \/ Brakes(CS.brakePressed, CS_prev.brakePressed)
     \/ Brakes(CS.regenBraking, CS_prev.regenBraking)

BrakePress ==
  /\ MadsSettles
  /\ steering_mode_on_brake # "REMAIN_ACTIVE"
  /\ mads_active
  /\ CS.canValid /\ BrakePedal /\ ~GasRising

BrakeHeld ==
  /\ mads_state = "paused"
  /\ steering_mode_on_brake = "PAUSE"
  /\ CS.brakePressed \/ CS.regenBraking
  /\ ~AvailableRising

(* In the PAUSE and DISENGAGE modes a brake press takes the steering away   *)
(* in the cycle that sees it, whether or not the cruise was engaged too     *)
(* (mads.py:64-69, 120-139); while the driver holds the brake in PAUSE mode *)
(* a paused MADS resumes only for a new press of the cruise main switch     *)
(* (mads.py:71-78, 198-200).                                                *)
BrakeStopsSteering == [][BrakePress \/ BrakeHeld => ~mads_active']_vars

Asked ==
  \/ LkasPressed
  \/ AvailableRising
  \/ CS.buttonEnable
  \/ CS.cruiseEnabled /\ ~CS_prev.cruiseEnabled

(* Unified engagement: every setting asks for it, and this cycle engages    *)
(* the cruise.                                                             *)
Unified ==
  /\ \A p \in ParamValues : p.unified_engagement_mode
  /\ MadsSettles
  /\ enabled /\ ~enabled_prev

(* Only the driver turns MADS on: by the LKAS button, the cruise main       *)
(* switch or an engagement of the cruise, never by a silent resume          *)
(* (mads.py:152-200); and where the engagements are unified, a MADS that    *)
(* was off is engaged in the very cycle that engages the cruise (mads.py:   *)
(* 80-91, 210-222).                                                        *)
DriverTurnsOn ==
  [][mads_state = "disabled" => /\ mads_state' # "disabled" => Asked
                                /\ Unified => mads_active']_vars

(* A cancelled or braked cruise leaves the steering alone (REMAIN_ACTIVE):  *)
(* MADS stays active through a cycle with no request and no fault.         *)
SteeringOutlivesCruise ==
  [][/\ MadsSettles
     /\ mads_active
     /\ steering_mode_on_brake = "REMAIN_ACTIVE"
     /\ CS.canValid /\ CS.gear = "drive" /\ CS.available
     /\ ~CS.doorOpen /\ ~CS.seatbeltUnlatched /\ ~CS.parkingBrake
     /\ ~CS.brakeHoldActive
     /\ "lkas" \notin CS.buttons
     /\ ~Contains(events, {"steerDisengage"} \cup SOFT_DISABLE \cup IMMEDIATE_DISABLE)
     /\ "controlsMismatchLateral" \notin events_sp
     => mads_active']_vars

(* The window is whole and ends.  MADS begins soft disabling with a full    *)
(* timer, its own or the one the stock machine started in the cycle; the    *)
(* exception is an enabled stock machine that did not: it was in            *)
(* preEnabled, where it ignores SOFT_DISABLE (mads/state.py:66-72,          *)
(* state.py:59-64).  For both machines soft disabling ends: the condition   *)
(* clears or the shared timer runs out (state.py:19-20).                    *)
WindowIsWhole ==
  [][mads_state # "softDisabling" /\ mads_state' = "softDisabling" =>
       \/ soft_disable_timer' = SoftDisableTime
       \/ state \in {"preEnabled", "enabled"}]_vars

SoftDisablingEnds ==
  /\ WindowIsWhole
  /\ state = "softDisabling" ~> state # "softDisabling"
  /\ mads_state = "softDisabling" ~> mads_state # "softDisabling"

===============================================================================
