--------------------------------- MODULE Mads ---------------------------------
(***************************************************************************)
(* The Modular Assistive Driving System: lateral control with a state      *)
(* machine of its own, run by selfdrived in every cycle after the stock    *)
(* one (sunnypilot/mads/mads.py, sunnypilot/mads/state.py).  It rewrites   *)
(* the cycle's events, then moves its state on the rewritten ones, and     *)
(* shares the soft-disable timer of the stock state machine.               *)
(***************************************************************************)
EXTENDS StateMachine

CONSTANTS
  MismatchLimit,   \* samples: the 200 of mads.py and selfdrived.py
  AllowAlways,     \* MADS.allow_always: the LKAS button works without cruise main
  NoMainCruise     \* MADS.no_main_cruise: the car has no cruise main button

ASSUME MadsConstants ==
  /\ MismatchLimit \in Nat \ {0}
  /\ AllowAlways \in BOOLEAN
  /\ NoMainCruise \in BOOLEAN

VARIABLES
  CS, CS_prev,              \* the car state of this cycle and of the last one
  panda,                    \* do all pandas that are not silent allow control
  events, events_sp,        \* SelfdriveD.events, SelfdriveD.events_sp
  params,                   \* the parameters params_thread refreshes
  steering_mode_on_brake,   \* read once, when MADS is built
  mads_disengage_on_accelerator,   \* MADS.disengage_on_accelerator, read once
  mads_state, mads_enabled, mads_active,
  lateral_mismatch_counter,
  enabled_prev              \* SelfdriveD.enabled at the end of the last cycle

madsVars == <<mads_state, mads_enabled, mads_active>>

SteeringMode == {"REMAIN_ACTIVE", "PAUSE", "DISENGAGE"}
Params == [main_enabled_toggle : BOOLEAN, unified_engagement_mode : BOOLEAN,
           disengage_on_accelerator : BOOLEAN]
Panda == [controlsAllowed : BOOLEAN, controlsAllowedLateral : BOOLEAN]

(* What the code reads of a CarState.  buttons holds the button events;    *)
(* an LKAS event counts on its press only.                                 *)
CarState ==
  [brakePressed : BOOLEAN, regenBraking : BOOLEAN, gasPressed : BOOLEAN,
   speed : {"standstill", "slow", "fast"},   \* slow: vEgo < 2.5
   available : BOOLEAN, cruiseEnabled : BOOLEAN, buttonEnable : BOOLEAN,
   gear : {"drive", "park", "reverse"}, doorOpen : BOOLEAN,
   seatbeltUnlatched : BOOLEAN, parkingBrake : BOOLEAN,
   brakeHoldActive : BOOLEAN, steeringPressed : BOOLEAN,
   buttons : SUBSET {"cancel", "lkas", "setSpeed"},
   canValid : BOOLEAN, canTimeout : BOOLEAN]

ActiveStatesMads  == {"enabled", "softDisabling", "overriding"}
EnabledStatesMads == ActiveStatesMads \cup {"paused"}
MadsState         == EnabledStatesMads \cup {"disabled"}

-----------------------------------------------------------------------------
(* mads.py: the events of the cycle, rewritten                             *)

GasRising == CS.gasPressed /\ ~CS_prev.gasPressed

(* Fault: gas that is held, not newly pressed, also hides the brake. *)
PedalPressedNonGasPressed_Held ==
  /\ "pedalPressed" \in events
  /\ ~CS.gasPressed

(* A pedalPressed event is ignored when the gas explains it, by the value  *)
(* of the parameter MADS read when it was built.                           *)
PedalPressedNonGasPressed ==
  /\ "pedalPressed" \in events
  /\ ~(GasRising /\ mads_disengage_on_accelerator)

SteersAlone == mads_enabled /\ ~enabled

Replaced ==
  {e \in events \cap DOMAIN SilentOf :
     /\ SteersAlone
     /\ e \in {"doorOpen", "seatbeltNotLatched"} => CS.speed = "standstill"
     /\ e = "wrongGear" => CS.speed # "fast" \/ CS.gear = "reverse"}

(* Fault: only the brake pedal pauses. *)
TransitionPaused_PedalOnly ==
  /\ mads_state # "paused"
  /\ SteersAlone
  /\ steering_mode_on_brake = "PAUSE"
  /\ PedalPressedNonGasPressed

(* transition_paused_state is called for every replacement and, in PAUSE   *)
(* mode, for the brake pedal; it does nothing in the paused state.         *)
TransitionPaused ==
  /\ mads_state # "paused"
  /\ \/ Replaced # {}
     \/ /\ SteersAlone
        /\ steering_mode_on_brake = "PAUSE"
        /\ PedalPressedNonGasPressed

Suppressed == IF SteersAlone
              THEN {"preEnableStandstill", "belowEngageSpeed", "speedTooLow",
                    "cruiseDisabled", "espActive"}
              ELSE {}

SelfdriveEnableEvents == events \cap {"pcmEnable", "buttonEnable"} # {}

BlockUnifiedEngagementMode ==
  \/ ~params.unified_engagement_mode
  \/ mads_enabled
  \/ enabled /\ enabled_prev

AvailableRising  == CS.available /\ ~CS_prev.available
AvailableFalling == ~CS.available /\ CS_prev.available /\ ~NoMainCruise
LkasPressed == "lkas" \in CS.buttons /\ (CS.available \/ AllowAlways)

LkasEnable ==
  \/ ~SelfdriveEnableEvents /\ params.main_enabled_toggle /\ AvailableRising
  \/ LkasPressed /\ ~mads_enabled

(* Line 194 asks contains() for the event lkasEnable, but contains() looks  *)
(* for an event type and never finds it: nothing is blocked there.          *)
LkasDisable ==
  \/ LkasPressed /\ mads_enabled /\ ~enabled
  \/ AvailableFalling
  \/ /\ steering_mode_on_brake = "DISENGAGE"
     /\ PedalPressedNonGasPressed
     /\ mads_enabled

ShouldSilentLkasEnable(sp) ==
  /\ ~(/\ steering_mode_on_brake = "PAUSE"
       /\ CS.brakePressed \/ CS.regenBraking \/ PedalPressedNonGasPressed)
  /\ sp \cap SilentGears = {}

(* Fault: the resume is sent in every state. *)
SilentLkasEnable_AnyState(sp) == ShouldSilentLkasEnable(sp)

SilentLkasEnable(sp) == ShouldSilentLkasEnable(sp) /\ mads_state = "paused"

Only(cond, e) == IF cond THEN {e} ELSE {}

(* Fault: the cancel button reaches the MADS state machine. *)
CruiseEvents_NoCancel == {"pcmDisable", "pedalPressed", "wrongCruiseMode", "wrongCarMode"}

(* The end of the cruise is not the end of steering. *)
CruiseEvents ==
  {"pcmDisable", "buttonCancel", "pedalPressed", "wrongCruiseMode", "wrongCarMode"}

StockEventsRemoved ==
  CruiseEvents
    \cup Replaced
    \cup Suppressed
    \cup (IF SelfdriveEnableEvents /\ BlockUnifiedEngagementMode
          THEN {"pcmEnable", "buttonEnable"} ELSE {})
    \cup Only(~CS.available /\ ~NoMainCruise, "buttonEnable")

(* Fault: the replaced events leave no silent twin behind. *)
SilentEvents_NoTwin == events_sp \cup Only(TransitionPaused, "silentLkasDisable")

SilentEvents ==
  events_sp \cup {SilentOf[e] : e \in Replaced}
            \cup Only(TransitionPaused, "silentLkasDisable")

RequestEvents ==
  Only(LkasEnable, "lkasEnable")
    \cup Only(LkasDisable, "lkasDisable")
    \cup Only(LkasPressed /\ mads_enabled /\ enabled, "manualSteeringRequired")

AlertOnlyEvents ==
  Only(/\ "wrongCarMode" \in events
       /\ SelfdriveEnableEvents \/ "setSpeed" \in CS.buttons, "wrongCarModeAlertOnly")
    \cup Only(SelfdriveEnableEvents /\ PedalPressedNonGasPressed, "pedalPressedAlertOnly")
    \cup Only("cancel" \in CS.buttons /\ ~enabled /\ enabled_prev,
              "manualLongitudinalRequired")

(* MADS.data_sample and MADS.update_events.  The counter is reset, counts  *)
(* or keeps its value; agreement with the panda does not reset it.         *)
LateralMismatchCounter ==
  IF ~mads_active \/ enabled THEN 0
  ELSE IF ~panda.controlsAllowedLateral THEN lateral_mismatch_counter + 1
  ELSE lateral_mismatch_counter

MadsUpdateEvents ==
  /\ lateral_mismatch_counter' = LateralMismatchCounter
  /\ events' = events \ StockEventsRemoved
  /\ events_sp' =
       SilentEvents \cup RequestEvents \cup AlertOnlyEvents
         \cup Only(SilentLkasEnable(SilentEvents), "silentLkasEnable")
         \cup Only(lateral_mismatch_counter' >= MismatchLimit,
                   "controlsMismatchLateral")

-----------------------------------------------------------------------------
(* state.py: the MADS state machine, on the events of both lists           *)

AllEvents == events \cup events_sp

MadsEnter(s) ==
  /\ mads_state' = s
  /\ mads_enabled' = (s \in EnabledStatesMads)
  /\ mads_active' = (s \in ActiveStatesMads)

(* The shared timer is restarted only while the stock state machine is off. *)
MadsEnterSoftDisabling ==
  /\ MadsEnter("softDisabling")
  /\ soft_disable_timer' = IF enabled THEN soft_disable_timer ELSE SoftDisableTime

MadsDisable ==
  /\ mads_state # "disabled"
  /\ Disabling(AllEvents)
  /\ MadsEnter(IF /\ Contains(AllEvents, USER_DISABLE)
                  /\ "silentLkasDisable" \in events_sp
               THEN "paused" ELSE "disabled")
  /\ UNCHANGED soft_disable_timer

MadsWhenEnabled ==
  /\ mads_state = "enabled"
  /\ ~Disabling(AllEvents)
  /\ \/ /\ Contains(AllEvents, SOFT_DISABLE)
        /\ MadsEnterSoftDisabling
     \/ /\ ~Contains(AllEvents, SOFT_DISABLE)
        /\ MadsEnter(IF Contains(AllEvents, OVERRIDE_LATERAL)
                     THEN "overriding" ELSE "enabled")
        /\ UNCHANGED soft_disable_timer

MadsWhenSoftDisabling ==
  /\ mads_state = "softDisabling"
  /\ ~Disabling(AllEvents)
  /\ \/ /\ ~Contains(AllEvents, SOFT_DISABLE)
        /\ MadsEnter("enabled")
     \/ /\ Contains(AllEvents, SOFT_DISABLE)
        /\ MadsEnter(IF soft_disable_timer > 0 THEN "softDisabling" ELSE "disabled")
  /\ UNCHANGED soft_disable_timer

MadsWhenPaused ==
  /\ mads_state = "paused"
  /\ ~Disabling(AllEvents)
  /\ \/ /\ ~Contains(AllEvents, ENABLE) \/ Contains(AllEvents, NO_ENTRY)
        /\ MadsEnter("paused")
     \/ /\ Contains(AllEvents, ENABLE)
        /\ ~Contains(AllEvents, NO_ENTRY)
        /\ MadsEnter(IF Contains(AllEvents, OVERRIDE_LATERAL)
                     THEN "overriding" ELSE "enabled")
  /\ UNCHANGED soft_disable_timer

MadsWhenOverriding ==
  /\ mads_state = "overriding"
  /\ ~Disabling(AllEvents)
  /\ \/ /\ Contains(AllEvents, SOFT_DISABLE)
        /\ MadsEnterSoftDisabling
     \/ /\ ~Contains(AllEvents, SOFT_DISABLE)
        /\ MadsEnter(IF Contains(AllEvents, OVERRIDE_LATERAL)
                     THEN "overriding" ELSE "enabled")
        /\ UNCHANGED soft_disable_timer

(* An enable that only a gear, a door, a belt or a brake forbids arms MADS: *)
(* it waits in the paused state.                                            *)
MadsWhenDisabled ==
  /\ mads_state = "disabled"
  /\ \/ /\ ~Contains(AllEvents, ENABLE)
        /\ MadsEnter("disabled")
     \/ /\ Contains(AllEvents, ENABLE)
        /\ Contains(AllEvents, NO_ENTRY)
        /\ MadsEnter(IF \/ events \cap PausedGears # {}
                        \/ events_sp \cap SilentGears # {}
                     THEN "paused" ELSE "disabled")
     \/ /\ Contains(AllEvents, ENABLE)
        /\ ~Contains(AllEvents, NO_ENTRY)
        /\ MadsEnter(IF Contains(AllEvents, OVERRIDE_LATERAL)
                     THEN "overriding" ELSE "enabled")
  /\ UNCHANGED soft_disable_timer

MadsStateMachineUpdate ==
  \/ MadsDisable
  \/ MadsWhenEnabled
  \/ MadsWhenSoftDisabling
  \/ MadsWhenPaused
  \/ MadsWhenOverriding
  \/ MadsWhenDisabled

MadsInit ==
  /\ mads_state = "disabled"
  /\ mads_enabled = FALSE
  /\ mads_active = FALSE
  /\ lateral_mismatch_counter = 0
  /\ enabled_prev = FALSE
===============================================================================
