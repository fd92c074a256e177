----------------------------- MODULE MCSelfdriveD -----------------------------
(***************************************************************************)
(* Finite inputs for SelfdriveD: each run varies the part of the car state *)
(* its questions are about and keeps the rest of the car in normal driving.*)
(***************************************************************************)
EXTENDS SelfdriveD

Driving ==
  [NoCarState EXCEPT !.available = TRUE, !.gear = "drive", !.speed = "fast",
                     !.canValid = TRUE]

Standing == [Driving EXCEPT !.speed = "standstill"]

(* Pedals, cruise engagement and buttons, moving or standing. *)
PedalCars ==
  {[Driving EXCEPT !.brakePressed = b, !.gasPressed = g, !.speed = v,
                   !.cruiseEnabled = c, !.buttons = k] :
     b \in BOOLEAN, g \in BOOLEAN, v \in {"standstill", "fast"},
     c \in BOOLEAN, k \in {{}, {"lkas"}}}
  \cup {[Driving EXCEPT !.cruiseEnabled = c, !.buttons = {"cancel"}] : c \in BOOLEAN}

(* Doors, belts, gears, parking brake and brake hold, at rest or creeping. *)
DoorCars ==
  {[Standing EXCEPT !.doorOpen = d, !.seatbeltUnlatched = ~d, !.buttons = k] :
     d \in BOOLEAN, k \in {{}, {"lkas"}}}
  \cup {[Standing EXCEPT !.gear = g, !.speed = v] :
          g \in {"reverse", "park"}, v \in {"standstill", "slow"}}
  \cup {[Driving EXCEPT !.doorOpen = TRUE], [Driving EXCEPT !.parkingBrake = TRUE],
        [Driving EXCEPT !.brakeHoldActive = TRUE],
        [Driving EXCEPT !.canValid = FALSE, !.doorOpen = TRUE]}
  \cup {[Standing EXCEPT !.canTimeout = TRUE, !.canValid = v, !.gear = g] :
          v \in BOOLEAN, g \in {"drive", "park"}}

(* The cruise main switch, the engage buttons and the driver's hands. *)
MainCars ==
  {[Driving EXCEPT !.available = FALSE, !.brakePressed = b, !.buttons = k] :
     b \in BOOLEAN, k \in {{}, {"lkas"}, {"setSpeed"}}}
  \cup {[Driving EXCEPT !.buttonEnable = TRUE, !.buttons = k] : k \in {{}, {"lkas"}}}
  \cup {[Driving EXCEPT !.steeringPressed = TRUE, !.brakePressed = b] : b \in BOOLEAN}

DriverCars == PedalCars \cup DoorCars \cup MainCars

(* Engagement at a stop and steering overrides, for the timers. *)
TimerCars ==
  {[Standing EXCEPT !.brakePressed = b, !.steeringPressed = s,
                    !.buttonEnable = e, !.buttons = k] :
     b \in BOOLEAN, s \in BOOLEAN, e \in BOOLEAN, k \in {{}, {"lkas"}}}

NoEvents    == {{}}
FaultEvents == {{}, {"commIssue"}, {"canError"}}
OneEach     == {{}} \cup {{e} : e \in SystemEvent}
AllPandas   == Panda
GoodPanda   == {[controlsAllowed |-> TRUE, controlsAllowedLateral |-> TRUE]}

Setting(main, uem, doa) ==
  [main_enabled_toggle |-> main, unified_engagement_mode |-> uem,
   disengage_on_accelerator |-> doa]
AllOn      == {Setting(TRUE, TRUE, TRUE)}
GasSetting == {Setting(TRUE, TRUE, TRUE), Setting(TRUE, TRUE, FALSE)}
===============================================================================
