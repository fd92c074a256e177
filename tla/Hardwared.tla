-------------------------------- MODULE Hardwared --------------------------------
(***************************************************************************)
(* hardwared (system/hardware): ten times a second, with each pandaStates,  *)
(* it looks at the ignition, and twice a second, or when the ignition makes *)
(* a difference, decides whether a drive is on.  A drive begins when all    *)
(* the onroad and all the startup conditions hold, and goes on while the    *)
(* onroad conditions hold.  Heat moves the thermal status one band a cycle; *)
(* parked for 5 minutes it may jump to critical.  Parked for long, or when  *)
(* asked to, the device is shut down.                                       *)
(*                                                                         *)
(* Temperatures are the filtered ones, in degrees, 1000 at the most.        *)
(***************************************************************************)
EXTENDS Integers

CONSTANTS
  Temps,        \* what the sensors may show
  CycleFrames   \* frames that an onroad cycle lasts

VARIABLES
  hw,            \* what hardware_thread keeps from one cycle to the next
  cycleRequest,  \* OnroadCycleRequested
  DoShutdown     \* the parameter

hardwaredVars == <<hw, cycleRequest, DoShutdown>>

(* THERMAL_BANDS and OFFROAD_DANGER_TEMP of mici: ok, overheated, critical.  *)
Ok == 1
Overheated == 2
Critical == 3
MinTemp == <<-1, 92, 98>>
MaxTemp == <<100, 107, 1000>>
OffroadDanger == 85

(* off: no off_ts, parked, or parked for more than 5 minutes, which is also  *)
(* DELAY_SHUTDOWN_TIME_S; hour: up for more than MIN_ON_TIME_S; hot is      *)
(* history: it was critical, and not below 92 degrees since.                *)
HardwaredInit ==
  /\ hw = [ignition |-> FALSE, cycle |-> CycleFrames, temp_good |-> TRUE, always_offroad |-> FALSE,
           thermal |-> Ok, started |-> FALSE, seen |-> FALSE, off |-> "none", hour |-> FALSE,
           hot |-> FALSE]
  /\ cycleRequest = FALSE /\ DoShutdown = FALSE

-----------------------------------------------------------------------------
(* The first part of a cycle: the request of a cycle, and the ignition.     *)
Looked(ignition) ==
  [hw EXCEPT !.ignition = ignition,
             !.cycle = IF cycleRequest THEN CycleFrames ELSE IF @ > 0 THEN @ - 1 ELSE 0]

OnroadConditions(h) == h.ignition /\ h.cycle = 0 /\ h.temp_good /\ ~h.always_offroad

LookOnly(ignition) ==
  LET h == Looked(ignition)
  IN  /\ h.started = OnroadConditions(h)
      /\ hw' = h
      /\ cycleRequest' = FALSE
      /\ UNCHANGED DoShutdown

-----------------------------------------------------------------------------
(* Fault: a band is left where it was entered.                               *)
Band_Fault(h, temp, danger) ==
  IF ~h.started /\ (~h.seen \/ h.off \in {"none", "long"}) /\ danger THEN Critical
  ELSE IF h.thermal > Ok /\ temp < MaxTemp[h.thermal - 1] THEN h.thermal - 1
  ELSE IF temp > MaxTemp[h.thermal] THEN h.thermal + 1
  ELSE h.thermal

(* danger: the offroad temperature, which is not above the other, is too hot.*)
Band(h, temp, danger) ==
  IF ~h.started /\ (~h.seen \/ h.off \in {"none", "long"}) /\ danger THEN Critical
  ELSE IF temp < MinTemp[h.thermal] THEN h.thermal - 1
  ELSE IF temp > MaxTemp[h.thermal] THEN h.thermal + 1
  ELSE h.thermal

(* What keeps a drive from beginning, apart from heat: a startup condition,  *)
(* or OffroadMode, which also ends one.                                     *)
Obstacles == {"none", "startup", "OffroadMode"}

Decided(ignition, temp, danger, obstacle) ==
  LET h == Looked(ignition)
      band == Band(h, temp, danger)
      now == [h EXCEPT !.thermal = band, !.temp_good = band < Critical,
                       !.always_offroad = obstacle = "OffroadMode",
                       !.hot = IF band = Critical THEN TRUE ELSE @ /\ temp >= MinTemp[Overheated]]
      should_start == OnroadConditions(now) /\ (h.started \/ (band < Overheated /\ obstacle = "none"))
  IN  [now EXCEPT !.started = should_start, !.seen = @ \/ should_start,
                  !.off = IF should_start THEN "none" ELSE IF @ = "none" THEN "short" ELSE @]

(* drained: in the car, parked too long or its battery low, and             *)
(* DisablePowerDown is not set.                                             *)
Power == {"enough", "drained", "ForcePowerDown"}

ShouldShutdown(h, power) ==
  /\ h.off # "none"
  /\ \/ power = "drained" /\ ~h.ignition /\ h.off = "long"
     \/ power = "ForcePowerDown"
  /\ h.seen \/ h.hour

Cycle ==
  \E ignition \in BOOLEAN, obstacle \in Obstacles, temp \in Temps :
    \E danger \in {FALSE, temp > OffroadDanger} :
      /\ hw' = Decided(ignition, temp, danger, obstacle)
      /\ DoShutdown' \in {DoShutdown \/ ShouldShutdown(hw', power) : power \in Power}
      /\ cycleRequest' = FALSE

(* Time passes, and the user asks for a cycle.                              *)
Hours ==
  /\ hw' \in {[hw EXCEPT !.hour = TRUE],
              [hw EXCEPT !.off = IF @ = "short" THEN "long" ELSE @]}
  /\ UNCHANGED <<cycleRequest, DoShutdown>>

RequestCycle ==
  /\ cycleRequest' = TRUE
  /\ UNCHANGED <<hw, DoShutdown>>

Look == \E ignition \in BOOLEAN : LookOnly(ignition)
=============================================================================
