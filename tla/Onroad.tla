---------------------------------- MODULE Onroad ----------------------------------
(***************************************************************************)
(* How a drive gets its safety mode.  pandad tells hardwared the ignition;  *)
(* hardwared says that a drive begins; manager and pandad hear it each in   *)
(* its own time.  manager clears the parameters of the drive before and     *)
(* starts card; card asks pandad for the OBD multiplexing, queries the car, *)
(* and writes FirmwareQueryDone, CarParams and ControlsReady one by one;    *)
(* pandad, ten times a second, reads them and puts the panda into the       *)
(* safety mode of the car, once a drive.                                    *)
(*                                                                         *)
(* CarParams is the number of the drive that card wrote it in, 0 if there   *)
(* is none.                                                                *)
(***************************************************************************)
EXTENDS Manager

CONSTANT MaxFaults   \* bound on the crashes of card and pandad

ASSUME OnroadConstants == "card" \in Procs \ Offroad /\ MaxFaults \in Nat

VARIABLES
  ignition,     \* of the car
  pandaStates,  \* the ignition that pandad sent last
  params,       \* the parameters of the transition
  card,         \* where card is, what it asks for, what it has not written yet
  pandad,       \* where its pass is, what it noted, and the mode of the panda
  faults        \* the crashes so far

vars == <<managerVars, ignition, pandaStates, params, card, pandad, faults>>

NoParams == [FirmwareQueryDone |-> FALSE, ControlsReady |-> FALSE, CarParams |-> 0,
             ObdMultiplexingEnabled |-> FALSE, ObdMultiplexingChanged |-> FALSE]
Boot == [step |-> "boot", obd |-> TRUE, ready |-> FALSE]
Fresh == [step |-> "idle", drive |-> 0, initialized |-> FALSE, configured |-> FALSE,
          prev_obd |-> FALSE, mode |-> "noOutput", used |-> 0, early |-> FALSE]

Init ==
  /\ ManagerInit
  /\ ignition = FALSE /\ pandaStates = FALSE
  /\ params = NoParams /\ card = Boot /\ pandad = Fresh /\ faults = 0

-----------------------------------------------------------------------------
Ignition ==
  /\ ignition' = ~ignition
  /\ UNCHANGED <<managerVars, pandaStates, params, card, pandad, faults>>

(* hardwared: a drive needs the ignition and more, which may end it too.     *)
HardwaredStarts ==
  /\ ~deviceState.started /\ pandaStates /\ deviceState.drive < MaxDrives
  /\ deviceState' = [started |-> TRUE, drive |-> deviceState.drive + 1]
  /\ UNCHANGED <<manager, procs, exit, ignition, pandaStates, params, card, pandad, faults>>
HardwaredStops ==
  /\ deviceState.started
  /\ deviceState' = [deviceState EXCEPT !.started = FALSE]
  /\ UNCHANGED <<manager, procs, exit, ignition, pandaStates, params, card, pandad, faults>>

(* Fault: the parameters are cleared when the drive ends.                    *)
Clear_Fault ==
  /\ Cleared
  /\ params' = IF manager.started THEN params ELSE NoParams
  /\ UNCHANGED <<ignition, pandaStates, card, pandad, faults>>

(* All these parameters are cleared when a drive begins, not when it ends.  *)
Clear ==
  /\ Cleared
  /\ params' = IF manager.started THEN NoParams ELSE params
  /\ UNCHANGED <<ignition, pandaStates, card, pandad, faults>>

ManagerStep ==
  /\ Loop
  /\ card' = IF procs'["card"].proc = "alive" /\ procs["card"].proc # "alive"
             THEN Boot ELSE card
  /\ UNCHANGED <<ignition, pandaStates, params, pandad, faults>>

ProcessEnds ==
  /\ \E p \in Procs : procs[p].shutting_down /\ Ends(p)
  /\ UNCHANGED <<ignition, pandaStates, params, card, pandad, faults>>

CardCrashes ==
  /\ faults < MaxFaults /\ faults' = faults + 1
  /\ Ends("card")
  /\ UNCHANGED <<ignition, pandaStates, params, card, pandad>>

-----------------------------------------------------------------------------
(* SIGINT ends the main thread of card at its next step, not the thread that *)
(* writes what was put without waiting.                                     *)
CardAlive == procs["card"].proc = "alive"
CardAt(step) == CardAlive /\ ~procs["card"].shutting_down /\ card.step = step
CardGoes(step) == card' = [card EXCEPT !.step = step]
CardOnly == UNCHANGED <<managerVars, ignition, pandaStates, pandad, faults>>
Put(key, value) == params' = [params EXCEPT ![key] = value]

(* obd_callback, called for TRUE before the query and for FALSE after it.   *)
Answered == IF card.obd THEN "query" ELSE "queried"

AskObd ==
  /\ CardAt("boot")
  /\ IF params.ObdMultiplexingEnabled = card.obd
     THEN CardGoes(Answered) /\ UNCHANGED params
     ELSE CardGoes("put") /\ Put("ObdMultiplexingChanged", FALSE)
  /\ CardOnly
PutObd ==
  /\ CardAt("put")
  /\ CardGoes("wait") /\ Put("ObdMultiplexingEnabled", card.obd) /\ CardOnly
ObdChanged ==
  /\ CardAt("wait") /\ params.ObdMultiplexingChanged
  /\ CardGoes(Answered) /\ UNCHANGED params /\ CardOnly

(* The firmware is queried, or known from CarParamsCache.                   *)
Query ==
  /\ CardAt("query") \/ (CardAt("boot") /\ card.obd)
  /\ card' = [card EXCEPT !.step = "boot", !.obd = FALSE] /\ UNCHANGED params /\ CardOnly

QueryDone ==
  /\ CardAt("queried")
  /\ CardGoes("car") /\ Put("FirmwareQueryDone", TRUE) /\ CardOnly
(* A passive car (a dashcam, or openpilot switched off) has no controls.     *)
PutCarParams ==
  /\ CardAt("car")
  /\ CardGoes("run") \/ CardGoes("passive")
  /\ Put("CarParams", procs["card"].drive) /\ CardOnly

(* selfdrived is initialized, and the car is not passive: ControlsReady is   *)
(* put without waiting, and written by another thread.                      *)
ControlsUpdate ==
  /\ CardAt("run")
  /\ card' = [card EXCEPT !.step = "running", !.ready = TRUE] /\ UNCHANGED params /\ CardOnly
ReadyLands ==
  /\ CardAlive /\ card.ready
  /\ card' = [card EXCEPT !.ready = FALSE] /\ Put("ControlsReady", TRUE) /\ CardOnly

Card == AskObd \/ PutObd \/ ObdChanged \/ Query \/ QueryDone \/ PutCarParams
        \/ ControlsUpdate \/ ReadyLands

-----------------------------------------------------------------------------
PandadAt(step) == pandad.step = step
PandadOnly == UNCHANGED <<managerVars, ignition, card>>

(* A pass: the latest deviceState, the relay, and configureSafetyMode.       *)
Relay == IF ignition THEN pandad.mode ELSE "noOutput"

Look ==
  /\ PandadAt("idle")
  /\ pandaStates' = ignition
  /\ pandad' = IF ~deviceState.started THEN Fresh
               ELSE IF pandad.configured THEN [pandad EXCEPT !.mode = Relay]
               ELSE [pandad EXCEPT !.step = "obd", !.initialized = TRUE,
                                   !.drive = IF pandad.initialized THEN @ ELSE deviceState.drive,
                                   !.mode = IF pandad.initialized THEN Relay ELSE "elm",
                                   !.prev_obd = pandad.initialized /\ @,
                                   !.early = pandad.initialized /\ @]
  /\ UNCHANGED <<params, faults>> /\ PandadOnly

(* History: early, if it acts on what manager has not cleared yet.           *)
Behind == manager.drive # pandad.drive \/ ~manager.started \/ manager.at = "clear"

(* Fault: the parameter of the mode is swapped.                              *)
Multiplex_Fault ==
  /\ PandadAt("obd")
  /\ pandad' = IF params.ObdMultiplexingEnabled = pandad.prev_obd THEN [pandad EXCEPT !.step = "fw"]
               ELSE [pandad EXCEPT !.step = "tell", !.prev_obd = ~@,
                                   !.early = @ \/ (Behind /\ ~pandad.prev_obd),
                                   !.mode = IF pandad.prev_obd THEN "elmObd" ELSE "elm"]
  /\ UNCHANGED <<pandaStates, params, faults>> /\ PandadOnly

Multiplex ==
  /\ PandadAt("obd")
  /\ pandad' = IF params.ObdMultiplexingEnabled = pandad.prev_obd THEN [pandad EXCEPT !.step = "fw"]
               ELSE [pandad EXCEPT !.step = "tell", !.prev_obd = ~@,
                                   !.early = @ \/ (Behind /\ ~pandad.prev_obd),
                                   !.mode = IF pandad.prev_obd THEN "elm" ELSE "elmObd"]
  /\ UNCHANGED <<pandaStates, params, faults>> /\ PandadOnly

(* Fault: the end of multiplexing is not told.                               *)
TellChanged_Fault ==
  /\ PandadAt("tell")
  /\ pandad' = [pandad EXCEPT !.step = "fw"] /\ Put("ObdMultiplexingChanged", pandad.prev_obd)
  /\ UNCHANGED <<pandaStates, faults>> /\ PandadOnly

TellChanged ==
  /\ PandadAt("tell")
  /\ pandad' = [pandad EXCEPT !.step = "fw"] /\ Put("ObdMultiplexingChanged", TRUE)
  /\ UNCHANGED <<pandaStates, faults>> /\ PandadOnly

(* fetchCarParams: three reads.                                             *)
ReadDone ==
  /\ PandadAt("fw")
  /\ pandad' = [pandad EXCEPT !.step = IF params.FirmwareQueryDone THEN "ready" ELSE "idle",
                              !.early = @ \/ (Behind /\ params.FirmwareQueryDone)]
  /\ UNCHANGED <<pandaStates, params, faults>> /\ PandadOnly
ReadReady ==
  /\ PandadAt("ready")
  /\ pandad' = [pandad EXCEPT !.step = IF params.ControlsReady THEN "params" ELSE "idle"]
  /\ UNCHANGED <<pandaStates, params, faults>> /\ PandadOnly

(* An empty CarParams cannot be read: pandad dies of it and starts again.    *)
SetSafetyMode ==
  /\ PandadAt("params")
  /\ pandad' = IF params.CarParams = 0 THEN Fresh
               ELSE [pandad EXCEPT !.step = "idle", !.configured = TRUE, !.mode = "car",
                                   !.used = params.CarParams]
  /\ UNCHANGED <<pandaStates, params, faults>> /\ PandadOnly

PandadCrashes ==
  /\ faults < MaxFaults /\ faults' = faults + 1
  /\ pandad' = Fresh
  /\ UNCHANGED <<pandaStates, params>> /\ PandadOnly

Pandad == Look \/ Multiplex \/ TellChanged \/ ReadDone \/ ReadReady \/ SetSafetyMode

-----------------------------------------------------------------------------
Next ==
  \/ Ignition \/ HardwaredStarts \/ HardwaredStops
  \/ Clear \/ ManagerStep \/ ProcessEnds
  \/ Card \/ CardCrashes
  \/ Pandad \/ PandadCrashes

(* What card does by itself once the car has been queried or pandad has      *)
(* answered.  It waits without a bound for CAN (Query, QueryDone: card.py:94 *)
(* and the queries of opendbc), for selfdrived (ControlsUpdate), and, when  *)
(* the thread that writes ControlsReady has just ended, for good             *)
(* (ReadyLands: params.cc:232).                                             *)
CardGoesOn == (AskObd /\ ~card.obd) \/ PutObd \/ ObdChanged \/ PutCarParams

(* The loops of manager and pandad, and what card does by itself.            *)
Spec ==
  /\ Init /\ [][Next]_vars
  /\ WF_vars(Clear) /\ WF_vars(ManagerStep) /\ WF_vars(CardGoesOn) /\ WF_vars(Pandad)

-----------------------------------------------------------------------------
(* Type invariant.                                                          *)
TypeOK ==
  /\ ManagerTypeOK
  /\ ignition \in BOOLEAN /\ pandaStates \in BOOLEAN /\ faults \in Nat
  /\ params \in [FirmwareQueryDone : BOOLEAN, ControlsReady : BOOLEAN, CarParams : Nat,
                 ObdMultiplexingEnabled : BOOLEAN, ObdMultiplexingChanged : BOOLEAN]
  /\ card \in [step : {"boot", "put", "wait", "query", "queried", "car", "run", "running",
                        "passive"},
               obd : BOOLEAN, ready : BOOLEAN]
  /\ pandad \in [step : {"idle", "obd", "tell", "fw", "ready", "params"}, drive : Nat,
                 initialized : BOOLEAN, configured : BOOLEAN, prev_obd : BOOLEAN,
                 mode : {"noOutput", "elm", "elmObd", "car"}, used : Nat, early : BOOLEAN]
  /\ pandad.configured \/ pandad.prev_obd => pandad.initialized
  /\ card.ready => card.step = "running"

(* manager has begun the drive that pandad set itself up for.               *)
InStep == manager.started /\ manager.at # "clear" /\ manager.drive = pandad.drive

(* The panda has the safety mode of the CarParams that card wrote in this    *)
(* drive, never of those of the drive before, unless pandad read them       *)
(* before manager had cleared them (panda_safety.cc:42-56, manager.py:143). *)
SafetyOfThisDrive == pandad.mode = "car" /\ ~pandad.early /\ InStep => pandad.used = manager.drive

(* The firmware is queried with OBD multiplexing on, or with the relay       *)
(* closed, never with the mode of a car: ObdMultiplexingChanged answers the  *)
(* request it was removed for (card.py:36-44, panda_safety.cc:31-38).       *)
QueriedOverObd ==
  CardAt("query") /\ pandad.initialized /\ InStep /\ ~pandad.early /\ faults = 0
  => pandad.mode \in {"elmObd", "noOutput"}

(* card waits for a change that pandad has made already.                     *)
Unanswered == CardAt("wait") /\ ~params.ObdMultiplexingChanged
              /\ (pandad.configured \/ pandad.prev_obd = params.ObdMultiplexingEnabled)

(* card waits for what nobody owes it: a message of the car, selfdrived's    *)
(* initialization, the write of ControlsReady.                              *)
WaitsForCan == CardAt("query") \/ CardAt("queried") \/ (CardAt("boot") /\ card.obd)
WaitsForSelfdrived == CardAt("run")
ReadyIsStranded == CardAlive /\ card.ready

(* A drive that goes on ends with card running and pandad done, unless the   *)
(* car is passive and gets no mode, or the car, selfdrived or the writing of *)
(* ControlsReady never comes; once they all come, the one other end is card *)
(* waiting for ever in obd_callback (card.py:42), only after a crash, an     *)
(* early read or an end of a drive that pandad did not hear.                *)
DriveGetsItsMode == <>[](deviceState.started /\ ignition) =>
  \/ <>[](pandad.configured /\ CardAt("running"))
  \/ <>[]CardAt("passive")
  \/ <>[]WaitsForCan \/ <>[]WaitsForSelfdrived \/ <>[]ReadyIsStranded
  \/ <>[](Unanswered /\ (faults > 0 \/ pandad.early \/ pandad.drive # manager.drive))
=============================================================================
