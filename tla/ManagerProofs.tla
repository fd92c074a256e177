------------------------------- MODULE ManagerProofs -------------------------------
(***************************************************************************)
(* What manager keeps at every step, for any list of processes, and what    *)
(* its two compositions have of it: with card and pandad the panda has the  *)
(* mode of the CarParams of the drive it is in, for any number of drives    *)
(* and crashes; with hardwared no overlap is long, and no drive is on while *)
(* it is hot, for any temperatures.                                         *)
(***************************************************************************)
EXTENDS Onroad, Device, Integers, TLAPS

(* manager.                                                                  *)

(* The places of the list that the walk of this round is past.              *)
Passed(p) == \E i \in 1..(manager.place - 1) : ProcList[i] = p

(* After the walk that stops, what should not run is signalled or gone, and  *)
(* when the round before had the same walk it is gone.                      *)
Walk ==
  \A p \in Procs : ~Wanted(p) =>
    /\ At("start") \/ At("sent") \/ At("poll") => ~Running(p)
    /\ At("stop") /\ (manager.again \/ Passed(p)) => ~Running(p)
    /\ manager.again /\ (At("start") \/ At("sent") \/ (At("stop") /\ Passed(p))) => procs[p] = NoProcess

(* When a drive begins nothing of the drive before is left unsignalled.      *)
Begins == At("clear") => /\ manager.place = 1 /\ ~manager.again
                         /\ manager.started => \A p \in Procs \ Offroad : ~Running(p)

MInv == ManagerTypeOK /\ Walk /\ Begins /\ OfThisDrive

-----------------------------------------------------------------------------
LEMMA ListNotEmpty == Len(ProcList) \in Nat \ {0}
BY ManagerConstants

LEMMA ProcessInList == ManagerTypeOK => Process \in Procs
BY DEF ManagerTypeOK, Process, Procs

(* The initial state.                                                       *)
LEMMA InitKeeps == ManagerInit => MInv
<1> SUFFICES ASSUME ManagerInit PROVE MInv
    OBVIOUS
<1> USE DEF ManagerInit, At
<1>a. manager.place \in 1..Len(ProcList)
  BY ListNotEmpty
<1>b. manager \in [at : {"poll", "clear", "stop", "start", "sent", "cleanup", "join", "off"},
                  place : 1..Len(ProcList), started : BOOLEAN, again : BOOLEAN, drive : Nat]
  BY <1>a
<1>c. procs \in [Procs -> [proc : {"none", "alive", "dead"}, shutting_down : BOOLEAN, drive : Nat]]
  BY DEF NoProcess
<1>1. ManagerTypeOK
  BY <1>b, <1>c DEF ManagerTypeOK
<1>2. \A p \in Procs : ~Running(p)
  BY DEF Running, NoProcess
<1> QED
  BY <1>1, <1>2 DEF MInv, Walk, Begins, OfThisDrive

(* manager does not see when deviceState and the ways to exit change.        *)
LEMMA SendKeeps ==
  ASSUME MInv, UNCHANGED <<manager, procs>>,
         deviceState' \in [started : BOOLEAN, drive : Nat], exit' \in BOOLEAN
  PROVE  MInv'
<1>1. ManagerTypeOK'
  BY DEF MInv, ManagerTypeOK, Procs
<1>2. Walk' /\ Begins' /\ OfThisDrive'
  BY DEF MInv, Walk, Begins, OfThisDrive, At, Wanted, Running, Passed, Procs, NoProcess
<1> QED
  BY <1>1, <1>2 DEF MInv

-----------------------------------------------------------------------------
(* A walk goes to the next place, and ends when all the list is passed.      *)
LEMMA WalkGoesOn ==
  ASSUME ManagerTypeOK, NEW then \in {"start", "sent", "join", "off"}, Advance(then)
  PROVE  /\ manager' \in [at : {"poll", "clear", "stop", "start", "sent", "cleanup", "join", "off"},
                          place : 1..Len(ProcList), started : BOOLEAN, again : BOOLEAN, drive : Nat]
         /\ manager'.started = manager.started /\ manager'.again = manager.again
         /\ manager'.drive = manager.drive
         /\ manager'.at \in {manager.at, then}
         /\ manager'.at # manager.at => \A p \in Procs : Passed(p) \/ p = Process
         /\ manager'.at = manager.at /\ manager.at # then
              => \A p \in Procs : Passed(p)' => Passed(p) \/ p = Process
<1>1. CASE manager.place = Len(ProcList)
  <2>1. manager' = [manager EXCEPT !.at = then, !.place = 1]
    BY <1>1 DEF Advance
  <2>2. \A p \in Procs : Passed(p) \/ p = Process
    <3> TAKE p \in Procs
    <3>1. PICK i \in 1..Len(ProcList) : ProcList[i] = p
      BY DEF Procs
    <3>2. i = manager.place \/ i \in 1..(manager.place - 1)
      BY <1>1, ListNotEmpty DEF ManagerTypeOK
    <3> QED
      BY <3>1, <3>2 DEF Passed, Process
  <2>3. 1 \in 1..Len(ProcList)
    BY ListNotEmpty
  <2>4. manager'.at = then
    BY <2>1 DEF ManagerTypeOK
  <2> QED
    BY <2>1, <2>2, <2>3, <2>4 DEF ManagerTypeOK
<1>2. CASE manager.place # Len(ProcList)
  <2>1. manager' = [manager EXCEPT !.place = @ + 1]
    BY <1>2 DEF Advance
  <2>2. manager'.place = manager.place + 1 /\ manager'.place \in 1..Len(ProcList)
    BY <1>2, <2>1, ListNotEmpty DEF ManagerTypeOK
  <2>3. \A p \in Procs : Passed(p)' => Passed(p) \/ p = Process
    <3> SUFFICES ASSUME NEW p \in Procs, Passed(p)' PROVE Passed(p) \/ p = Process
        OBVIOUS
    <3>1. PICK i \in 1..(manager'.place - 1) : ProcList[i] = p
      BY DEF Passed
    <3>2. i = manager.place \/ i \in 1..(manager.place - 1)
      BY <2>2 DEF ManagerTypeOK
    <3> QED
      BY <3>1, <3>2 DEF Passed, Process
  <2> QED
    BY <2>1, <2>2, <2>3 DEF ManagerTypeOK
<1> QED
  BY <1>1, <1>2

(* What stop makes of a process.                                            *)
LEMMA StopMakes ==
  ASSUME ManagerTypeOK, NEW q \in Procs, Stop(q)
  PROVE  /\ procs' \in [Procs -> [proc : {"none", "alive", "dead"}, shutting_down : BOOLEAN, drive : Nat]]
         /\ \A p \in Procs \ {q} : procs'[p] = procs[p]
         /\ Running(q) => procs'[q] = [procs[q] EXCEPT !.shutting_down = TRUE]
         /\ ~Running(q) => procs'[q] = NoProcess
<1>1. procs \in [Procs -> [proc : {"none", "alive", "dead"}, shutting_down : BOOLEAN, drive : Nat]]
  BY DEF ManagerTypeOK
<1>2. PICK new : /\ new = IF procs[q].proc = "alive" THEN [procs[q] EXCEPT !.shutting_down = TRUE]
                          ELSE NoProcess
                 /\ procs' = [procs EXCEPT ![q] = new]
  BY DEF Stop
<1>3. NoProcess \in [proc : {"none", "alive", "dead"}, shutting_down : BOOLEAN, drive : Nat]
  BY DEF NoProcess
<1>4. new \in [proc : {"none", "alive", "dead"}, shutting_down : BOOLEAN, drive : Nat]
  BY <1>1, <1>2, <1>3
<1>5. procs' \in [Procs -> [proc : {"none", "alive", "dead"}, shutting_down : BOOLEAN, drive : Nat]]
  BY <1>1, <1>2, <1>4
<1>6. /\ \A p \in Procs \ {q} : procs'[p] = procs[p]
      /\ procs'[q] = new
  BY <1>1, <1>2
<1>7. procs[q].proc = "alive" <=> Running(q)
  BY <1>1 DEF Stop, Dying, Running
<1> QED
  BY <1>2, <1>5, <1>6, <1>7

LEMMA StopUnwantedKeeps ==
  ASSUME MInv, StopUnwanted PROVE MInv'
<1> DEFINE new == procs'
<1>1. Advance("start") /\ Process \in Procs /\ ManagerTypeOK /\ At("stop")
  BY ProcessInList DEF MInv, StopUnwanted
<1>2. /\ manager'.started = manager.started /\ manager'.again = manager.again
      /\ manager'.drive = manager.drive
      /\ manager'.at \in {"stop", "start"}
      /\ manager'.at = "start" => \A p \in Procs : Passed(p) \/ p = Process
      /\ manager'.at = "stop" => \A p \in Procs : Passed(p)' => Passed(p) \/ p = Process
  BY <1>1, WalkGoesOn DEF At
<1>3. /\ procs' \in [Procs -> [proc : {"none", "alive", "dead"}, shutting_down : BOOLEAN, drive : Nat]]
      /\ \A p \in Procs \ {Process} : procs'[p] = procs[p]
      /\ ~Wanted(Process) => /\ Running(Process) => procs'[Process] = [procs[Process] EXCEPT !.shutting_down = TRUE]
                             /\ ~Running(Process) => procs'[Process] = NoProcess
      /\ Wanted(Process) => procs' = procs
  <2>1. CASE Wanted(Process)
    BY <1>1, <2>1 DEF StopUnwanted, ManagerTypeOK
  <2>2. CASE ~Wanted(Process)
    BY <1>1, <2>2, StopMakes DEF StopUnwanted
  <2> QED
    BY <2>1, <2>2
<1>4. ManagerTypeOK'
  BY <1>1, <1>3, WalkGoesOn DEF StopUnwanted, ManagerTypeOK, Procs
<1>5. \A p \in Procs : Running(p)' => Running(p) /\ procs'[p] = procs[p] /\ (p = Process => Wanted(p))
  BY <1>1, <1>3 DEF Running, NoProcess, ManagerTypeOK
<1>6. \A p \in Procs : Wanted(p)' <=> Wanted(p)
  BY <1>2 DEF Wanted
<1>7. Walk'
  <2> SUFFICES ASSUME NEW p \in Procs, ~Wanted(p)
               PROVE  /\ manager'.at = "start" => ~Running(p)'
                      /\ manager'.at = "stop" /\ (manager.again \/ Passed(p)') => ~Running(p)'
                      /\ manager.again /\ (manager'.at = "start" \/ (manager'.at = "stop" /\ Passed(p)'))
                           => procs'[p] = NoProcess
      BY <1>2, <1>6 DEF Walk, At, Procs, NoProcess
  <2>1. manager.again \/ Passed(p) => ~Running(p)
    BY <1>1 DEF MInv, Walk
  <2>2. manager.again /\ Passed(p) => procs[p] = NoProcess
    BY <1>1 DEF MInv, Walk
  <2>3. p = Process => ~Running(p)'
    BY <1>5
  <2>4. manager.again /\ p = Process => procs'[p] = NoProcess
    BY <1>3, <2>1
  <2>5. manager.again /\ Passed(p) => procs'[p] = NoProcess
    BY <1>3, <2>2, <2>4
  <2>6. manager'.at = "start" \/ Passed(p)' => Passed(p) \/ p = Process
    BY <1>2
  <2> QED
    BY <1>2, <1>5, <2>1, <2>3, <2>4, <2>5, <2>6
<1>8. Begins'
  BY <1>2 DEF Begins, At
<1>9. OfThisDrive'
  BY <1>2, <1>5 DEF MInv, OfThisDrive, Procs
<1> QED
  BY <1>4, <1>7, <1>8, <1>9 DEF MInv

(* What start makes of a process.                                           *)
LEMMA StartMakes ==
  ASSUME ManagerTypeOK, NEW q \in Procs, Start(q)
  PROVE  /\ procs' \in [Procs -> [proc : {"none", "alive", "dead"}, shutting_down : BOOLEAN, drive : Nat]]
         /\ \A p \in Procs \ {q} : procs'[p] = procs[p]
         /\ procs'[q] = procs[q] \/ procs'[q].drive = manager.drive
<1>1. CASE procs[q].proc = "alive"
  BY <1>1 DEF Start, ManagerTypeOK
<1>2. CASE procs[q].proc # "alive"
  <2>1. PICK new : /\ new = [proc |-> "alive", shutting_down |-> FALSE, drive |-> manager.drive]
                   /\ procs' = [procs EXCEPT ![q] = new]
    BY <1>2 DEF Start
  <2>2. new \in [proc : {"none", "alive", "dead"}, shutting_down : BOOLEAN, drive : Nat]
    BY <2>1 DEF ManagerTypeOK
  <2>3. new.drive = manager.drive
    BY <2>1
  <2> QED
    BY <2>1, <2>2, <2>3 DEF ManagerTypeOK
<1> QED
  BY <1>1, <1>2

LEMMA StartWantedKeeps ==
  ASSUME MInv, StartWanted PROVE MInv'
<1>1. Advance("sent") /\ Process \in Procs /\ ManagerTypeOK /\ At("start")
  BY ProcessInList DEF MInv, StartWanted
<1>2. /\ manager'.started = manager.started /\ manager'.again = manager.again
      /\ manager'.drive = manager.drive
      /\ manager'.at \in {"start", "sent"}
  BY <1>1, WalkGoesOn DEF At
<1>3. /\ procs' \in [Procs -> [proc : {"none", "alive", "dead"}, shutting_down : BOOLEAN, drive : Nat]]
      /\ \A p \in Procs : ~Wanted(p) \/ p # Process => procs'[p] = procs[p]
      /\ procs'[Process] = procs[Process] \/ procs'[Process].drive = manager.drive
  <2>1. CASE Wanted(Process)
    BY <1>1, <2>1, StartMakes DEF StartWanted
  <2>2. CASE ~Wanted(Process)
    BY <1>1, <2>2 DEF StartWanted, ManagerTypeOK
  <2> QED
    BY <2>1, <2>2
<1>4. ManagerTypeOK'
  BY <1>1, <1>3, WalkGoesOn DEF StartWanted, ManagerTypeOK, Procs
<1>5. Walk'
  <2> SUFFICES ASSUME NEW p \in Procs, ~Wanted(p)
               PROVE  ~Running(p)' /\ (manager.again => procs'[p] = NoProcess)
      BY <1>2 DEF Walk, At, Wanted, Procs, NoProcess
  <2>1. ~Running(p) /\ (manager.again => procs[p] = NoProcess)
    BY <1>1 DEF MInv, Walk
  <2> QED
    BY <1>3, <2>1 DEF Running
<1>6. Begins'
  BY <1>2 DEF Begins, At
<1>7. OfThisDrive'
  <2> SUFFICES ASSUME NEW p \in Procs \ Offroad, Running(p)' PROVE procs'[p].drive = manager.drive
      BY <1>2 DEF OfThisDrive, Procs
  <2>1. CASE procs'[p] = procs[p]
    BY <2>1 DEF MInv, OfThisDrive, Running
  <2>2. CASE procs'[p] # procs[p]
    BY <1>3, <2>2
  <2> QED
    BY <2>1, <2>2
<1> QED
  BY <1>4, <1>5, <1>6, <1>7 DEF MInv

(* From a round to the next, and to a drive: what ran in it is signalled.    *)
LEMMA PollKeeps ==
  ASSUME MInv, Poll PROVE MInv'
<1>1. /\ ManagerTypeOK /\ At("poll")
      /\ procs' = procs /\ deviceState' = deviceState /\ exit' = exit
  BY DEF MInv, Poll
<1>2. PICK begins \in BOOLEAN, again \in BOOLEAN :
        /\ begins = (deviceState.started /\ ~manager.started)
        /\ again = (deviceState.started = manager.started)
        /\ manager' = [at |-> IF again THEN "stop" ELSE "clear", place |-> 1,
                       started |-> deviceState.started, again |-> again,
                       drive |-> IF begins THEN deviceState.drive ELSE manager.drive]
  BY <1>1 DEF Poll, ManagerTypeOK
<1>3. 1 \in 1..Len(ProcList)
  BY ListNotEmpty
<1>4. ManagerTypeOK'
  BY <1>1, <1>2, <1>3 DEF ManagerTypeOK, Procs
<1>5. \A p \in Procs : ~Wanted(p) => ~Running(p)
  BY <1>1 DEF MInv, Walk
<1>6. \A p \in Procs : Running(p)' <=> Running(p)
  BY <1>1 DEF Running
<1>7. CASE again
  <2>1. manager'.at = "stop" /\ manager'.started = manager.started /\ manager'.drive = manager.drive
        /\ manager'.place = 1
    BY <1>1, <1>2, <1>7 DEF ManagerTypeOK
  <2>2. \A p \in Procs : ~Passed(p)'
    BY <2>1 DEF Passed
  <2>3. Walk'
    BY <1>5, <1>6, <2>1, <2>2 DEF Walk, At, Wanted, Procs
  <2> QED
    BY <1>1, <1>4, <1>6, <2>1, <2>3 DEF MInv, Begins, OfThisDrive, At, Procs
<1>8. CASE ~again
  <2>1. manager'.at = "clear" /\ manager'.started = ~manager.started
        /\ manager'.place = 1 /\ ~manager'.again
        /\ manager'.drive = (IF begins THEN deviceState.drive ELSE manager.drive)
    BY <1>1, <1>2, <1>8 DEF ManagerTypeOK
  <2>2. Walk'
    BY <2>1 DEF Walk, At
  <2>3. CASE manager.started
    <3>1. manager'.drive = manager.drive /\ ~manager'.started
      BY <1>2, <2>1, <2>3
    <3> QED
      BY <1>1, <1>4, <1>6, <2>1, <2>2, <3>1 DEF MInv, Begins, OfThisDrive, Procs
  <2>4. CASE ~manager.started
    <3>1. \A p \in Procs \ Offroad : ~Running(p)'
      BY <1>5, <1>6, <2>4 DEF Wanted
    <3> QED
      BY <1>4, <2>1, <2>2, <3>1 DEF MInv, Begins, OfThisDrive, Procs
  <2> QED
    BY <2>3, <2>4
<1> QED
  BY <1>7, <1>8

LEMMA ClearedKeeps ==
  ASSUME MInv, Cleared PROVE MInv'
<1>1. /\ ManagerTypeOK /\ At("clear")
      /\ procs' = procs /\ deviceState' = deviceState /\ exit' = exit
      /\ manager' = [manager EXCEPT !.at = "stop"]
  BY DEF MInv, Cleared
<1>2. manager'.at = "stop" /\ ~manager'.again /\ manager'.place = 1
      /\ manager'.drive = manager.drive /\ manager'.started = manager.started
  BY <1>1 DEF MInv, Begins, ManagerTypeOK, At
<1>3. ManagerTypeOK'
  BY <1>1 DEF ManagerTypeOK, Procs
<1>4. Walk' /\ Begins'
  BY <1>2 DEF Walk, Begins, At, Passed
<1>5. OfThisDrive'
  BY <1>1, <1>2 DEF MInv, OfThisDrive, Running, Procs
<1> QED
  BY <1>3, <1>4, <1>5 DEF MInv

(* A process that ends or is killed.                                        *)
LEMMA DeadKeeps ==
  ASSUME MInv, NEW q \in Procs, procs[q].proc = "alive",
         procs' = [procs EXCEPT ![q].proc = "dead"], UNCHANGED <<deviceState, manager, exit>>
  PROVE  MInv'
<1>1. ManagerTypeOK /\ procs[q] # NoProcess
  BY DEF MInv, NoProcess
<1>2. /\ procs' \in [Procs -> [proc : {"none", "alive", "dead"}, shutting_down : BOOLEAN, drive : Nat]]
      /\ \A p \in Procs \ {q} : procs'[p] = procs[p]
      /\ procs'[q].proc = "dead"
  BY <1>1 DEF ManagerTypeOK
<1>3. ManagerTypeOK'
  BY <1>1, <1>2 DEF ManagerTypeOK, Procs
<1>4. \A p \in Procs : Running(p)' => Running(p) /\ procs'[p] = procs[p]
  BY <1>2 DEF Running
<1>5. \A p \in Procs : procs[p] = NoProcess => procs'[p] = NoProcess
  BY <1>1, <1>2
<1>6. Walk' /\ Begins'
  BY <1>4, <1>5 DEF MInv, Walk, Begins, At, Wanted, Passed, Procs, NoProcess
<1>7. OfThisDrive'
  BY <1>4 DEF MInv, OfThisDrive, Procs
<1> QED
  BY <1>3, <1>6, <1>7 DEF MInv

LEMMA LeavingKeeps ==
  ASSUME MInv, EndRound \/ CleanUp \/ Join PROVE MInv'
<1>1. CASE EndRound
  <2>1. /\ ManagerTypeOK /\ At("sent")
        /\ procs' = procs /\ deviceState' = deviceState /\ exit' = exit
        /\ manager' = [manager EXCEPT !.at = IF exit THEN "cleanup" ELSE "poll"]
    BY <1>1 DEF MInv, EndRound
  <2>2. manager'.at \in {"cleanup", "poll"}
        /\ manager'.drive = manager.drive /\ manager'.started = manager.started
    BY <2>1 DEF ManagerTypeOK
  <2>3. ManagerTypeOK'
    BY <2>1 DEF ManagerTypeOK, Procs
  <2>4. Walk' /\ Begins'
    BY <2>1, <2>2 DEF MInv, Walk, Begins, At, Wanted, Running, Procs
  <2>5. OfThisDrive'
    BY <2>1, <2>2 DEF MInv, OfThisDrive, Running, Procs
  <2> QED
    BY <2>3, <2>4, <2>5 DEF MInv
<1>2. CASE CleanUp \/ Join
  <2>1. /\ ManagerTypeOK /\ (At("cleanup") \/ At("join")) /\ Process \in Procs /\ Stop(Process)
        /\ deviceState' = deviceState /\ exit' = exit /\ (Advance("join") \/ Advance("off"))
    BY <1>2, ProcessInList DEF MInv, CleanUp, Join
  <2>2. /\ manager' \in [at : {"poll", "clear", "stop", "start", "sent", "cleanup", "join", "off"},
                          place : 1..Len(ProcList), started : BOOLEAN, again : BOOLEAN, drive : Nat]
        /\ manager'.at \in {"cleanup", "join", "off"} /\ manager'.drive = manager.drive
    BY <2>1, WalkGoesOn DEF At
  <2>3. /\ procs' \in [Procs -> [proc : {"none", "alive", "dead"}, shutting_down : BOOLEAN, drive : Nat]]
        /\ \A p \in Procs : Running(p)' => procs'[p] = procs[p]
    <3>1. procs' \in [Procs -> [proc : {"none", "alive", "dead"}, shutting_down : BOOLEAN, drive : Nat]]
      BY <2>1, StopMakes
    <3>2. /\ \A p \in Procs \ {Process} : procs'[p] = procs[p]
          /\ Running(Process) => procs'[Process] = [procs[Process] EXCEPT !.shutting_down = TRUE]
          /\ ~Running(Process) => procs'[Process] = NoProcess
      BY <2>1, StopMakes
    <3>3. procs'[Process].proc # "alive" \/ procs'[Process].shutting_down
      BY <2>1, <3>2 DEF NoProcess, ManagerTypeOK
    <3> QED
      BY <3>1, <3>2, <3>3 DEF Running
  <2>4. ManagerTypeOK'
    BY <2>1, <2>2, <2>3 DEF ManagerTypeOK, Procs
  <2>5. Walk' /\ Begins'
    BY <2>2 DEF Walk, Begins, At
  <2>6. OfThisDrive'
    BY <2>2, <2>3 DEF MInv, OfThisDrive, Running, Procs
  <2> QED
    BY <2>4, <2>5, <2>6 DEF MInv
<1> QED
  BY <1>1, <1>2

(* Every step of manager and of its processes.                              *)
LEMMA StepKeeps ==
  ASSUME MInv, Cleared \/ Loop \/ \E p \in Procs : Ends(p) PROVE MInv'
<1>1. CASE Kill
  <2>1. Process \in Procs /\ procs[Process].proc = "alive"
    BY <1>1, ProcessInList DEF MInv, Kill, Awaited, Dying
  <2> QED
    BY <1>1, <2>1, DeadKeeps DEF Kill
<1>2. ASSUME NEW p \in Procs, Ends(p) PROVE MInv'
  BY <1>2, DeadKeeps DEF Ends
<1> QED
  BY <1>1, <1>2, ClearedKeeps, PollKeeps, StopUnwantedKeeps, StartWantedKeeps, LeavingKeeps DEF Loop

(* What the invariant says of the overlap.                                  *)
LEMMA WalkIsShort == MInv => OverlapIsShort
BY DEF MInv, Walk, OverlapIsShort

-------------------------------------------------------------------------------
(* The drive: manager, card and pandad.                                      *)

Parameters == [FirmwareQueryDone : BOOLEAN, ControlsReady : BOOLEAN, CarParams : Nat,
               ObdMultiplexingEnabled : BOOLEAN, ObdMultiplexingChanged : BOOLEAN]
Cards == [step : {"boot", "put", "wait", "query", "queried", "car", "run", "running",
                   "passive"},
          obd : BOOLEAN, ready : BOOLEAN]
Pandads == [step : {"idle", "obd", "tell", "fw", "ready", "params"}, drive : Nat,
            initialized : BOOLEAN, configured : BOOLEAN, prev_obd : BOOLEAN,
            mode : {"noOutput", "elm", "elmObd", "car"}, used : Nat, early : BOOLEAN]

ParamsOK == params \in Parameters
CardOK == card \in Cards /\ (card.ready => card.step = "running")
PandadOK == /\ pandad \in Pandads
            /\ pandad.configured \/ pandad.prev_obd \/ pandad.step # "idle" => pandad.initialized
OthersOK == ignition \in BOOLEAN /\ pandaStates \in BOOLEAN /\ faults \in Nat

(* A drive that manager has not seen begin has a higher number.             *)
Behindhand == /\ manager.drive <= deviceState.drive
              /\ deviceState.started /\ ~manager.started => manager.drive < deviceState.drive

(* From the clear on, CarParams can only be of the drive that manager is in.  *)
Clearing == manager.started /\ At("clear")
CarParamsOfDrive == ~Clearing => params.CarParams \in {0, manager.drive}

(* manager has begun, and cleared, the drive of pandad, or a later one.      *)
Begun == manager.drive > pandad.drive \/ (manager.drive = pandad.drive /\ ~Clearing)
ReadsBegun == pandad.step \in {"ready", "params"} /\ ~pandad.early => Begun
UsedBegun == pandad.mode = "car" /\ ~pandad.early
             => Begun /\ (manager.drive = pandad.drive => pandad.used = pandad.drive)

OInv == /\ MInv /\ ParamsOK /\ CardOK /\ PandadOK /\ OthersOK
        /\ Behindhand /\ CarParamsOfDrive /\ ReadsBegun /\ UsedBegun

-----------------------------------------------------------------------------
LEMMA OnroadStarts == Init => OInv
<1> SUFFICES ASSUME Init PROVE OInv
    OBVIOUS
<1>1. MInv
  BY InitKeeps DEF Init
<1>2. ParamsOK /\ CardOK /\ PandadOK /\ OthersOK
  BY DEF Init, NoParams, Boot, Fresh, ParamsOK, CardOK, PandadOK, OthersOK, Parameters, Cards, Pandads
<1>3. manager.drive = 0 /\ deviceState.drive = 0 /\ ~deviceState.started /\ ~manager.started
  BY DEF Init, ManagerInit
<1>4. Behindhand /\ CarParamsOfDrive /\ ReadsBegun /\ UsedBegun
  BY <1>3 DEF Init, NoParams, Fresh, Behindhand, CarParamsOfDrive, ReadsBegun, UsedBegun
<1> QED
  BY <1>1, <1>2, <1>4 DEF OInv

(* A step of the environment.                                               *)
LEMMA WorldKeeps ==
  ASSUME OInv, Ignition \/ HardwaredStarts \/ HardwaredStops PROVE OInv'
<1>1. /\ UNCHANGED <<manager, procs, exit, pandaStates, params, card, pandad, faults>>
      /\ ignition' \in BOOLEAN
  BY DEF Ignition, HardwaredStarts, HardwaredStops, managerVars, OInv, OthersOK
<1>2. /\ deviceState.drive \in Nat /\ manager.drive \in Nat
      /\ deviceState \in [started : BOOLEAN, drive : Nat]
  BY DEF OInv, MInv, ManagerTypeOK
<1>3. deviceState' \in [started : BOOLEAN, drive : Nat] /\ Behindhand'
  <2>1. CASE Ignition
    BY <1>1, <1>2, <2>1 DEF Ignition, managerVars, OInv, Behindhand
  <2>2. CASE HardwaredStarts
    <3>1. deviceState' = [started |-> TRUE, drive |-> deviceState.drive + 1]
      BY <2>2 DEF HardwaredStarts
    <3> QED
      BY <1>1, <1>2, <3>1 DEF OInv, Behindhand
  <2>3. CASE HardwaredStops
    BY <1>1, <1>2, <2>3 DEF HardwaredStops, OInv, Behindhand
  <2> QED
    BY <2>1, <2>2, <2>3
<1>4. MInv'
  BY <1>1, <1>3, SendKeeps DEF OInv, MInv, ManagerTypeOK
<1>5. ParamsOK' /\ CardOK' /\ PandadOK' /\ OthersOK' /\ CarParamsOfDrive' /\ ReadsBegun' /\ UsedBegun'
  BY <1>1 DEF OInv, ParamsOK, CardOK, PandadOK, OthersOK, CarParamsOfDrive, ReadsBegun, UsedBegun,
              Begun, Clearing, At
<1> QED
  BY <1>3, <1>4, <1>5 DEF OInv

LEMMA ClearKeeps ==
  ASSUME OInv, Clear PROVE OInv'
<1>1. /\ Cleared /\ UNCHANGED <<deviceState, procs, ignition, pandaStates, card, pandad, faults>>
      /\ At("clear") /\ manager' = [manager EXCEPT !.at = "stop"]
      /\ params' = IF manager.started THEN NoParams ELSE params
  BY DEF Clear, Cleared
<1>2. MInv'
  BY <1>1, StepKeeps DEF OInv
<1>3. /\ manager'.drive = manager.drive /\ manager'.started = manager.started
      /\ manager'.at = "stop" /\ manager.at = "clear"
  BY <1>1 DEF OInv, MInv, ManagerTypeOK, At
<1>4. NoParams \in Parameters /\ NoParams.CarParams = 0
  BY DEF NoParams, Parameters
<1>5. ParamsOK' /\ CarParamsOfDrive'
  BY <1>1, <1>3, <1>4 DEF OInv, ParamsOK, CarParamsOfDrive, Clearing, At
<1>6. CardOK' /\ PandadOK' /\ OthersOK' /\ Behindhand'
  BY <1>1, <1>3 DEF OInv, CardOK, PandadOK, OthersOK, Behindhand
<1>7. Begun => Begun'
  BY <1>1, <1>3 DEF Begun, Clearing, At
<1>8. ReadsBegun' /\ UsedBegun'
  BY <1>1, <1>3, <1>7 DEF OInv, ReadsBegun, UsedBegun
<1> QED
  BY <1>2, <1>5, <1>6, <1>8 DEF OInv

(* manager's loop begins a drive in Poll only, and then one it had not seen. *)
LEMMA LoopMoves ==
  ASSUME MInv, Behindhand, Loop
  PROVE  /\ deviceState' = deviceState
         /\ \/ /\ manager'.drive = manager.drive
               /\ manager'.at = "clear" => ~manager'.started
               /\ manager'.started = manager.started \/ ~manager'.started
               /\ deviceState.started /\ ~manager'.started => ~manager.started
            \/ manager'.drive > manager.drive /\ manager'.started
               /\ manager'.drive = deviceState.drive /\ manager'.at = "clear"
<1>1. ManagerTypeOK
  BY DEF MInv
<1>2. CASE Poll
  <2>1. PICK begins \in BOOLEAN, again \in BOOLEAN :
          /\ begins = (deviceState.started /\ ~manager.started)
          /\ again = (deviceState.started = manager.started)
          /\ manager' = [at |-> IF again THEN "stop" ELSE "clear", place |-> 1,
                         started |-> deviceState.started, again |-> again,
                         drive |-> IF begins THEN deviceState.drive ELSE manager.drive]
          /\ deviceState' = deviceState
    BY <1>1, <1>2 DEF Poll, ManagerTypeOK
  <2>2. CASE begins
    BY <1>1, <2>1, <2>2 DEF Behindhand, ManagerTypeOK
  <2>3. CASE ~begins
    BY <1>1, <2>1, <2>3 DEF ManagerTypeOK
  <2> QED
    BY <2>2, <2>3
<1>3. CASE StopUnwanted \/ StartWanted \/ CleanUp \/ Join
  <2>1. PICK then \in {"start", "sent", "join", "off"} :
          Advance(then) /\ deviceState' = deviceState /\ ~At("clear")
    BY <1>3 DEF StopUnwanted, StartWanted, CleanUp, Join, At
  <2> QED
    BY <1>1, <2>1, WalkGoesOn DEF At
<1>4. CASE Kill \/ EndRound
  BY <1>1, <1>4 DEF Kill, EndRound, Awaited, At, ManagerTypeOK
<1> QED
  BY <1>2, <1>3, <1>4 DEF Loop

LEMMA ManagerStepKeeps ==
  ASSUME OInv, ManagerStep PROVE OInv'
<1>1. /\ MInv' /\ Loop
      /\ UNCHANGED <<ignition, pandaStates, params, pandad, faults>>
      /\ card' \in {Boot, card}
  BY StepKeeps DEF OInv, ManagerStep
<1>2. ManagerTypeOK /\ ManagerTypeOK' /\ pandad.drive \in Nat /\ params.CarParams \in Nat
  BY <1>1 DEF OInv, MInv, PandadOK, Pandads, ParamsOK, Parameters
<1>3. /\ manager.drive \in Nat /\ manager'.drive \in Nat /\ deviceState.drive \in Nat
  BY <1>2 DEF ManagerTypeOK
<1>4. ParamsOK' /\ CardOK' /\ PandadOK' /\ OthersOK'
  <2>1. Boot \in Cards /\ ~Boot.ready
    BY DEF Boot, Cards
  <2>2. CardOK'
    BY <1>1, <2>1 DEF OInv, CardOK
  <2> QED
    BY <1>1, <2>2 DEF OInv, ParamsOK, PandadOK, OthersOK
<1>5. CASE manager'.drive = manager.drive
  <2>1. deviceState' = deviceState /\ ~Clearing'
        /\ (deviceState.started /\ ~manager'.started => ~manager.started)
    BY <1>1, <1>3, <1>5, LoopMoves DEF OInv, Clearing, At
  <2>2. Behindhand'
    BY <1>5, <2>1 DEF OInv, Behindhand
  <2>3. ~Clearing
    BY <1>1 DEF Clearing, At, Loop, Poll, StopUnwanted, StartWanted, Kill, Awaited, EndRound, CleanUp, Join
  <2>4. CarParamsOfDrive'
    BY <1>1, <1>5, <2>3 DEF OInv, CarParamsOfDrive
  <2>5. Begun => Begun'
    BY <1>1, <1>5, <2>1 DEF Begun
  <2> QED
    BY <1>1, <1>4, <1>5, <2>2, <2>4, <2>5 DEF OInv, ReadsBegun, UsedBegun
<1>6. CASE manager'.drive # manager.drive
  <2>1. /\ deviceState' = deviceState /\ manager'.drive > manager.drive /\ manager'.started
        /\ manager'.drive = deviceState.drive /\ manager'.at = "clear"
    BY <1>1, <1>6, LoopMoves DEF OInv
  <2>2. Behindhand' /\ CarParamsOfDrive'
    BY <1>3, <2>1 DEF Behindhand, CarParamsOfDrive, Clearing, At
  <2>3. Begun => manager'.drive > pandad.drive
    BY <1>2, <1>3, <2>1 DEF Begun
  <2>4. ReadsBegun' /\ UsedBegun'
    BY <1>1, <1>2, <1>3, <2>3 DEF OInv, ReadsBegun, UsedBegun, Begun
  <2> QED
    BY <1>1, <1>4, <2>2, <2>4 DEF OInv
<1> QED
  BY <1>5, <1>6

LEMMA EndsKeeps ==
  ASSUME OInv, ProcessEnds \/ CardCrashes PROVE OInv'
<1>1. /\ \E p \in Procs : Ends(p)
      /\ UNCHANGED <<deviceState, manager, exit, ignition, pandaStates, params, card, pandad>>
      /\ faults' \in Nat
  BY OnroadConstants DEF ProcessEnds, CardCrashes, Ends, OInv, OthersOK
<1>2. MInv'
  BY <1>1, StepKeeps DEF OInv
<1>3. ParamsOK' /\ CardOK' /\ PandadOK' /\ OthersOK' /\ Behindhand' /\ CarParamsOfDrive'
      /\ ReadsBegun' /\ UsedBegun'
  BY <1>1 DEF OInv, ParamsOK, CardOK, PandadOK, OthersOK, Behindhand, CarParamsOfDrive, ReadsBegun,
              UsedBegun, Begun, Clearing, At
<1> QED
  BY <1>2, <1>3 DEF OInv

-----------------------------------------------------------------------------
(* card writes CarParams while it runs, and then it is of this drive.        *)
LEMMA CardKeeps ==
  ASSUME OInv, Card PROVE OInv'
<1>1. UNCHANGED <<deviceState, manager, procs, exit, ignition, pandaStates, pandad, faults>>
  BY DEF Card, CardOnly, managerVars, AskObd, PutObd, ObdChanged, Query, QueryDone, PutCarParams,
         ControlsUpdate, ReadyLands
<1>2. MInv'
  BY <1>1, SendKeeps DEF OInv, MInv, ManagerTypeOK
<1>3. PandadOK' /\ OthersOK' /\ Behindhand' /\ ReadsBegun' /\ UsedBegun'
  BY <1>1 DEF OInv, PandadOK, OthersOK, Behindhand, ReadsBegun, UsedBegun, Begun, Clearing, At
<1>4. params \in Parameters /\ card \in Cards /\ (card.ready => card.step = "running")
  BY DEF OInv, ParamsOK, CardOK
<1>5. CardOK'
  <2>1. CASE \E step \in {"boot", "put", "wait", "query", "queried", "car", "run", "passive"} :
               CardGoes(step) /\ ~card.ready
    BY <1>4, <2>1 DEF CardOK, CardGoes, Cards
  <2>2. CASE Query
    BY <1>4, <2>2 DEF Query, CardAt, CardOK, Cards
  <2>3. CASE ControlsUpdate \/ ReadyLands
    BY <1>4, <2>3 DEF ControlsUpdate, ReadyLands, CardOK, Cards
  <2>4. CASE AskObd
    BY <1>4, <2>1, <2>4 DEF AskObd, CardAt, Answered
  <2>5. CASE ObdChanged
    BY <1>4, <2>1, <2>5 DEF ObdChanged, CardAt, Answered
  <2>6. CASE PutObd \/ QueryDone \/ PutCarParams
    BY <1>4, <2>1, <2>6 DEF PutObd, QueryDone, PutCarParams, CardAt
  <2> QED
    BY <2>2, <2>3, <2>4, <2>5, <2>6 DEF Card
<1>6. ParamsOK' /\ params'.CarParams \in {params.CarParams, manager.drive}
  <2>1. CASE PutCarParams
    <3>1. /\ Running("card") /\ "card" \in Procs \ Offroad
          /\ params' = [params EXCEPT !["CarParams"] = procs["card"].drive]
      BY <2>1, OnroadConstants DEF PutCarParams, CardAt, CardAlive, Running, Put
    <3>2. procs["card"].drive = manager.drive /\ manager.drive \in Nat
      BY <3>1 DEF OInv, MInv, OfThisDrive, ManagerTypeOK
    <3> QED
      BY <1>4, <3>1, <3>2 DEF ParamsOK, Parameters
  <2>2. CASE \E key \in {"FirmwareQueryDone", "ControlsReady", "ObdMultiplexingEnabled",
                         "ObdMultiplexingChanged"}, value \in BOOLEAN : Put(key, value)
    BY <1>4, <2>2 DEF Put, ParamsOK, Parameters
  <2>3. CASE params' = params
    BY <1>4, <2>3 DEF ParamsOK
  <2>4. CASE AskObd
    BY <2>2, <2>3, <2>4 DEF AskObd
  <2>5. CASE PutObd
    <3>1. card.obd \in BOOLEAN
      BY <1>4 DEF Cards
    <3> QED
      BY <2>2, <2>5, <3>1 DEF PutObd
  <2>6. CASE QueryDone \/ ReadyLands
    BY <2>2, <2>6 DEF QueryDone, ReadyLands
  <2> QED
    BY <2>1, <2>3, <2>4, <2>5, <2>6 DEF Card, ObdChanged, Query, ControlsUpdate
<1>7. CarParamsOfDrive'
  BY <1>1, <1>6 DEF OInv, CarParamsOfDrive, Clearing, At
<1> QED
  BY <1>2, <1>3, <1>5, <1>6, <1>7 DEF OInv

(* pandad: what it leaves alone, and a lemma for its record.                *)
LEMMA PandadRest ==
  ASSUME OInv, Pandad \/ PandadCrashes
  PROVE  /\ MInv' /\ CardOK' /\ OthersOK' /\ Behindhand'
         /\ UNCHANGED <<manager, ignition>>
         /\ ParamsOK' /\ CarParamsOfDrive'
<1>1. UNCHANGED <<deviceState, manager, procs, exit, ignition, card>>
  BY DEF Pandad, PandadCrashes, PandadOnly, managerVars, Look, Multiplex, TellChanged, ReadDone,
         ReadReady, SetSafetyMode
<1>2. MInv'
  BY <1>1, SendKeeps DEF OInv, MInv, ManagerTypeOK
<1>3. CardOK' /\ Behindhand'
  BY <1>1 DEF OInv, CardOK, Behindhand
<1>4. OthersOK'
  <2>1. pandaStates' \in {ignition, pandaStates}
    BY DEF Pandad, PandadCrashes, Look, Multiplex, TellChanged, ReadDone, ReadReady, SetSafetyMode
  <2>2. faults' \in {faults, faults + 1}
    BY DEF Pandad, PandadCrashes, Look, Multiplex, TellChanged, ReadDone, ReadReady, SetSafetyMode
  <2> QED
    BY <1>1, <2>1, <2>2 DEF OInv, OthersOK
<1>5. ParamsOK' /\ params'.CarParams = params.CarParams
  <2>1. CASE TellChanged
    BY <2>1 DEF TellChanged, Put, OInv, ParamsOK, Parameters
  <2>2. CASE ~TellChanged
    BY <2>2 DEF OInv, ParamsOK, Pandad, PandadCrashes, Look, Multiplex, ReadDone, ReadReady, SetSafetyMode
  <2> QED
    BY <2>1, <2>2
<1>6. CarParamsOfDrive'
  BY <1>1, <1>5 DEF OInv, CarParamsOfDrive, Clearing, At
<1> QED
  BY <1>1, <1>2, <1>3, <1>4, <1>5, <1>6

LEMMA FreshKeeps ==
  ASSUME pandad' = Fresh PROVE PandadOK' /\ ReadsBegun' /\ UsedBegun'
BY DEF Fresh, PandadOK, Pandads, ReadsBegun, UsedBegun

(* A pass begins: what was set up stays, or the drive is the one that is on.  *)
LEMMA LookKeeps ==
  ASSUME OInv, Look PROVE PandadOK' /\ ReadsBegun' /\ UsedBegun'
<1>1. pandad \in Pandads /\ manager' = manager /\ ignition \in BOOLEAN
      /\ deviceState \in [started : BOOLEAN, drive : Nat]
  BY PandadRest DEF OInv, PandadOK, OthersOK, MInv, ManagerTypeOK, Pandad
<1>2. Relay \in {pandad.mode, "noOutput"}
  BY DEF Relay
<1>3. PICK relay \in {pandad.mode, "noOutput"} : relay = Relay
  BY <1>2
<1>4. CASE ~deviceState.started
  BY <1>4, FreshKeeps DEF Look
<1>5. CASE deviceState.started /\ pandad.configured
  <2>1. pandad' = [pandad EXCEPT !.mode = relay] /\ PandadAt("idle")
    BY <1>3, <1>5 DEF Look
  <2>2. PandadOK' /\ pandad'.step = "idle"
    BY <1>1, <2>1 DEF OInv, PandadOK, Pandads, PandadAt
  <2>3. /\ pandad'.drive = pandad.drive /\ pandad'.early = pandad.early /\ pandad'.used = pandad.used
        /\ pandad'.mode = "car" => pandad.mode = "car"
    BY <1>1, <2>1 DEF Pandads
  <2>4. UsedBegun'
    BY <1>1, <2>3 DEF OInv, UsedBegun, Begun, Clearing, At
  <2> QED
    BY <2>2, <2>4 DEF ReadsBegun
<1>6. CASE deviceState.started /\ ~pandad.configured /\ pandad.initialized
  <2>1. pandad' = [pandad EXCEPT !.step = "obd", !.initialized = TRUE, !.drive = pandad.drive, !.mode = relay,
                                 !.prev_obd = TRUE /\ pandad.prev_obd, !.early = TRUE /\ pandad.early]
    BY <1>3, <1>6 DEF Look, Pandads
  <2>2. (TRUE /\ pandad.prev_obd) = pandad.prev_obd /\ (TRUE /\ pandad.early) = pandad.early
    BY <1>1 DEF Pandads
  <2>3. pandad' = [pandad EXCEPT !.step = "obd", !.initialized = TRUE, !.mode = relay]
    BY <1>1, <2>1, <2>2 DEF Pandads
  <2>4. PandadOK' /\ pandad'.step = "obd"
    BY <1>1, <2>3 DEF PandadOK, Pandads
  <2>5. /\ pandad'.drive = pandad.drive /\ pandad'.early = pandad.early /\ pandad'.used = pandad.used
        /\ pandad'.mode = "car" => pandad.mode = "car"
    BY <1>1, <2>3 DEF Pandads
  <2>6. UsedBegun'
    BY <1>1, <2>5 DEF OInv, UsedBegun, Begun, Clearing, At
  <2> QED
    BY <2>4, <2>6 DEF ReadsBegun
<1>7. CASE deviceState.started /\ ~pandad.configured /\ ~pandad.initialized
  <2>1. pandad' = [pandad EXCEPT !.step = "obd", !.initialized = TRUE, !.drive = deviceState.drive, !.mode = "elm",
                                 !.prev_obd = FALSE, !.early = FALSE]
    BY <1>7 DEF Look
  <2>2. PandadOK' /\ pandad'.step = "obd" /\ pandad'.mode = "elm"
    BY <1>1, <2>1 DEF PandadOK, Pandads
  <2> QED
    BY <2>2 DEF ReadsBegun, UsedBegun
<1> QED
  BY <1>4, <1>5, <1>6, <1>7

LEMMA PassKeeps ==
  ASSUME OInv, Multiplex \/ TellChanged \/ ReadReady PROVE PandadOK' /\ ReadsBegun' /\ UsedBegun'
<1>1. pandad \in Pandads /\ manager' = manager /\ params \in Parameters
      /\ (pandad.configured \/ pandad.prev_obd \/ pandad.step # "idle" => pandad.initialized)
  BY PandadRest DEF OInv, PandadOK, Pandad, ParamsOK
<1>2. CASE TellChanged
  <2>1. pandad' = [pandad EXCEPT !.step = "fw"] /\ pandad.step = "tell"
    BY <1>2 DEF TellChanged, PandadAt
  <2> QED
    BY <1>1, <2>1 DEF OInv, PandadOK, Pandads, ReadsBegun, UsedBegun, Begun, Clearing, At
<1>3. CASE ReadReady
  <2>1. PICK step \in {"params", "idle"} : pandad' = [pandad EXCEPT !.step = step] /\ pandad.step = "ready"
    BY <1>3 DEF ReadReady, PandadAt
  <2> QED
    BY <1>1, <2>1 DEF OInv, PandadOK, Pandads, ReadsBegun, UsedBegun, Begun, Clearing, At
<1>4. CASE Multiplex
  <2>1. CASE params.ObdMultiplexingEnabled = pandad.prev_obd
    <3>1. pandad' = [pandad EXCEPT !.step = "fw"] /\ pandad.step = "obd"
      BY <1>4, <2>1 DEF Multiplex, PandadAt
    <3> QED
      BY <1>1, <3>1 DEF OInv, PandadOK, Pandads, ReadsBegun, UsedBegun, Begun, Clearing, At
  <2>2. CASE params.ObdMultiplexingEnabled # pandad.prev_obd
    <3>1. PICK obd \in BOOLEAN, early \in BOOLEAN, mode \in {"elm", "elmObd"} :
            /\ pandad' = [pandad EXCEPT !.step = "tell", !.prev_obd = obd, !.early = early, !.mode = mode]
            /\ pandad.step = "obd"
      <4>1. (~pandad.prev_obd) \in BOOLEAN /\ (pandad.early \/ (Behind /\ ~pandad.prev_obd)) \in BOOLEAN
        OBVIOUS
      <4>2. (IF pandad.prev_obd THEN "elm" ELSE "elmObd") \in {"elm", "elmObd"}
        OBVIOUS
      <4>3. pandad' = [pandad EXCEPT !.step = "tell", !.prev_obd = ~pandad.prev_obd,
                                     !.early = pandad.early \/ (Behind /\ ~pandad.prev_obd),
                                     !.mode = IF pandad.prev_obd THEN "elm" ELSE "elmObd"]
            /\ pandad.step = "obd"
        BY <1>4, <2>2, Zenon DEF Multiplex, PandadAt
      <4> QED
        BY <4>1, <4>2, <4>3, Zenon
    <3>2. PandadOK' /\ pandad'.step = "tell" /\ pandad'.mode # "car"
      BY <1>1, <3>1 DEF PandadOK, Pandads
    <3> QED
      BY <3>2 DEF ReadsBegun, UsedBegun
  <2> QED
    BY <2>1, <2>2
<1> QED
  BY <1>2, <1>3, <1>4

(* Not early: manager has begun the drive when FirmwareQueryDone is read.    *)
LEMMA ReadDoneKeeps ==
  ASSUME OInv, ReadDone PROVE PandadOK' /\ ReadsBegun' /\ UsedBegun'
<1>1. pandad \in Pandads /\ manager' = manager /\ params \in Parameters
      /\ (pandad.configured \/ pandad.prev_obd \/ pandad.step # "idle" => pandad.initialized)
  BY PandadRest DEF OInv, PandadOK, Pandad, ParamsOK
<1>2. PICK step \in {"ready", "idle"}, early \in BOOLEAN :
        /\ pandad' = [pandad EXCEPT !.step = step, !.early = early] /\ pandad.step = "fw"
        /\ step = "ready" => params.FirmwareQueryDone
        /\ early <=> pandad.early \/ (Behind /\ params.FirmwareQueryDone)
  <2>1. (pandad.early \/ (Behind /\ params.FirmwareQueryDone)) \in BOOLEAN
    OBVIOUS
  <2>2. PICK early \in BOOLEAN : early = (pandad.early \/ (Behind /\ params.FirmwareQueryDone))
    BY <2>1, Zenon
  <2>3. PICK step \in {"ready", "idle"} : step = IF params.FirmwareQueryDone THEN "ready" ELSE "idle"
    OBVIOUS
  <2>4. pandad' = [pandad EXCEPT !.step = step, !.early = early] /\ pandad.step = "fw"
    BY <2>2, <2>3, Zenon DEF ReadDone, PandadAt
  <2> QED
    BY <2>2, <2>3, <2>4
<1>3. /\ pandad' \in Pandads /\ pandad'.step = step /\ pandad'.early = early
      /\ pandad'.drive = pandad.drive /\ pandad'.used = pandad.used /\ pandad'.mode = pandad.mode
      /\ pandad'.initialized
  BY <1>1, <1>2 DEF Pandads
<1>4. PandadOK'
  BY <1>3 DEF PandadOK
<1>5. UsedBegun'
  BY <1>1, <1>2, <1>3 DEF OInv, UsedBegun, Begun, Clearing, At
<1>6. ~Behind => Begun
  BY DEF Behind, Begun, Clearing, At
<1>7. ReadsBegun'
  <2> SUFFICES ASSUME step = "ready", ~early PROVE Begun'
      BY <1>2, <1>3 DEF ReadsBegun
  <2>1. Begun
    BY <1>2, <1>6
  <2> QED
    BY <1>1, <1>3, <2>1 DEF Begun, Clearing, At
<1> QED
  BY <1>4, <1>5, <1>7

LEMMA SetSafetyModeKeeps ==
  ASSUME OInv, SetSafetyMode PROVE PandadOK' /\ ReadsBegun' /\ UsedBegun'
<1>1. pandad \in Pandads /\ manager' = manager /\ params \in Parameters /\ pandad.step = "params"
      /\ pandad.initialized
  BY PandadRest DEF OInv, PandadOK, Pandad, ParamsOK, SetSafetyMode, PandadAt
<1>2. CASE params.CarParams = 0
  BY <1>2, FreshKeeps DEF SetSafetyMode
<1>3. CASE params.CarParams # 0
  <2>1. pandad' = [pandad EXCEPT !.step = "idle", !.configured = TRUE, !.mode = "car", !.used = params.CarParams]
    BY <1>3 DEF SetSafetyMode
  <2>2. /\ pandad' \in Pandads /\ pandad'.step = "idle" /\ pandad'.initialized
        /\ pandad'.early = pandad.early /\ pandad'.drive = pandad.drive
        /\ pandad'.used = params.CarParams
    BY <1>1, <2>1 DEF Pandads, Parameters
  <2>3. ~pandad.early => Begun
    BY <1>1 DEF OInv, ReadsBegun
  <2>4. ~pandad.early /\ manager.drive = pandad.drive => params.CarParams = manager.drive
    <3>1. manager.drive \in Nat /\ pandad.drive \in Nat
      BY <1>1 DEF OInv, MInv, ManagerTypeOK, Pandads
    <3> QED
      BY <1>3, <2>3, <3>1 DEF Begun, OInv, CarParamsOfDrive
  <2> QED
    BY <1>1, <2>2, <2>3, <2>4 DEF PandadOK, ReadsBegun, UsedBegun, Begun, Clearing, At
<1> QED
  BY <1>2, <1>3

LEMMA PandadKeeps ==
  ASSUME OInv, Pandad \/ PandadCrashes PROVE OInv'
<1>1. PandadOK' /\ ReadsBegun' /\ UsedBegun'
  BY FreshKeeps, LookKeeps, PassKeeps, ReadDoneKeeps, SetSafetyModeKeeps DEF Pandad, PandadCrashes
<1> QED
  BY <1>1, PandadRest DEF OInv

-----------------------------------------------------------------------------
LEMMA OnroadKeeps == Spec => []OInv
<1>1. Init => OInv
  BY OnroadStarts
<1>2. OInv /\ [Next]_vars => OInv'
  <2> SUFFICES ASSUME OInv, [Next]_vars PROVE OInv'
      OBVIOUS
  <2>1. CASE UNCHANGED vars
    <3>1. UNCHANGED <<deviceState, manager, procs, exit, ignition, pandaStates, params, card, pandad, faults>>
      BY <2>1 DEF vars, managerVars
    <3>2. MInv'
      BY <3>1, SendKeeps DEF OInv, MInv, ManagerTypeOK
    <3> QED
      BY <3>1, <3>2 DEF OInv, ParamsOK, CardOK, PandadOK, OthersOK, Behindhand, CarParamsOfDrive, ReadsBegun,
                        UsedBegun, Begun, Clearing, At
  <2> QED
    BY <2>1, WorldKeeps, ClearKeeps, ManagerStepKeeps, EndsKeeps, CardKeeps, PandadKeeps DEF Next
<1> QED
  BY <1>1, <1>2, PTL DEF Spec

(* Types; a pass of pandad is only under way once it is set up.              *)
THEOREM OnroadTypeCorrect == Spec => []TypeOK
<1>1. OInv => TypeOK
  BY DEF OInv, MInv, ParamsOK, CardOK, PandadOK, OthersOK, Parameters, Cards, Pandads, TypeOK
<1> QED
  BY <1>1, OnroadKeeps, PTL

(* No process of the drive before passes for one of this drive, for any list *)
(* of processes (process.py:81-111, 149-164).                               *)
THEOREM ProcessesAreOfThisDrive == Spec => []OfThisDrive
<1>1. OInv => OfThisDrive
  BY DEF OInv, MInv
<1> QED
  BY <1>1, OnroadKeeps, PTL

(* The panda has the safety mode of this drive's CarParams, for any number   *)
(* of drives and crashes (panda_safety.cc:42-56, manager.py:143).           *)
THEOREM SafetyIsOfThisDrive == Spec => []SafetyOfThisDrive
<1>1. OInv => SafetyOfThisDrive
  <2> SUFFICES ASSUME OInv, pandad.mode = "car", ~pandad.early, InStep PROVE pandad.used = manager.drive
      BY DEF SafetyOfThisDrive
  <2> QED
    BY DEF OInv, UsedBegun, InStep
<1> QED
  BY <1>1, OnroadKeeps, PTL

-----------------------------------------------------------------------------
(* Once a pandad has set the mode of the car it makes no more passes, until  *)
(* it hears that the drive has ended, or dies.                              *)
DoneOnce == /\ pandad.configured => pandad.step = "idle"
            /\ pandad.mode = "car" => pandad.configured

StaysDone == /\ pandad'.configured /\ pandad'.used = pandad.used
             /\ pandad'.mode \in {pandad.mode, "noOutput"}

LEMMA LookStaysDone ==
  ASSUME OInv, DoneOnce, Look
  PROVE  DoneOnce' /\ (pandad.configured => pandad' = Fresh \/ StaysDone)
<1>1. pandad \in Pandads /\ PandadAt("idle")
  BY DEF OInv, PandadOK, Look
<1>2. PICK relay \in {pandad.mode, "noOutput"} : relay = Relay
  BY DEF Relay
<1>3. CASE ~deviceState.started
  BY <1>3 DEF Look, Fresh, DoneOnce
<1>4. CASE deviceState.started /\ pandad.configured
  <2>1. pandad' = [pandad EXCEPT !.mode = relay]
    BY <1>2, <1>4 DEF Look
  <2> QED
    BY <1>1, <1>2, <1>4, <2>1 DEF DoneOnce, StaysDone, Pandads, PandadAt
<1>5. CASE deviceState.started /\ ~pandad.configured
  <2>1. PICK drive, mode, prev, early :
          /\ pandad' = [pandad EXCEPT !.step = "obd", !.initialized = TRUE, !.drive = drive,
                                      !.mode = mode, !.prev_obd = prev, !.early = early]
          /\ mode = IF pandad.initialized THEN relay ELSE "elm"
    BY <1>2, <1>5 DEF Look
  <2>2. ~pandad'.configured /\ pandad'.mode = mode
    BY <1>1, <1>5, <2>1 DEF Pandads
  <2>3. mode # "car"
    BY <1>2, <1>5, <2>1 DEF DoneOnce
  <2> QED
    BY <1>5, <2>2, <2>3 DEF DoneOnce
<1> QED
  BY <1>3, <1>4, <1>5

LEMMA PassStaysDone ==
  ASSUME OInv, DoneOnce, Multiplex \/ TellChanged \/ ReadDone \/ ReadReady \/ SetSafetyMode
  PROVE  DoneOnce' /\ ~pandad.configured
<1>1. pandad \in Pandads /\ ~pandad.configured /\ pandad.mode # "car"
  BY DEF OInv, PandadOK, DoneOnce, Multiplex, TellChanged, ReadDone, ReadReady, SetSafetyMode, PandadAt
<1>2. CASE Multiplex
  <2>1. CASE params.ObdMultiplexingEnabled = pandad.prev_obd
    <3>1. pandad' = [pandad EXCEPT !.step = "fw"]
      BY <1>2, <2>1 DEF Multiplex
    <3> QED
      BY <1>1, <3>1 DEF DoneOnce, Pandads
  <2>2. CASE params.ObdMultiplexingEnabled # pandad.prev_obd
    <3>1. PICK mode \in {"elm", "elmObd"} : mode = IF pandad.prev_obd THEN "elm" ELSE "elmObd"
      OBVIOUS
    <3>2. PICK prev, early :
            pandad' = [pandad EXCEPT !.step = "tell", !.prev_obd = prev, !.early = early, !.mode = mode]
      BY <1>2, <2>2, <3>1 DEF Multiplex
    <3>3. pandad'.mode = mode /\ pandad'.configured = pandad.configured
      BY <1>1, <3>2 DEF Pandads
    <3> QED
      BY <1>1, <3>3 DEF DoneOnce
  <2> QED
    BY <2>1, <2>2
<1>3. CASE TellChanged \/ ReadReady
  <2>1. PICK step : pandad' = [pandad EXCEPT !.step = step]
    BY <1>3 DEF TellChanged, ReadReady
  <2> QED
    BY <1>1, <2>1 DEF DoneOnce, Pandads
<1>4. CASE ReadDone
  <2>1. PICK step, early : pandad' = [pandad EXCEPT !.step = step, !.early = early]
    BY <1>4 DEF ReadDone
  <2>2. pandad'.mode = pandad.mode /\ pandad'.configured = pandad.configured
    BY <1>1, <2>1 DEF Pandads
  <2> QED
    BY <1>1, <2>2 DEF DoneOnce
<1>5. CASE SetSafetyMode
  <2>1. CASE params.CarParams = 0
    <3>1. pandad' = Fresh
      BY <1>5, <2>1, Zenon DEF SetSafetyMode
    <3> QED
      BY <1>1, <3>1 DEF Fresh, DoneOnce
  <2>2. CASE params.CarParams # 0
    <3>1. pandad' = [pandad EXCEPT !.step = "idle", !.configured = TRUE, !.mode = "car",
                                   !.used = params.CarParams]
      BY <1>5, <2>2 DEF SetSafetyMode
    <3> QED
      BY <1>1, <3>1 DEF DoneOnce, Pandads
  <2> QED
    BY <2>1, <2>2
<1> QED
  BY <1>1, <1>2, <1>3, <1>4, <1>5

LEMMA StepStaysDone ==
  ASSUME OInv, DoneOnce, [Next]_vars
  PROVE  DoneOnce' /\ (pandad.configured => pandad' = Fresh \/ StaysDone)
<1>1. CASE Pandad
  BY <1>1, LookStaysDone, PassStaysDone DEF Pandad
<1>2. CASE PandadCrashes
  BY <1>2 DEF PandadCrashes, Fresh, DoneOnce
<1>3. CASE ~(Pandad \/ PandadCrashes)
  <2>1. pandad' = pandad
    BY <1>3 DEF Next, Ignition, HardwaredStarts, HardwaredStops, Clear, ManagerStep, ProcessEnds,
                Card, AskObd, PutObd, ObdChanged, Query, QueryDone, PutCarParams, ControlsUpdate,
                ReadyLands, CardOnly, CardCrashes, vars
  <2> QED
    BY <2>1 DEF DoneOnce, StaysDone
<1> QED
  BY <1>1, <1>2, <1>3

(* The mode is set once a drive: a pandad that has it keeps it, with the     *)
(* relay open or closed, whatever is asked of it over the parameters by a    *)
(* card that starts again, until it hears the end of the drive or dies; and *)
(* no other pandad has the mode of a car (panda_safety.cc:5-21).            *)
THEOREM SafetyIsSetOnce ==
  Spec => /\ [](pandad.mode = "car" => pandad.configured)
          /\ [][pandad.configured => pandad' = Fresh \/ StaysDone]_vars
<1>1. Init => DoneOnce
  BY DEF Init, Fresh, DoneOnce
<1>2. OInv /\ DoneOnce /\ [Next]_vars => DoneOnce'
  BY StepStaysDone
<1>3. OInv /\ DoneOnce /\ [Next]_vars => [pandad.configured => pandad' = Fresh \/ StaysDone]_vars
  BY StepStaysDone
<1>4. DoneOnce => (pandad.mode = "car" => pandad.configured)
  BY DEF DoneOnce
<1> QED
  BY <1>1, <1>2, <1>3, <1>4, OnroadKeeps, PTL DEF Spec

-------------------------------------------------------------------------------
(* The query of the firmware.  While a drive is on in manager, cleared and   *)
(* without a crash, card is before the end of its query, or past it.        *)
Live == manager.started /\ ~At("clear") /\ faults = 0
Leaving == At("cleanup") \/ At("join") \/ At("off")
BeforeEnd == IF Running("card") THEN card.obd ELSE ~Leaving
BeforePut == IF Running("card") THEN card.obd /\ card.step \in {"boot", "put"} ELSE ~Leaving

(* What card takes for the answer to its request.                           *)
HasAnswer == Running("card") /\ (\/ card.step = "query"
                                 \/ card.obd /\ card.step \in {"put", "wait"} /\ params.ObdMultiplexingChanged)

(* pandad is set up for the drive of manager; or it cannot be while this     *)
(* drive is on, and will not die of an empty CarParams.                     *)
Sync == pandad.initialized /\ pandad.drive = manager.drive /\ ~pandad.early
Missed == IF pandad.initialized THEN ~Sync /\ pandad.step \notin {"ready", "params"}
          ELSE ~deviceState.started \/ deviceState.drive # manager.drive

(* A pandad that is faster than manager has not touched anything yet.        *)
WaitsForClear == pandad.initialized /\ ~pandad.early /\ ~Begun =>
  /\ ~pandad.prev_obd /\ pandad.step \notin {"tell", "ready", "params"}
  /\ ~pandad.configured /\ pandad.mode # "car"

CardShape == /\ Running("card") => "card" \in Onroad
             /\ card.step = "query" => card.obd
             /\ card.step \in {"queried", "car", "run", "running", "passive"} => ~card.obd

Requested == Live => /\ BeforeEnd => ~params.FirmwareQueryDone
                     /\ BeforeEnd => (params.ObdMultiplexingEnabled <=> ~BeforePut)
Served == Live /\ Sync /\ BeforeEnd =>
  /\ pandad.step \notin {"ready", "params"} /\ ~pandad.configured /\ pandad.mode # "car"
  /\ BeforePut => ~pandad.prev_obd /\ pandad.step # "tell"
  /\ pandad.step = "tell" => pandad.prev_obd
  /\ pandad.prev_obd => pandad.mode \in {"elmObd", "noOutput"}
AnswerIsOwn == Live /\ HasAnswer => (Sync /\ pandad.prev_obd) \/ Missed

ObdInv == WaitsForClear /\ CardShape /\ Requested /\ Served /\ AnswerIsOwn

LEMMA ObdStarts == Init => ObdInv
<1> SUFFICES ASSUME Init PROVE ObdInv
    OBVIOUS
<1>1. /\ ~manager.started /\ ~pandad.initialized /\ card.step = "boot"
  BY DEF Init, ManagerInit, Fresh, Boot
<1>2. ~Running("card")
  BY OnroadConstants DEF Init, ManagerInit, Running, NoProcess
<1> QED
  BY <1>1, <1>2 DEF ObdInv, WaitsForClear, CardShape, Requested, Served, AnswerIsOwn, Live

(* A pandad that is not set up hears the next drive, never this one again.    *)
LEMMA MissedStays ==
  ASSUME OInv, Missed, Ignition \/ HardwaredStarts \/ HardwaredStops PROVE Missed'
<1>1. UNCHANGED <<manager, pandad>>
  BY DEF Ignition, HardwaredStarts, HardwaredStops, managerVars
<1>2. deviceState \in [started : BOOLEAN, drive : Nat] /\ manager.drive \in Nat
      /\ manager.drive <= deviceState.drive
  BY DEF OInv, MInv, ManagerTypeOK, Behindhand
<1>3. CASE Ignition
  BY <1>1, <1>3 DEF Ignition, managerVars, Missed, Sync
<1>4. CASE HardwaredStarts
  BY <1>1, <1>2, <1>4 DEF HardwaredStarts, Missed, Sync
<1>5. CASE HardwaredStops
  BY <1>1, <1>2, <1>5 DEF HardwaredStops, Missed, Sync
<1> QED
  BY <1>3, <1>4, <1>5

LEMMA ObdInTheWorld ==
  ASSUME OInv, ObdInv, Ignition \/ HardwaredStarts \/ HardwaredStops PROVE ObdInv'
<1>1. UNCHANGED <<manager, procs, params, card, pandad, faults>>
  BY DEF Ignition, HardwaredStarts, HardwaredStops, managerVars
<1>2. WaitsForClear' /\ CardShape' /\ Requested' /\ Served'
  BY <1>1 DEF ObdInv, WaitsForClear, CardShape, Requested, Served, Begun, Clearing, At, Running, Live, Sync,
              BeforeEnd, BeforePut, Leaving
<1>3. Missed => Missed'
  BY MissedStays
<1>4. AnswerIsOwn'
  BY <1>1, <1>3 DEF ObdInv, AnswerIsOwn, Live, At, HasAnswer, Running, Sync
<1> QED
  BY <1>2, <1>4 DEF ObdInv

(* The parameters are cleared while no card runs, and only a pandad that has  *)
(* touched nothing is of this drive.                                         *)
LEMMA ObdAtClear ==
  ASSUME OInv, ObdInv, Clear PROVE ObdInv'
<1>1. /\ UNCHANGED <<deviceState, procs, card, pandad, faults>>
      /\ At("clear") /\ manager' = [manager EXCEPT !.at = "stop"]
      /\ params' = IF manager.started THEN NoParams ELSE params
  BY DEF Clear, Cleared
<1>2. /\ manager'.drive = manager.drive /\ manager'.started = manager.started
      /\ manager'.at = "stop" /\ manager.at = "clear"
      /\ manager.drive \in Nat /\ pandad.drive \in Nat
  BY <1>1 DEF OInv, MInv, ManagerTypeOK, At, PandadOK, Pandads
<1>3. Begun => Begun'
  BY <1>1, <1>2 DEF Begun, Clearing, At
<1>4. WaitsForClear' /\ CardShape'
  BY <1>1, <1>3 DEF ObdInv, WaitsForClear, CardShape, Running
<1>5. CASE ~manager.started
  BY <1>2, <1>4, <1>5 DEF ObdInv, Requested, Served, AnswerIsOwn, Live
<1>6. CASE manager.started
  <2>1. ~Running("card") /\ ~Running("card")' /\ params' = NoParams
    BY <1>1, <1>6, OnroadConstants DEF OInv, MInv, Begins, Running
  <2>2. Requested' /\ AnswerIsOwn'
    BY <1>2, <2>1 DEF Requested, AnswerIsOwn, HasAnswer, BeforeEnd, BeforePut, Leaving, At, NoParams
  <2>3. Served'
    <3> SUFFICES ASSUME Sync PROVE Served'
        BY <1>1, <1>2 DEF Served, Sync
    <3>1. ~Begun
      BY <1>2, <1>6 DEF Sync, Begun, Clearing, At
    <3> QED
      BY <1>1, <3>1 DEF ObdInv, WaitsForClear, Sync, Served
  <2> QED
    BY <1>4, <2>2, <2>3 DEF ObdInv
<1> QED
  BY <1>5, <1>6

LEMMA ObdAtEnds ==
  ASSUME OInv, ObdInv, ProcessEnds \/ CardCrashes PROVE ObdInv'
<1>1. UNCHANGED <<deviceState, manager, params, card, pandad>>
  BY DEF ProcessEnds, CardCrashes, Ends
<1>2. Running("card")' => Running("card")
  <2>1. PICK p \in Procs : Ends(p)
    BY OnroadConstants DEF ProcessEnds, CardCrashes
  <2>2. procs' = [procs EXCEPT ![p].proc = "dead"] /\ "card" \in Procs
        /\ procs \in [Procs -> [proc : {"none", "alive", "dead"}, shutting_down : BOOLEAN, drive : Nat]]
    BY <2>1, OnroadConstants DEF Ends, OInv, MInv, ManagerTypeOK
  <2>3. CASE p = "card"
    BY <2>2, <2>3 DEF Running
  <2>4. CASE p # "card"
    BY <2>2, <2>4 DEF Running
  <2> QED
    BY <2>3, <2>4
<1>3. WaitsForClear' /\ CardShape'
  BY <1>1, <1>2 DEF ObdInv, WaitsForClear, CardShape, Begun, Clearing, At
<1>4. CASE ProcessEnds
  <2>1. faults' = faults
    BY <1>4 DEF ProcessEnds
  <2>2. Running("card")' = Running("card")
    <3>1. PICK p \in Procs : procs[p].shutting_down /\ Ends(p)
      BY <1>4 DEF ProcessEnds
    <3>2. procs' = [procs EXCEPT ![p].proc = "dead"] /\ "card" \in Procs
          /\ procs \in [Procs -> [proc : {"none", "alive", "dead"}, shutting_down : BOOLEAN, drive : Nat]]
      BY <3>1, OnroadConstants DEF Ends, OInv, MInv, ManagerTypeOK
    <3> QED
      BY <3>1, <3>2 DEF Running
  <2> QED
    BY <1>1, <1>3, <2>1, <2>2 DEF ObdInv, Requested, Served, AnswerIsOwn, Live, At, Sync, Missed, BeforeEnd, BeforePut,
                          Leaving, HasAnswer
<1>5. CASE CardCrashes
  <2>1. faults' # 0
    BY <1>5 DEF CardCrashes, OInv, OthersOK
  <2> QED
    BY <1>3, <2>1 DEF ObdInv, Requested, Served, AnswerIsOwn, Live
<1> QED
  BY <1>4, <1>5


(* What the loop of manager does to card: it starts it in a drive, and takes  *)
(* it away when it is not wanted or everything goes.                         *)
LEMMA LoopOfCard ==
  ASSUME ManagerTypeOK, Loop
  PROVE  /\ Running("card")' => \/ Running("card")
                                \/ /\ At("start") /\ Wanted("card")
                                   /\ procs["card"].proc # "alive" /\ procs'["card"].proc = "alive"
         /\ Running("card") => Running("card")' \/ Leaving \/ (At("stop") /\ ~Wanted("card"))
         /\ procs'["card"].proc = "alive" /\ procs["card"].proc # "alive" => Running("card")'
<1>1. /\ "card" \in Procs
      /\ procs \in [Procs -> [proc : {"none", "alive", "dead"}, shutting_down : BOOLEAN, drive : Nat]]
      /\ Process \in Procs
  BY OnroadConstants, ProcessInList DEF ManagerTypeOK
<1>2. CASE Poll \/ EndRound
  BY <1>2 DEF Poll, EndRound, Running
<1>3. CASE StopUnwanted
  <2>1. CASE Process = "card" /\ ~Wanted("card")
    <3>1. At("stop") /\ ~Dying("card")
          /\ procs' = [procs EXCEPT !["card"] = IF procs["card"].proc = "alive"
                                                THEN [procs["card"] EXCEPT !.shutting_down = TRUE] ELSE NoProcess]
      BY <1>3, <2>1 DEF StopUnwanted, Stop
    <3> QED
      BY <1>1, <2>1, <3>1 DEF Running, Dying, NoProcess
  <2>2. CASE ~(Process = "card" /\ ~Wanted("card"))
    <3>1. procs'["card"] = procs["card"]
      BY <1>1, <1>3, <2>2 DEF StopUnwanted, Stop
    <3> QED
      BY <3>1 DEF Running
  <2> QED
    BY <2>1, <2>2
<1>4. CASE StartWanted
  <2>1. CASE Process = "card" /\ Wanted("card") /\ procs["card"].proc # "alive"
    <3>1. At("start")
          /\ procs' = [procs EXCEPT !["card"] = [proc |-> "alive", shutting_down |-> FALSE, drive |-> manager.drive]]
      BY <1>4, <2>1 DEF StartWanted, Start
    <3> QED
      BY <1>1, <2>1, <3>1 DEF Running
  <2>2. CASE ~(Process = "card" /\ Wanted("card") /\ procs["card"].proc # "alive")
    <3>1. procs'["card"] = procs["card"]
      BY <1>1, <1>4, <2>2 DEF StartWanted, Start
    <3> QED
      BY <3>1 DEF Running
  <2> QED
    BY <2>1, <2>2
<1>5. CASE Kill
  <2>1. procs' = [procs EXCEPT ![Process].proc = "dead"] /\ Dying(Process)
    BY <1>5 DEF Kill, Awaited
  <2> QED
    BY <1>1, <2>1 DEF Running, Dying
<1>6. CASE CleanUp \/ Join
  <2>1. Leaving /\ ~Dying(Process)
        /\ procs' = [procs EXCEPT ![Process] = IF procs[Process].proc = "alive"
                                               THEN [procs[Process] EXCEPT !.shutting_down = TRUE] ELSE NoProcess]
    BY <1>6 DEF CleanUp, Join, Stop, Leaving
  <2> QED
    BY <1>1, <2>1 DEF Running, Dying, NoProcess
<1> QED
  BY <1>2, <1>3, <1>4, <1>5, <1>6 DEF Loop

(* A drive that is on in manager, and cleared, was so before the step.       *)
LEMMA LoopInDrive ==
  ASSUME ManagerTypeOK, Loop, manager'.started, manager'.at # "clear"
  PROVE  /\ manager.started /\ ~At("clear") /\ manager'.drive = manager.drive
         /\ (Leaving => Leaving') /\ deviceState' = deviceState
<1>1. CASE Poll
  <2>1. PICK begins \in BOOLEAN, again \in BOOLEAN :
          /\ begins = (deviceState.started /\ ~manager.started)
          /\ again = (deviceState.started = manager.started)
          /\ manager' = [at |-> IF again THEN "stop" ELSE "clear", place |-> 1,
                         started |-> deviceState.started, again |-> again,
                         drive |-> IF begins THEN deviceState.drive ELSE manager.drive]
          /\ deviceState' = deviceState /\ At("poll")
    BY <1>1 DEF Poll, ManagerTypeOK
  <2>2. again /\ manager.started /\ ~begins
    BY <2>1
  <2> QED
    BY <2>1, <2>2 DEF At, Leaving
<1>2. CASE StopUnwanted \/ StartWanted
  <2>1. PICK then \in {"start", "sent"} : Advance(then) /\ (At("stop") \/ At("start")) /\ deviceState' = deviceState
    BY <1>2 DEF StopUnwanted, StartWanted
  <2> QED
    BY <2>1, WalkGoesOn DEF At, Leaving
<1>3. CASE CleanUp \/ Join
  <2>1. PICK then \in {"join", "off"} : Advance(then) /\ (At("cleanup") \/ At("join")) /\ deviceState' = deviceState
    BY <1>3 DEF CleanUp, Join
  <2> QED
    BY <2>1, WalkGoesOn DEF At, Leaving
<1>4. CASE Kill
  BY <1>4 DEF Kill, Awaited, At, Leaving
<1>5. CASE EndRound
  <2>1. manager' = [manager EXCEPT !.at = IF exit THEN "cleanup" ELSE "poll"] /\ At("sent")
        /\ deviceState' = deviceState
    BY <1>5 DEF EndRound
  <2> QED
    BY <2>1 DEF ManagerTypeOK, At, Leaving
<1> QED
  BY <1>1, <1>2, <1>3, <1>4, <1>5 DEF Loop

LEMMA ObdInLoop ==
  ASSUME OInv, ObdInv, ManagerStep PROVE ObdInv'
<1>1. /\ Loop /\ ManagerTypeOK
      /\ UNCHANGED <<params, pandad, faults>>
      /\ card' = IF procs'["card"].proc = "alive" /\ procs["card"].proc # "alive" THEN Boot ELSE card
  BY DEF ManagerStep, OInv, MInv
<1>2. CardShape'
  <2>1. Running("card")' => "card" \in Onroad
    BY <1>1, LoopOfCard, OnroadConstants DEF ObdInv, CardShape, Wanted
  <2> QED
    BY <1>1, <2>1 DEF ObdInv, CardShape, Boot
<1>3. WaitsForClear'
  <2>1. /\ manager.drive \in Nat /\ manager'.drive \in Nat /\ pandad.drive \in Nat
    BY <1>1, StepKeeps DEF OInv, MInv, ManagerTypeOK, PandadOK, Pandads
  <2>2. Begun => Begun'
    <3>1. CASE manager'.drive = manager.drive
      <4>1. ~Clearing'
        BY <1>1, <2>1, <3>1, LoopMoves DEF OInv, Clearing, At
      <4> QED
        BY <3>1, <4>1, <1>1 DEF Begun
    <3>2. CASE manager'.drive # manager.drive
      <4>1. manager'.drive > manager.drive
        BY <1>1, <2>1, <3>2, LoopMoves DEF OInv
      <4> QED
        BY <1>1, <2>1, <4>1 DEF Begun
    <3> QED
      BY <3>1, <3>2
  <2> QED
    BY <1>1, <2>2 DEF ObdInv, WaitsForClear
<1>4. ASSUME Live' PROVE Requested' /\ Served' /\ AnswerIsOwn'
  <2>1. /\ Live /\ manager'.drive = manager.drive /\ (Leaving => Leaving') /\ deviceState' = deviceState
        /\ manager.started
    BY <1>1, <1>4, LoopInDrive DEF Live, At
  <2>2. (Sync' <=> Sync) /\ (Missed' <=> Missed)
    BY <1>1, <2>1 DEF Sync, Missed
  <2>3. CASE Running("card")' /\ Running("card")
    <3>1. card' = card
      BY <1>1, <2>3 DEF Running
    <3>2. (BeforeEnd' <=> BeforeEnd) /\ (BeforePut' <=> BeforePut) /\ (HasAnswer' <=> HasAnswer)
      BY <1>1, <2>3, <3>1 DEF BeforeEnd, BeforePut, HasAnswer
    <3> QED
      BY <1>1, <2>1, <2>2, <3>2 DEF ObdInv, Requested, Served, AnswerIsOwn
  <2>4. CASE ~Running("card")' /\ ~Running("card")
    <3>1. (BeforeEnd' => BeforeEnd) /\ (BeforePut' => BeforePut) /\ ~HasAnswer' /\ (BeforeEnd' => BeforePut')
      BY <2>1, <2>4 DEF BeforeEnd, BeforePut, HasAnswer
    <3> QED
      BY <1>1, <2>1, <2>2, <3>1 DEF ObdInv, Requested, Served, AnswerIsOwn
  <2>5. CASE ~Running("card")' /\ Running("card")
    <3>1. Leaving'
      BY <1>1, <2>1, <2>5, LoopOfCard DEF ObdInv, CardShape, Wanted
    <3> QED
      BY <2>5, <3>1 DEF Requested, Served, AnswerIsOwn, BeforeEnd, HasAnswer
  <2>6. CASE Running("card")' /\ ~Running("card")
    <3>1. card' = Boot /\ ~Leaving
      BY <1>1, <2>6, LoopOfCard DEF At, Leaving
    <3>2. BeforeEnd /\ BeforePut /\ BeforeEnd' /\ BeforePut'
      BY <2>6, <3>1 DEF BeforeEnd, BeforePut, Boot
    <3>3. ~HasAnswer'
      BY <3>1 DEF HasAnswer, Boot
    <3> QED
      BY <1>1, <2>1, <2>2, <3>2, <3>3 DEF ObdInv, Requested, Served, AnswerIsOwn
  <2> QED
    BY <2>3, <2>4, <2>5, <2>6
<1> QED
  BY <1>2, <1>3, <1>4 DEF ObdInv, Requested, Served, AnswerIsOwn


(* card asks, and takes what it finds for the answer.                        *)
LEMMA ObdInCard ==
  ASSUME OInv, ObdInv, Card PROVE ObdInv'
<1>1. UNCHANGED <<deviceState, manager, procs, pandad, faults>>
  BY DEF Card, CardOnly, managerVars, AskObd, PutObd, ObdChanged, Query, QueryDone, PutCarParams,
         ControlsUpdate, ReadyLands
<1>2. /\ (Running("card")' <=> Running("card")) /\ (Live' <=> Live) /\ (Leaving' <=> Leaving)
      /\ (Sync' <=> Sync) /\ (Missed' <=> Missed)
  BY <1>1 DEF Running, Live, Leaving, At, Sync, Missed
<1>3. WaitsForClear'
  BY <1>1 DEF ObdInv, WaitsForClear, Begun, Clearing, At
<1>4. card \in Cards /\ params \in Parameters /\ (card.ready => card.step = "running")
  BY DEF OInv, CardOK, ParamsOK
<1>5. \A step : CardAt(step) => Running("card") /\ card.step = step
  BY DEF CardAt, CardAlive, Running
<1>6. ASSUME Running("card"), ~card'.obd, card'.step # "query" PROVE ObdInv'
  <2>1. ~BeforeEnd' /\ ~BeforePut' /\ ~HasAnswer' /\ CardShape'
    BY <1>2, <1>6 DEF BeforeEnd, BeforePut, HasAnswer, ObdInv, CardShape
  <2> QED
    BY <1>3, <2>1 DEF ObdInv, Requested, Served, AnswerIsOwn
<1>7. CASE AskObd
  <2>1. Running("card") /\ card.step = "boot"
    BY <1>5, <1>7 DEF AskObd
  <2>2. PICK step \in {"put", "query", "queried"} :
          /\ card' = [card EXCEPT !.step = step]
          /\ step # "put" => (step = "query" <=> card.obd)
          /\ IF step = "put" THEN params' = [params EXCEPT !["ObdMultiplexingChanged"] = FALSE]
             ELSE params.ObdMultiplexingEnabled = card.obd
    BY <1>7 DEF AskObd, CardGoes, Put, Answered
  <2>3. card'.step = step /\ card'.obd = card.obd
    BY <1>4, <2>2 DEF Cards
  <2>4. CASE ~card.obd
    BY <1>6, <2>1, <2>2, <2>3, <2>4
  <2>5. CASE card.obd /\ step = "put"
    <3>0. params' = [params EXCEPT !["ObdMultiplexingChanged"] = FALSE]
      BY <2>2, <2>5
    <3>1. /\ ~params'.ObdMultiplexingChanged /\ params'.ObdMultiplexingEnabled = params.ObdMultiplexingEnabled
          /\ params'.FirmwareQueryDone = params.FirmwareQueryDone
      BY <1>4, <3>0 DEF Parameters
    <3>2. BeforeEnd /\ BeforePut /\ BeforeEnd' /\ BeforePut' /\ ~HasAnswer' /\ CardShape'
      BY <1>2, <2>1, <2>3, <2>5, <3>1 DEF BeforeEnd, BeforePut, HasAnswer, ObdInv, CardShape
    <3> QED
      BY <1>1, <1>2, <1>3, <3>1, <3>2 DEF ObdInv, Requested, Served, AnswerIsOwn
  <2>6. CASE card.obd /\ step # "put"
    <3>1. BeforeEnd /\ BeforePut /\ params.ObdMultiplexingEnabled
      BY <2>1, <2>2, <2>6 DEF BeforeEnd, BeforePut
    <3>2. ~Live
      BY <3>1 DEF ObdInv, Requested
    <3>3. CardShape'
      BY <1>2, <2>2, <2>3, <2>6 DEF ObdInv, CardShape
    <3> QED
      BY <1>2, <1>3, <3>2, <3>3 DEF ObdInv, Requested, Served, AnswerIsOwn
  <2> QED
    BY <1>4, <2>4, <2>5, <2>6
<1>8. CASE PutObd
  <2>1. /\ Running("card") /\ card.step = "put" /\ card' = [card EXCEPT !.step = "wait"]
        /\ params' = [params EXCEPT !["ObdMultiplexingEnabled"] = card.obd]
    BY <1>5, <1>8 DEF PutObd, CardGoes, Put
  <2>2. /\ card'.step = "wait" /\ card'.obd = card.obd
        /\ params'.ObdMultiplexingEnabled = card.obd
        /\ params'.ObdMultiplexingChanged = params.ObdMultiplexingChanged
        /\ params'.FirmwareQueryDone = params.FirmwareQueryDone
    BY <1>4, <2>1 DEF Cards, Parameters
  <2>3. CASE ~card.obd
    BY <1>6, <2>1, <2>2, <2>3
  <2>4. CASE card.obd
    <3>1. BeforeEnd /\ BeforePut /\ BeforeEnd' /\ ~BeforePut' /\ (HasAnswer' <=> HasAnswer) /\ CardShape'
      BY <1>2, <2>1, <2>2, <2>4 DEF BeforeEnd, BeforePut, HasAnswer, ObdInv, CardShape
    <3> QED
      BY <1>1, <1>2, <1>3, <2>2, <2>4, <3>1 DEF ObdInv, Requested, Served, AnswerIsOwn
  <2> QED
    BY <1>4, <2>3, <2>4
<1>9. CASE ObdChanged
  <2>1. /\ Running("card") /\ card.step = "wait" /\ card' = [card EXCEPT !.step = Answered]
        /\ params' = params /\ params.ObdMultiplexingChanged
    BY <1>5, <1>9 DEF ObdChanged, CardGoes
  <2>2. card'.step = Answered /\ card'.obd = card.obd
    BY <1>4, <2>1 DEF Cards
  <2>3. CASE ~card.obd
    BY <1>6, <2>1, <2>2, <2>3 DEF Answered
  <2>4. CASE card.obd
    <3>1. BeforeEnd /\ ~BeforePut /\ BeforeEnd' /\ ~BeforePut' /\ HasAnswer /\ CardShape'
      BY <1>2, <2>1, <2>2, <2>4 DEF BeforeEnd, BeforePut, HasAnswer, ObdInv, CardShape, Answered
    <3> QED
      BY <1>1, <1>2, <1>3, <2>1, <3>1 DEF ObdInv, Requested, Served, AnswerIsOwn
  <2> QED
    BY <1>4, <2>3, <2>4
<1>10. CASE Query
  <2>1. Running("card") /\ card' = [card EXCEPT !.step = "boot", !.obd = FALSE]
    BY <1>5, <1>10 DEF Query
  <2>2. ~card'.obd /\ card'.step = "boot"
    BY <1>4, <2>1 DEF Cards
  <2> QED
    BY <1>6, <2>1, <2>2
<1>11. CASE QueryDone \/ PutCarParams \/ ControlsUpdate
  <2>1. PICK step \in {"car", "run", "running", "passive"}, ready \in BOOLEAN :
          Running("card") /\ card.step \in {"queried", "car", "run"}
          /\ card' = [card EXCEPT !.step = step, !.ready = ready]
    <3>1. card.ready \in BOOLEAN
      BY <1>4 DEF Cards
    <3>2. \A step : CardGoes(step) => card' = [card EXCEPT !.step = step, !.ready = card.ready]
      BY <1>4 DEF CardGoes, Cards
    <3> QED
      BY <1>5, <1>11, <3>1, <3>2 DEF QueryDone, PutCarParams, ControlsUpdate
  <2>2. ~card'.obd /\ card'.step = step
    BY <1>4, <2>1 DEF Cards, ObdInv, CardShape
  <2> QED
    BY <1>6, <2>1, <2>2
<1>12. CASE ReadyLands
  <2>1. /\ card' = [card EXCEPT !.ready = FALSE] /\ card.step = "running"
        /\ params' = [params EXCEPT !["ControlsReady"] = TRUE]
    BY <1>4, <1>12 DEF ReadyLands, Put
  <2>2. /\ card'.step = "running" /\ card'.obd = card.obd
        /\ params'.ObdMultiplexingEnabled = params.ObdMultiplexingEnabled
        /\ params'.FirmwareQueryDone = params.FirmwareQueryDone
    BY <1>4, <2>1 DEF Cards, Parameters
  <2>3. (BeforeEnd' <=> BeforeEnd) /\ (BeforePut' <=> BeforePut) /\ ~HasAnswer' /\ CardShape'
    BY <1>2, <2>1, <2>2 DEF BeforeEnd, BeforePut, HasAnswer, ObdInv, CardShape
  <2> QED
    BY <1>1, <1>2, <1>3, <2>2, <2>3 DEF ObdInv, Requested, Served, AnswerIsOwn
<1> QED
  BY <1>7, <1>8, <1>9, <1>10, <1>11, <1>12 DEF Card

-----------------------------------------------------------------------------
(* pandad changes neither manager nor card; of the parameters it writes only *)
(* ObdMultiplexingChanged.                                                   *)
LEMMA ObdBesidePandad ==
  ASSUME OInv, ObdInv, Pandad \/ PandadCrashes
  PROVE  /\ CardShape' /\ Requested' /\ (BeforeEnd' <=> BeforeEnd) /\ (BeforePut' <=> BeforePut)
         /\ UNCHANGED <<deviceState, manager, procs, card>> /\ (Running("card")' <=> Running("card"))
         /\ Live' => Live
<1>1. UNCHANGED <<deviceState, manager, procs, card>>
  BY DEF Pandad, PandadCrashes, PandadOnly, managerVars, Look, Multiplex, TellChanged, ReadDone,
         ReadReady, SetSafetyMode
<1>2. /\ params'.ObdMultiplexingEnabled = params.ObdMultiplexingEnabled
      /\ params'.FirmwareQueryDone = params.FirmwareQueryDone
  <2>1. CASE TellChanged
    BY <2>1 DEF TellChanged, Put, OInv, ParamsOK, Parameters
  <2>2. CASE ~TellChanged
    BY <2>2 DEF Pandad, PandadCrashes, Look, Multiplex, ReadDone, ReadReady, SetSafetyMode
  <2> QED
    BY <2>1, <2>2
<1>3. Live' => Live
  <2>1. CASE Pandad
    <3>1. faults' = faults
      BY <2>1, Zenon DEF Pandad, Look, Multiplex, TellChanged, ReadDone, ReadReady, SetSafetyMode
    <3> QED
      BY <1>1, <3>1 DEF Live, At
  <2>2. CASE PandadCrashes
    BY <2>2 DEF PandadCrashes, Live, OInv, OthersOK
  <2> QED
    BY <2>1, <2>2
<1>4. /\ (Running("card")' <=> Running("card")) /\ (BeforeEnd' <=> BeforeEnd) /\ (BeforePut' <=> BeforePut)
  BY <1>1 DEF Running, BeforeEnd, BeforePut, Leaving, At
<1> QED
  BY <1>1, <1>2, <1>3, <1>4 DEF ObdInv, CardShape, Requested


(* What pandad does to its own state, when it looks and when it multiplexes. *)
LEMMA LookShows ==
  ASSUME OInv, Look
  PROVE  \/ ~deviceState.started /\ ~pandad'.initialized /\ pandad'.drive = 0
         \/ /\ deviceState.started /\ pandad.initialized /\ pandad'.initialized
            /\ pandad'.step \in {"idle", "obd"} /\ pandad'.mode \in {pandad.mode, "noOutput"}
            /\ pandad'.drive = pandad.drive /\ pandad'.early = pandad.early
            /\ pandad'.prev_obd = pandad.prev_obd /\ pandad'.configured = pandad.configured
         \/ /\ deviceState.started /\ ~pandad.initialized
            /\ pandad'.step = "obd" /\ pandad'.initialized /\ pandad'.drive = deviceState.drive
            /\ pandad'.mode = "elm" /\ ~pandad'.prev_obd /\ ~pandad'.early /\ ~pandad'.configured
<1>1. /\ pandad \in Pandads
      /\ (pandad.configured \/ pandad.prev_obd \/ pandad.step # "idle" => pandad.initialized)
      /\ deviceState \in [started : BOOLEAN, drive : Nat]
  BY DEF OInv, PandadOK, MInv, ManagerTypeOK
<1>2. PICK relay \in {pandad.mode, "noOutput"} : relay = Relay
  BY DEF Relay
<1>3. CASE ~deviceState.started
  BY <1>3 DEF Look, Fresh
<1>4. CASE deviceState.started /\ pandad.initialized
  <2>1. PICK step \in {"idle", "obd"} : pandad' = [pandad EXCEPT !.step = step, !.mode = relay]
    <3>1. CASE pandad.configured
      BY ZenonT(40), <1>1, <1>2, <1>4, <3>1 DEF Look, PandadAt, Pandads
    <3>2. CASE ~pandad.configured
      <4>1. pandad' = [pandad EXCEPT !.step = "obd", !.initialized = TRUE, !.drive = pandad.drive, !.mode = relay,
                                     !.prev_obd = TRUE /\ pandad.prev_obd, !.early = TRUE /\ pandad.early]
        BY <1>1, <1>2, <1>4, <3>2 DEF Look, Pandads
      <4>2. (TRUE /\ pandad.prev_obd) = pandad.prev_obd /\ (TRUE /\ pandad.early) = pandad.early
        BY <1>1 DEF Pandads
      <4> QED
        BY ZenonT(40), <1>1, <1>4, <4>1, <4>2 DEF Pandads
    <3> QED
      BY <1>1, <3>1, <3>2 DEF Pandads
  <2>2. /\ pandad'.step \in {"idle", "obd"} /\ pandad'.mode \in {pandad.mode, "noOutput"}
        /\ pandad'.initialized = pandad.initialized /\ pandad'.drive = pandad.drive
        /\ pandad'.early = pandad.early /\ pandad'.prev_obd = pandad.prev_obd
        /\ pandad'.configured = pandad.configured
    BY <1>1, <2>1 DEF Pandads
  <2> QED
    BY <1>4, <2>2
<1>5. CASE deviceState.started /\ ~pandad.initialized
  <2>1. ~pandad.configured
    BY <1>1, <1>5
  <2>2. pandad' = [pandad EXCEPT !.step = "obd", !.initialized = TRUE, !.drive = deviceState.drive, !.mode = "elm",
                                 !.prev_obd = FALSE, !.early = FALSE]
    BY <1>5, <2>1 DEF Look
  <2>3. /\ pandad'.step = "obd" /\ pandad'.initialized /\ pandad'.drive = deviceState.drive
        /\ pandad'.mode = "elm" /\ ~pandad'.prev_obd /\ ~pandad'.early /\ ~pandad'.configured
    BY <1>1, <2>1, <2>2 DEF Pandads
  <2> QED
    BY <1>5, <2>3
<1> QED
  BY <1>3, <1>4, <1>5

LEMMA MultiplexShows ==
  ASSUME OInv, Multiplex
  PROVE  /\ pandad.step = "obd" /\ params' = params
         /\ pandad'.initialized /\ pandad'.drive = pandad.drive /\ pandad'.configured = pandad.configured
         /\ \/ /\ params.ObdMultiplexingEnabled = pandad.prev_obd /\ pandad'.step = "fw"
               /\ pandad'.early = pandad.early /\ pandad'.prev_obd = pandad.prev_obd
               /\ pandad'.mode = pandad.mode
            \/ /\ pandad.prev_obd /\ ~params.ObdMultiplexingEnabled /\ pandad'.step = "tell"
               /\ pandad'.early = pandad.early /\ ~pandad'.prev_obd
            \/ /\ ~pandad.prev_obd /\ params.ObdMultiplexingEnabled /\ pandad'.step = "tell"
               /\ (pandad'.early <=> pandad.early \/ Behind) /\ pandad'.prev_obd
               /\ pandad'.mode = "elmObd"
<1>1. pandad \in Pandads /\ params \in Parameters /\ pandad.initialized
  BY DEF OInv, PandadOK, ParamsOK, Multiplex, PandadAt
<1>2. pandad.step = "obd" /\ params' = params
  BY DEF Multiplex, PandadAt
<1>3. CASE params.ObdMultiplexingEnabled = pandad.prev_obd
  <2>1. pandad' = [pandad EXCEPT !.step = "fw"]
    BY <1>3 DEF Multiplex
  <2>2. /\ pandad'.step = "fw" /\ pandad'.drive = pandad.drive /\ pandad'.initialized
        /\ pandad'.early = pandad.early /\ pandad'.prev_obd = pandad.prev_obd
        /\ pandad'.configured = pandad.configured /\ pandad'.mode = pandad.mode
    BY <1>1, <2>1 DEF Pandads
  <2> QED
    BY <1>2, <1>3, <2>2
<1>4. CASE params.ObdMultiplexingEnabled # pandad.prev_obd /\ pandad.prev_obd
  <2>1. pandad' = [pandad EXCEPT !.step = "tell", !.prev_obd = FALSE, !.early = pandad.early, !.mode = "elm"]
    <3>1. (pandad.early \/ (Behind /\ ~TRUE)) = pandad.early /\ pandad.prev_obd = TRUE
      BY <1>1, <1>4 DEF Pandads
    <3>2. pandad' = [pandad EXCEPT !.step = "tell", !.prev_obd = ~pandad.prev_obd,
                                   !.early = pandad.early \/ (Behind /\ ~pandad.prev_obd),
                                   !.mode = IF pandad.prev_obd THEN "elm" ELSE "elmObd"]
      BY <1>4, Zenon DEF Multiplex
    <3> QED
      BY <3>1, <3>2
  <2>2. /\ pandad'.step = "tell" /\ pandad'.drive = pandad.drive /\ pandad'.initialized /\ ~pandad'.prev_obd
        /\ pandad'.early = pandad.early /\ pandad'.configured = pandad.configured
    BY <1>1, <2>1 DEF Pandads
  <2>3. ~params.ObdMultiplexingEnabled
    BY <1>1, <1>4 DEF Parameters, Pandads
  <2> QED
    BY <1>2, <1>4, <2>2, <2>3
<1>5. CASE params.ObdMultiplexingEnabled # pandad.prev_obd /\ ~pandad.prev_obd
  <2>1. PICK early \in BOOLEAN : early = (pandad.early \/ (Behind /\ ~pandad.prev_obd))
    <3>1. (pandad.early \/ (Behind /\ ~pandad.prev_obd)) \in BOOLEAN
      OBVIOUS
    <3> QED
      BY <3>1, Zenon
  <2>2. pandad' = [pandad EXCEPT !.step = "tell", !.prev_obd = ~pandad.prev_obd,
                                 !.early = pandad.early \/ (Behind /\ ~pandad.prev_obd),
                                 !.mode = IF pandad.prev_obd THEN "elm" ELSE "elmObd"]
    BY <1>5, Zenon DEF Multiplex
  <2>3. (~pandad.prev_obd) = TRUE /\ (IF pandad.prev_obd THEN "elm" ELSE "elmObd") = "elmObd"
    BY <1>5
  <2>4. pandad' = [pandad EXCEPT !.step = "tell", !.prev_obd = TRUE, !.early = early, !.mode = "elmObd"]
    BY <2>1, <2>2, <2>3, Zenon
  <2>5. early <=> pandad.early \/ Behind
    BY <1>5, <2>1, Zenon
  <2>6. /\ pandad'.step = "tell" /\ pandad'.drive = pandad.drive /\ pandad'.initialized
        /\ pandad'.early = early /\ pandad'.prev_obd
        /\ pandad'.configured = pandad.configured /\ pandad'.mode = "elmObd"
    BY <1>1, <2>4 DEF Pandads
  <2>7. params.ObdMultiplexingEnabled
    BY <1>1, <1>5 DEF Parameters, Pandads
  <2> QED
    BY <1>2, <1>5, <2>5, <2>6, <2>7
<1> QED
  BY <1>3, <1>4, <1>5

LEMMA ReadDoneShows ==
  ASSUME OInv, ReadDone
  PROVE  /\ pandad.step = "fw" /\ params' = params
         /\ pandad'.step \in {"ready", "idle"} /\ (pandad'.step = "ready" <=> params.FirmwareQueryDone)
         /\ (pandad'.early <=> pandad.early \/ (Behind /\ params.FirmwareQueryDone))
         /\ pandad'.initialized /\ pandad'.drive = pandad.drive
         /\ pandad'.prev_obd = pandad.prev_obd /\ pandad'.configured = pandad.configured
         /\ pandad'.mode = pandad.mode
<1>1. pandad \in Pandads /\ pandad.initialized
  BY DEF OInv, PandadOK, ReadDone, PandadAt
<1>2. PICK early \in BOOLEAN : early = (pandad.early \/ (Behind /\ params.FirmwareQueryDone))
  <2>1. (pandad.early \/ (Behind /\ params.FirmwareQueryDone)) \in BOOLEAN
    OBVIOUS
  <2> QED
    BY <2>1, Zenon
<1>3. PICK step \in {"ready", "idle"} : step = IF params.FirmwareQueryDone THEN "ready" ELSE "idle"
  OBVIOUS
<1>4. /\ pandad' = [pandad EXCEPT !.step = step, !.early = early]
      /\ pandad.step = "fw" /\ params' = params
  BY <1>2, <1>3, Zenon DEF ReadDone, PandadAt
<1>5. /\ pandad'.step = step /\ pandad'.drive = pandad.drive /\ pandad'.initialized
      /\ pandad'.early = early /\ pandad'.prev_obd = pandad.prev_obd
      /\ pandad'.configured = pandad.configured /\ pandad'.mode = pandad.mode
  BY <1>1, <1>4 DEF Pandads
<1> QED
  BY <1>2, <1>3, <1>4, <1>5

LEMMA ObdInLook ==
  ASSUME OInv, ObdInv, Look PROVE WaitsForClear' /\ Served' /\ AnswerIsOwn'
<1>1. /\ pandad \in Pandads /\ ignition \in BOOLEAN
      /\ (pandad.configured \/ pandad.prev_obd \/ pandad.step # "idle" => pandad.initialized)
      /\ deviceState \in [started : BOOLEAN, drive : Nat]
      /\ UNCHANGED <<deviceState, manager, procs, card, params, faults>>
      /\ (BeforeEnd' <=> BeforeEnd) /\ (BeforePut' <=> BeforePut) /\ (Live' <=> Live)
      /\ (HasAnswer' <=> HasAnswer)
  <2>1. UNCHANGED <<deviceState, manager, procs, card, params, faults>>
    BY DEF Look, PandadOnly, managerVars
  <2> QED
    BY <2>1, ObdBesidePandad DEF OInv, PandadOK, OthersOK, MInv, ManagerTypeOK, Pandad, Live, At, HasAnswer
<1>2. (Begun' <=> (manager.drive > pandad'.drive \/ (manager.drive = pandad'.drive /\ ~Clearing)))
  BY <1>1 DEF Begun, Clearing, At
<1>3. CASE ~deviceState.started /\ ~pandad'.initialized
  BY <1>1, <1>3 DEF WaitsForClear, Served, AnswerIsOwn, Missed, Sync
<1>4. CASE /\ deviceState.started /\ pandad.initialized /\ pandad'.initialized
           /\ pandad'.step \in {"idle", "obd"} /\ pandad'.mode \in {pandad.mode, "noOutput"}
           /\ pandad'.drive = pandad.drive /\ pandad'.early = pandad.early
           /\ pandad'.prev_obd = pandad.prev_obd /\ pandad'.configured = pandad.configured
  <2>1. (Sync' <=> Sync) /\ (Begun' <=> Begun) /\ (Missed => Missed')
    BY <1>1, <1>2, <1>4 DEF Sync, Missed, Begun
  <2> QED
    BY <1>1, <1>4, <2>1 DEF ObdInv, WaitsForClear, Served, AnswerIsOwn
<1>5. CASE /\ deviceState.started /\ ~pandad.initialized
           /\ pandad'.step = "obd" /\ pandad'.initialized /\ pandad'.drive = deviceState.drive
           /\ pandad'.mode = "elm" /\ ~pandad'.prev_obd /\ ~pandad'.early /\ ~pandad'.configured
  <2>1. ~Sync /\ (Missed => Missed')
    BY <1>1, <1>5 DEF Missed, Sync
  <2> QED
    BY <1>1, <1>5, <2>1 DEF ObdInv, WaitsForClear, Served, AnswerIsOwn
<1> QED
  BY <1>3, <1>4, <1>5, LookShows

(* What pandad does in a pass leaves its drive alone.                        *)
LEMMA ObdInPass ==
  ASSUME OInv, ObdInv, Multiplex \/ TellChanged \/ ReadDone \/ ReadReady \/ SetSafetyMode
  PROVE  WaitsForClear' /\ Served' /\ AnswerIsOwn'
<1>1. /\ pandad \in Pandads /\ params \in Parameters /\ pandad.initialized
      /\ UNCHANGED <<deviceState, manager, procs, card, faults>>
      /\ (BeforeEnd' <=> BeforeEnd) /\ (BeforePut' <=> BeforePut) /\ (Live' <=> Live)
      /\ (Running("card")' <=> Running("card"))
  <2>1. UNCHANGED <<deviceState, manager, procs, card, faults>>
    BY DEF Multiplex, TellChanged, ReadDone, ReadReady, SetSafetyMode, PandadOnly, managerVars
  <2>2. pandad.step # "idle"
    BY DEF Multiplex, TellChanged, ReadDone, ReadReady, SetSafetyMode, PandadAt
  <2> QED
    BY <2>1, <2>2, ObdBesidePandad DEF OInv, PandadOK, ParamsOK, Pandad, Live, At
<1>2. HasAnswer => BeforeEnd
  BY DEF HasAnswer, BeforeEnd, ObdInv, CardShape
<1>3. ~Behind => Begun
  BY DEF Behind, Begun, Clearing, At
<1>4. ASSUME pandad'.drive = pandad.drive, pandad'.initialized, pandad'.early = pandad.early
      PROVE  (Sync' <=> Sync) /\ (Begun' <=> Begun)
             /\ (pandad'.step \notin {"ready", "params"} => (~Sync => Missed'))
  BY <1>1, <1>4 DEF Sync, Missed, Begun, Clearing, At
<1>5. CASE TellChanged
  <2>1. pandad' = [pandad EXCEPT !.step = "fw"] /\ pandad.step = "tell"
    BY <1>5 DEF TellChanged, PandadAt
  <2>2. /\ pandad'.step = "fw" /\ pandad'.drive = pandad.drive /\ pandad'.initialized
        /\ pandad'.early = pandad.early /\ pandad'.prev_obd = pandad.prev_obd
        /\ pandad'.configured = pandad.configured /\ pandad'.mode = pandad.mode
    BY <1>1, <2>1 DEF Pandads
  <2>3. HasAnswer' => BeforeEnd
    BY <1>1 DEF HasAnswer, BeforeEnd, ObdInv, CardShape
  <2>4. (Sync' <=> Sync) /\ (Begun' <=> Begun) /\ (~Sync => Missed')
    BY <1>4, <2>2
  <2>5. WaitsForClear' /\ Served'
    BY <1>1, <2>1, <2>2, <2>4 DEF ObdInv, WaitsForClear, Served
  <2>6. AnswerIsOwn'
    BY <1>1, <2>1, <2>2, <2>3, <2>4 DEF ObdInv, Served, AnswerIsOwn
  <2> QED
    BY <2>5, <2>6
<1>6. CASE Multiplex
  <2>1. /\ pandad.step = "obd" /\ params' = params /\ pandad'.initialized
        /\ pandad'.drive = pandad.drive /\ pandad'.configured = pandad.configured
    BY <1>6, MultiplexShows
  <2>2. HasAnswer' <=> HasAnswer
    BY <1>1, <2>1 DEF HasAnswer
  <2>3. CASE /\ pandad'.step = "fw" /\ pandad'.early = pandad.early /\ pandad'.prev_obd = pandad.prev_obd
             /\ pandad'.mode = pandad.mode
    <3>1. (Sync' <=> Sync) /\ (Begun' <=> Begun) /\ (~Sync => Missed')
      BY <1>4, <2>1, <2>3
    <3>2. WaitsForClear'
      BY <1>1, <2>1, <2>3, <3>1 DEF ObdInv, WaitsForClear
    <3>3. Served'
      BY <1>1, <2>1, <2>3, <3>1 DEF ObdInv, Served
    <3>4. AnswerIsOwn'
      <4>1. Live /\ HasAnswer => (Sync /\ pandad.prev_obd) \/ ~Sync
        BY <1>1 DEF ObdInv, AnswerIsOwn, Missed
      <4> QED
        BY <1>1, <2>2, <2>3, <3>1, <4>1 DEF AnswerIsOwn
    <3> QED
      BY <3>2, <3>3, <3>4
  <2>4. CASE /\ pandad.prev_obd /\ ~params.ObdMultiplexingEnabled /\ pandad'.step = "tell"
             /\ pandad'.early = pandad.early /\ ~pandad'.prev_obd
    <3>1. (Sync' <=> Sync) /\ (Begun' <=> Begun) /\ (~Sync => Missed')
      BY <1>4, <2>1, <2>4
    <3>2. ~(Live /\ Sync /\ BeforeEnd)
      BY <2>4 DEF ObdInv, Served, Requested
    <3> QED
      BY <1>1, <1>2, <2>1, <2>2, <2>4, <3>1, <3>2 DEF ObdInv, WaitsForClear, Served, AnswerIsOwn
  <2>5. CASE /\ ~pandad.prev_obd /\ params.ObdMultiplexingEnabled /\ pandad'.step = "tell"
             /\ (pandad'.early <=> pandad.early \/ Behind) /\ pandad'.prev_obd /\ pandad'.mode = "elmObd"
    <3>1. (Sync' => Sync) /\ (Begun' <=> Begun) /\ (~Sync => Missed')
      BY <1>1, <2>1, <2>5 DEF Sync, Missed, Begun, Clearing, At
    <3>2. WaitsForClear'
      BY <1>3, <2>5, <3>1 DEF WaitsForClear
    <3>3. Served'
      BY <1>1, <2>1, <2>5, <3>1 DEF ObdInv, Requested, Served
    <3>4. AnswerIsOwn'
      BY <1>1, <2>2, <2>5, <3>1 DEF ObdInv, AnswerIsOwn, Missed
    <3> QED
      BY <3>2, <3>3, <3>4
  <2> QED
    BY <1>6, <2>3, <2>4, <2>5, MultiplexShows
<1>7. CASE ReadDone
  <2>1. /\ pandad.step = "fw" /\ params' = params
        /\ pandad'.step \in {"ready", "idle"} /\ (pandad'.step = "ready" <=> params.FirmwareQueryDone)
        /\ (pandad'.early <=> pandad.early \/ (Behind /\ params.FirmwareQueryDone))
        /\ pandad'.initialized /\ pandad'.drive = pandad.drive
        /\ pandad'.prev_obd = pandad.prev_obd /\ pandad'.configured = pandad.configured
        /\ pandad'.mode = pandad.mode
    BY <1>7, ReadDoneShows
  <2>2. (Sync' => Sync) /\ (Begun' <=> Begun) /\ (pandad'.step = "idle" => (~Sync => Missed'))
    BY <1>1, <2>1 DEF Sync, Missed, Begun, Clearing, At
  <2>3. HasAnswer' <=> HasAnswer
    BY <1>1, <2>1 DEF HasAnswer
  <2>4. WaitsForClear'
    BY <1>1, <1>3, <2>1, <2>2 DEF ObdInv, WaitsForClear
  <2>5. Live /\ BeforeEnd => pandad'.step = "idle" /\ (pandad'.early <=> pandad.early)
    BY <2>1 DEF ObdInv, Requested
  <2>6. Served'
    BY <1>1, <2>1, <2>2, <2>5 DEF ObdInv, Served
  <2>7. Live /\ BeforeEnd => (Sync' <=> Sync)
    BY <1>1, <2>1, <2>5 DEF Sync
  <2>8. AnswerIsOwn'
    BY <1>1, <1>2, <2>1, <2>2, <2>3, <2>5, <2>7 DEF ObdInv, AnswerIsOwn, Missed
  <2> QED
    BY <2>4, <2>6, <2>8
<1>8. CASE ReadReady \/ SetSafetyMode
  <2>1. pandad.step \in {"ready", "params"} /\ params' = params
    BY <1>8 DEF ReadReady, SetSafetyMode, PandadAt
  <2>2. ~(Live /\ Sync /\ BeforeEnd) /\ ~(Live /\ HasAnswer)
    BY <1>1, <1>2, <2>1 DEF ObdInv, Served, AnswerIsOwn, Missed
  <2>3. HasAnswer' <=> HasAnswer
    BY <1>1, <2>1 DEF HasAnswer
  <2>4. CASE ~pandad'.initialized
    BY <1>1, <2>2, <2>3, <2>4 DEF WaitsForClear, Served, AnswerIsOwn, Sync
  <2>5. CASE pandad'.initialized
    <3>1. pandad'.drive = pandad.drive /\ pandad'.early = pandad.early
      <4>1. CASE ReadReady
        BY <1>1, <4>1 DEF ReadReady, Pandads
      <4>2. CASE SetSafetyMode
        BY <1>1, <2>5, <4>2 DEF SetSafetyMode, Pandads, Fresh
      <4> QED
        BY <1>8, <4>1, <4>2
    <3>2. (Sync' <=> Sync) /\ (Begun' <=> Begun)
      BY <1>4, <2>5, <3>1
    <3>3. WaitsForClear'
      BY <1>1, <2>1, <3>1, <3>2 DEF ObdInv, WaitsForClear
    <3> QED
      BY <1>1, <2>2, <2>3, <3>2, <3>3 DEF Served, AnswerIsOwn
  <2> QED
    BY <2>4, <2>5
<1> QED
  BY <1>5, <1>6, <1>7, <1>8

LEMMA ObdInPandad ==
  ASSUME OInv, ObdInv, Pandad \/ PandadCrashes PROVE ObdInv'
<1>1. CASE Pandad
  BY <1>1, ObdInLook, ObdInPass, ObdBesidePandad DEF Pandad, ObdInv
<1>2. CASE PandadCrashes
  <2>1. ~pandad'.initialized /\ faults' # 0
    BY <1>2 DEF PandadCrashes, Fresh, OInv, OthersOK
  <2> QED
    BY <1>2, <2>1, ObdBesidePandad DEF ObdInv, WaitsForClear, Served, AnswerIsOwn, Live
<1> QED
  BY <1>1, <1>2

LEMMA ObdKeeps == Spec => []ObdInv
<1>1. Init => ObdInv
  BY ObdStarts
<1>2. OInv /\ ObdInv /\ [Next]_vars => ObdInv'
  <2> SUFFICES ASSUME OInv, ObdInv, [Next]_vars PROVE ObdInv'
      OBVIOUS
  <2>1. CASE UNCHANGED vars
    <3>1. UNCHANGED <<deviceState, manager, procs, params, card, pandad, faults>>
      BY <2>1 DEF vars, managerVars
    <3> QED
      BY <3>1 DEF ObdInv, WaitsForClear, CardShape, Requested, Served, AnswerIsOwn, Begun, Clearing, At, Running, Live,
                  Sync, Missed, BeforeEnd, BeforePut, Leaving, HasAnswer
  <2> QED
    BY <2>1, ObdInTheWorld, ObdAtClear, ObdInLoop, ObdAtEnds, ObdInCard, ObdInPandad DEF Next
<1> QED
  BY <1>1, <1>2, OnroadKeeps, PTL DEF Spec

(* The firmware is queried with OBD multiplexing on, or the relay closed,    *)
(* unless pandad read what manager had not cleared or a process crashed:     *)
(* for any number of drives, and though the answer that card waits for is a  *)
(* flag that any pandad may set (card.py:36-44, panda_safety.cc:31-38).     *)
THEOREM QueryHasMultiplexing == Spec => []QueriedOverObd
<1>1. ObdInv => QueriedOverObd
  <2> SUFFICES ASSUME ObdInv, CardAt("query"), pandad.initialized, InStep, ~pandad.early, faults = 0
               PROVE  pandad.mode \in {"elmObd", "noOutput"}
      BY DEF QueriedOverObd
  <2>1. Running("card") /\ card.step = "query" /\ card.obd
    BY DEF CardAt, CardAlive, Running, ObdInv, CardShape
  <2>2. Live /\ Sync /\ BeforeEnd /\ HasAnswer
    BY <2>1 DEF InStep, Live, At, Sync, BeforeEnd, HasAnswer
  <2>3. pandad.prev_obd
    BY <2>2 DEF ObdInv, AnswerIsOwn, Missed
  <2> QED
    BY <2>2, <2>3 DEF ObdInv, Served
<1> QED
  BY <1>1, ObdKeeps, PTL


-----------------------------------------------------------------------------
(* What card and pandad say to each other comes to an end.  While card has   *)
(* not finished with the firmware nobody calls it done; what card asks for    *)
(* is what it has not got; an answer it has is one that pandad has given      *)
(* whole; and a request it has made is one that pandad still has to answer.  *)
BeforeDone == IF Running("card") THEN card.step \in {"boot", "put", "wait", "query", "queried"}
              ELSE ~Leaving
EndsQuery == /\ Running("card") /\ ~card.obd /\ card.step \in {"boot", "put"}
             /\ params.ObdMultiplexingEnabled
WaitsFor(on) == Running("card") /\ card.step = "wait" /\ card.obd = on
Told == pandad.step # "tell"

Undone == Live /\ BeforeDone =>
  /\ ~params.FirmwareQueryDone
  /\ Sync => pandad.step \notin {"ready", "params"} /\ ~pandad.configured
AsksForMore == Live /\ Running("card") =>
  /\ card.step = "put" => params.ObdMultiplexingEnabled # card.obd
  /\ card.step = "wait" => params.ObdMultiplexingEnabled = card.obd
  /\ card.step = "query" => params.ObdMultiplexingEnabled
GivenWhole == Live /\ (HasAnswer \/ EndsQuery) => (Sync /\ pandad.prev_obd /\ Told) \/ Missed
OpenIsAnswered == Live /\ Sync /\ WaitsFor(TRUE) =>
  params.ObdMultiplexingChanged \/ ~pandad.prev_obd \/ ~Told
CloseIsAnswered == Live /\ WaitsFor(FALSE) =>
  Missed \/ (Sync /\ (params.ObdMultiplexingChanged \/ pandad.prev_obd \/ ~Told))
Numbered == /\ manager.started => manager.drive > 0
            /\ ~pandad.initialized => pandad.drive = 0

TalkInv == /\ Undone /\ AsksForMore /\ GivenWhole
           /\ OpenIsAnswered /\ CloseIsAnswered /\ Numbered

LEMMA TalkStarts == Init => TalkInv
<1> SUFFICES ASSUME Init PROVE TalkInv
    OBVIOUS
<1>1. ~manager.started /\ pandad.drive = 0
  BY DEF Init, ManagerInit, Fresh
<1> QED
  BY <1>1 DEF TalkInv, Undone, AsksForMore, GivenWhole, OpenIsAnswered, CloseIsAnswered, Numbered, Live

(* A step that leaves card, pandad and their parameters alone, in a drive    *)
(* that goes on.                                                            *)
LEMMA TalkAside ==
  ASSUME TalkInv, Numbered', UNCHANGED <<params, pandad>>,
         Live' => /\ Live /\ UNCHANGED card /\ (Sync' <=> Sync) /\ (Missed => Missed')
                  /\ (Running("card")' => Running("card")) /\ (BeforeDone' => BeforeDone)
  PROVE  TalkInv'
<1>1. CASE ~Live'
  BY <1>1 DEF TalkInv, Undone, AsksForMore, GivenWhole, OpenIsAnswered, CloseIsAnswered
<1>2. CASE Live'
  <2>1. (HasAnswer' => HasAnswer) /\ (EndsQuery' => EndsQuery) /\ (Told' <=> Told)
        /\ \A on \in BOOLEAN : WaitsFor(on)' => WaitsFor(on)
    BY <1>2 DEF HasAnswer, EndsQuery, WaitsFor, Told
  <2>2. Undone' /\ AsksForMore'
    BY <1>2 DEF TalkInv, Undone, AsksForMore
  <2>3. GivenWhole' /\ OpenIsAnswered' /\ CloseIsAnswered'
    BY <1>2, <2>1 DEF TalkInv, GivenWhole, OpenIsAnswered, CloseIsAnswered
  <2> QED
    BY <2>2, <2>3 DEF TalkInv
<1> QED
  BY <1>1, <1>2

LEMMA TalkInTheWorld ==
  ASSUME OInv, TalkInv, Ignition \/ HardwaredStarts \/ HardwaredStops PROVE TalkInv'
<1>1. UNCHANGED <<manager, procs, params, card, pandad, faults>>
  BY DEF Ignition, HardwaredStarts, HardwaredStops, managerVars
<1>2. /\ Live' <=> Live
      /\ Sync' <=> Sync
      /\ Running("card")' <=> Running("card")
      /\ BeforeDone' <=> BeforeDone
  BY <1>1 DEF Live, At, Sync, Running, BeforeDone, Leaving
<1> QED
  BY <1>1, <1>2, MissedStays, TalkAside DEF TalkInv, Numbered

LEMMA TalkAtClear ==
  ASSUME OInv, ObdInv, TalkInv, Clear PROVE TalkInv'
<1>1. /\ UNCHANGED <<deviceState, procs, card, pandad, faults>>
      /\ At("clear") /\ manager' = [manager EXCEPT !.at = "stop"]
      /\ params' = IF manager.started THEN NoParams ELSE params
  BY DEF Clear, Cleared
<1>2. /\ manager'.drive = manager.drive /\ manager'.started = manager.started /\ manager.at = "clear"
      /\ manager.drive \in Nat /\ pandad.drive \in Nat
  BY <1>1 DEF OInv, MInv, ManagerTypeOK, At, PandadOK, Pandads
<1>3. Numbered'
  BY <1>1, <1>2 DEF TalkInv, Numbered
<1>4. CASE ~manager.started
  BY <1>2, <1>3, <1>4
     DEF TalkInv, Undone, AsksForMore, GivenWhole, OpenIsAnswered, CloseIsAnswered, Live
<1>5. CASE manager.started
  <2>1. ~Running("card")' /\ params' = NoParams
    BY <1>1, <1>5, OnroadConstants DEF OInv, MInv, Begins, Running
  <2>2. AsksForMore' /\ GivenWhole' /\ OpenIsAnswered' /\ CloseIsAnswered'
    BY <2>1 DEF AsksForMore, GivenWhole, OpenIsAnswered, CloseIsAnswered, HasAnswer, EndsQuery, WaitsFor
  <2>3. Sync' => pandad'.step \notin {"ready", "params"} /\ ~pandad'.configured
    <3> SUFFICES ASSUME Sync PROVE pandad.step \notin {"ready", "params"} /\ ~pandad.configured
        BY <1>1, <1>2 DEF Sync
    <3>1. ~Begun
      BY <1>2, <1>5 DEF Sync, Begun, Clearing, At
    <3> QED
      BY <3>1 DEF ObdInv, WaitsForClear, Sync
  <2>4. Undone'
    BY <2>1, <2>3 DEF Undone, NoParams
  <2> QED
    BY <1>3, <2>2, <2>4 DEF TalkInv
<1> QED
  BY <1>4, <1>5

LEMMA TalkAtEnds ==
  ASSUME OInv, TalkInv, ProcessEnds \/ CardCrashes PROVE TalkInv'
<1>1. UNCHANGED <<deviceState, manager, params, card, pandad>>
  BY DEF ProcessEnds, CardCrashes, Ends
<1>2. Numbered'
  BY <1>1 DEF TalkInv, Numbered
<1>3. CASE ProcessEnds
  <2>1. faults' = faults
    BY <1>3 DEF ProcessEnds
  <2>2. Running("card")' = Running("card")
    <3>1. PICK p \in Procs : procs[p].shutting_down /\ Ends(p)
      BY <1>3 DEF ProcessEnds
    <3>2. procs' = [procs EXCEPT ![p].proc = "dead"] /\ "card" \in Procs
          /\ procs \in [Procs -> [proc : {"none", "alive", "dead"}, shutting_down : BOOLEAN, drive : Nat]]
      BY <3>1, OnroadConstants DEF Ends, OInv, MInv, ManagerTypeOK
    <3> QED
      BY <3>1, <3>2 DEF Running
  <2>3. (Live' <=> Live) /\ (Sync' <=> Sync) /\ (Missed' <=> Missed) /\ (BeforeDone' <=> BeforeDone)
    BY <1>1, <2>1, <2>2 DEF Live, At, Sync, Missed, BeforeDone, Leaving
  <2> QED
    BY <1>1, <1>2, <2>2, <2>3, TalkAside
<1>4. CASE CardCrashes
  <2>1. ~Live'
    BY <1>4 DEF CardCrashes, OInv, OthersOK, Live
  <2> QED
    BY <1>1, <1>2, <2>1, TalkAside
<1> QED
  BY <1>3, <1>4

LEMMA TalkInLoop ==
  ASSUME OInv, ObdInv, TalkInv, ManagerStep PROVE TalkInv'
<1>1. /\ Loop /\ ManagerTypeOK /\ MInv /\ Behindhand
      /\ UNCHANGED <<params, pandad, faults>>
      /\ card' = IF procs'["card"].proc = "alive" /\ procs["card"].proc # "alive" THEN Boot ELSE card
  BY DEF ManagerStep, OInv, MInv
<1>2. Numbered'
  <2>1. manager.drive \in Nat /\ manager'.drive \in Nat
    BY <1>1, StepKeeps DEF MInv, ManagerTypeOK
  <2>2. \A m, n \in Nat : m > n => m > 0
    OBVIOUS
  <2>3. manager'.started => manager'.drive > 0
    BY <1>1, <2>1, <2>2, LoopMoves DEF TalkInv, Numbered
  <2> QED
    BY <1>1, <2>3 DEF TalkInv, Numbered
<1>3. ASSUME Live'
      PROVE  /\ Live /\ (Sync' <=> Sync) /\ (Missed' <=> Missed) /\ (Leaving => Leaving')
             /\ manager.started
  BY <1>1, <1>3, LoopInDrive DEF Live, At, Sync, Missed
<1>4. CASE Live' /\ Running("card")' /\ ~Running("card")
  <2>1. card' = Boot /\ ~Leaving
    BY <1>1, <1>4, LoopOfCard DEF At, Leaving
  <2>2. BeforeDone
    BY <1>4, <2>1 DEF BeforeDone
  <2>3. Undone'
    BY <1>1, <1>3, <1>4, <2>2 DEF TalkInv, Undone
  <2>4. AsksForMore' /\ GivenWhole' /\ OpenIsAnswered' /\ CloseIsAnswered'
    BY <2>1 DEF AsksForMore, GivenWhole, OpenIsAnswered, CloseIsAnswered, HasAnswer, EndsQuery,
                WaitsFor, Boot
  <2> QED
    BY <1>2, <2>3, <2>4 DEF TalkInv
<1>5. CASE ~(Live' /\ Running("card")' /\ ~Running("card"))
  <2>1. ASSUME Live' PROVE UNCHANGED card /\ (Running("card")' => Running("card")) /\ (BeforeDone' => BeforeDone)
    <3>1. card' = card
      BY <1>1, <1>5, <2>1, LoopOfCard DEF Running
    <3>2. Running("card") /\ ~Running("card")' => Leaving'
      BY <1>1, <1>3, <2>1, LoopOfCard DEF ObdInv, CardShape, Wanted
    <3> QED
      BY <1>3, <1>5, <2>1, <3>1, <3>2 DEF BeforeDone
  <2> QED
    BY <1>1, <1>2, <1>3, <2>1, TalkAside
<1> QED
  BY <1>4, <1>5

(* A card that is done with the firmware says no more.                       *)
LEMMA TalkAfterwards ==
  ASSUME Numbered', Running("card")', ~BeforeDone'
  PROVE  TalkInv'
BY DEF TalkInv, Undone, AsksForMore, GivenWhole, OpenIsAnswered, CloseIsAnswered, BeforeDone, HasAnswer,
       EndsQuery, WaitsFor

LEMMA TalkInCard ==
  ASSUME OInv, ObdInv, TalkInv, Card PROVE TalkInv'
<1>1. UNCHANGED <<deviceState, manager, procs, pandad, faults>>
  BY DEF Card, CardOnly, managerVars, AskObd, PutObd, ObdChanged, Query, QueryDone, PutCarParams,
         ControlsUpdate, ReadyLands
<1>2. /\ Running("card")' <=> Running("card")
      /\ Live' <=> Live
      /\ Sync' <=> Sync
      /\ Missed' <=> Missed
      /\ Told' <=> Told
  BY <1>1 DEF Running, Live, At, Sync, Missed, Told
<1>3. Numbered'
  BY <1>1 DEF TalkInv, Numbered
<1>4. card \in Cards /\ params \in Parameters
  BY DEF OInv, CardOK, ParamsOK
<1>5. \A step : CardAt(step) => Running("card") /\ card.step = step
  BY DEF CardAt, CardAlive, Running
<1>6. ASSUME BeforeDone, params'.FirmwareQueryDone = params.FirmwareQueryDone PROVE Undone'
  BY <1>1, <1>2, <1>6 DEF TalkInv, Undone
<1>7. CASE AskObd
  <2>1. Running("card") /\ card.step = "boot" /\ BeforeDone
    BY <1>5, <1>7 DEF AskObd, BeforeDone
  <2>2. PICK step \in {"put", "query", "queried"} :
          /\ card' = [card EXCEPT !.step = step]
          /\ step # "put" => (step = "query" <=> card.obd)
          /\ IF step = "put"
             THEN /\ params' = [params EXCEPT !["ObdMultiplexingChanged"] = FALSE]
                  /\ params.ObdMultiplexingEnabled # card.obd
             ELSE params' = params /\ params.ObdMultiplexingEnabled = card.obd
    BY <1>7 DEF AskObd, CardGoes, Put, Answered
  <2>3. card'.step = step /\ card'.obd = card.obd
    BY <1>4, <2>2 DEF Cards
  <2>4. CASE step = "put"
    <3>1. /\ ~params'.ObdMultiplexingChanged
          /\ params'.ObdMultiplexingEnabled = params.ObdMultiplexingEnabled
          /\ params'.FirmwareQueryDone = params.FirmwareQueryDone
          /\ params.ObdMultiplexingEnabled # card.obd
      BY <1>4, <2>2, <2>4 DEF Parameters
    <3>2. ~HasAnswer' /\ (EndsQuery' => EndsQuery) /\ \A on : ~WaitsFor(on)'
      BY <1>2, <2>1, <2>3, <2>4, <3>1 DEF HasAnswer, EndsQuery, WaitsFor
    <3>3. AsksForMore'
      BY <2>3, <2>4, <3>1 DEF AsksForMore
    <3>4. GivenWhole' /\ OpenIsAnswered' /\ CloseIsAnswered'
      BY <1>1, <1>2, <3>2 DEF TalkInv, GivenWhole, OpenIsAnswered, CloseIsAnswered
    <3> QED
      BY <1>3, <1>6, <2>1, <3>1, <3>3, <3>4 DEF TalkInv
  <2>5. CASE step = "query"
    <3>1. card.obd /\ params.ObdMultiplexingEnabled /\ params' = params
      BY <2>2, <2>5
    <3>2. BeforeEnd /\ BeforePut
      BY <2>1, <3>1 DEF BeforeEnd, BeforePut
    <3>3. ~Live'
      BY <1>2, <3>1, <3>2 DEF ObdInv, Requested
    <3> QED
      BY <1>3, <3>3
         DEF TalkInv, Undone, AsksForMore, GivenWhole, OpenIsAnswered, CloseIsAnswered
  <2>6. CASE step = "queried"
    <3>1. params' = params /\ ~HasAnswer' /\ ~EndsQuery' /\ \A on : ~WaitsFor(on)'
      BY <2>2, <2>3, <2>6 DEF HasAnswer, EndsQuery, WaitsFor
    <3>2. AsksForMore' /\ GivenWhole' /\ OpenIsAnswered' /\ CloseIsAnswered'
      BY <2>3, <2>6, <3>1 DEF AsksForMore, GivenWhole, OpenIsAnswered, CloseIsAnswered
    <3> QED
      BY <1>3, <1>6, <2>1, <3>1, <3>2 DEF TalkInv
  <2> QED
    BY <2>4, <2>5, <2>6
<1>8. CASE PutObd
  <2>1. /\ Running("card") /\ card.step = "put" /\ card' = [card EXCEPT !.step = "wait"]
        /\ params' = [params EXCEPT !["ObdMultiplexingEnabled"] = card.obd]
    BY <1>5, <1>8 DEF PutObd, CardGoes, Put
  <2>2. /\ card'.step = "wait" /\ card'.obd = card.obd /\ card.obd \in BOOLEAN
        /\ params'.ObdMultiplexingEnabled = card.obd
        /\ params'.ObdMultiplexingChanged = params.ObdMultiplexingChanged
        /\ params'.FirmwareQueryDone = params.FirmwareQueryDone
    BY <1>4, <2>1 DEF Cards, Parameters
  <2>3. Undone' /\ AsksForMore'
    BY <1>6, <2>1, <2>2 DEF BeforeDone, AsksForMore
  <2>4. GivenWhole'
    <3>1. (HasAnswer' => HasAnswer) /\ ~EndsQuery'
      BY <1>2, <2>1, <2>2 DEF HasAnswer, EndsQuery
    <3> QED
      BY <1>1, <1>2, <3>1 DEF TalkInv, GivenWhole
  <2>5. OpenIsAnswered'
    <3>1. card.obd => BeforeEnd /\ BeforePut
      BY <2>1 DEF BeforeEnd, BeforePut
    <3> QED
      BY <1>1, <1>2, <2>2, <3>1 DEF ObdInv, Served, OpenIsAnswered, WaitsFor
  <2>6. CloseIsAnswered'
    <3>1. params.ObdMultiplexingEnabled \in BOOLEAN
      BY <1>4 DEF Parameters
    <3>2. Live /\ ~card.obd => EndsQuery
      BY <2>1, <2>2, <3>1 DEF TalkInv, AsksForMore, EndsQuery
    <3> QED
      BY <1>1, <1>2, <2>2, <3>2 DEF TalkInv, GivenWhole, CloseIsAnswered, WaitsFor
  <2> QED
    BY <1>3, <2>3, <2>4, <2>5, <2>6 DEF TalkInv
<1>9. CASE ObdChanged
  <2>1. /\ Running("card") /\ card.step = "wait" /\ card' = [card EXCEPT !.step = Answered]
        /\ params' = params /\ params.ObdMultiplexingChanged
    BY <1>5, <1>9 DEF ObdChanged, CardGoes
  <2>2. card'.step = Answered /\ card'.obd = card.obd /\ (Answered = "query" => card.obd)
        /\ Answered \in {"query", "queried"}
    BY <1>4, <2>1 DEF Cards, Answered
  <2>3. Undone'
    BY <1>6, <2>1 DEF BeforeDone
  <2>4. AsksForMore'
    BY <1>2, <2>1, <2>2 DEF TalkInv, AsksForMore
  <2>5. GivenWhole'
    <3>1. (HasAnswer' => HasAnswer) /\ ~EndsQuery'
      BY <1>2, <2>1, <2>2 DEF HasAnswer, EndsQuery
    <3> QED
      BY <1>1, <1>2, <3>1 DEF TalkInv, GivenWhole
  <2>6. OpenIsAnswered' /\ CloseIsAnswered'
    BY <2>2 DEF OpenIsAnswered, CloseIsAnswered, WaitsFor
  <2> QED
    BY <1>3, <2>3, <2>4, <2>5, <2>6 DEF TalkInv
<1>10. CASE Query
  <2>1. /\ Running("card") /\ params' = params /\ card' = [card EXCEPT !.step = "boot", !.obd = FALSE]
        /\ card.step = "query" \/ (card.step = "boot" /\ card.obd)
    BY <1>5, <1>10 DEF Query
  <2>2. ~card'.obd /\ card'.step = "boot"
    BY <1>4, <2>1 DEF Cards
  <2>3. Undone'
    BY <1>6, <2>1 DEF BeforeDone
  <2>4. AsksForMore' /\ OpenIsAnswered' /\ CloseIsAnswered' /\ ~HasAnswer'
    BY <2>2 DEF AsksForMore, OpenIsAnswered, CloseIsAnswered, WaitsFor, HasAnswer
  <2>5. GivenWhole'
    <3>1. card.step = "boot" => BeforeEnd /\ BeforePut
      BY <2>1 DEF BeforeEnd, BeforePut
    <3>2. Live /\ EndsQuery' => HasAnswer
      BY <2>1, <3>1 DEF ObdInv, Requested, EndsQuery, HasAnswer
    <3> QED
      BY <1>1, <1>2, <2>4, <3>2 DEF TalkInv, GivenWhole
  <2> QED
    BY <1>3, <2>3, <2>4, <2>5 DEF TalkInv
<1>11. CASE QueryDone \/ PutCarParams \/ ControlsUpdate \/ ReadyLands
  <2>1. Running("card")' => card'.step \in {"car", "run", "running", "passive"}
    BY <1>4, <1>11 DEF QueryDone, PutCarParams, ControlsUpdate, ReadyLands, CardGoes, Cards, OInv, CardOK
  <2>2. CASE Running("card")'
    BY <1>3, <2>1, <2>2, TalkAfterwards DEF BeforeDone
  <2>3. CASE ~Running("card")'
    <3>1. ReadyLands
      BY <1>2, <1>5, <1>11, <2>3 DEF QueryDone, PutCarParams, ControlsUpdate
    <3>2. params'.FirmwareQueryDone = params.FirmwareQueryDone
      BY <1>4, <3>1 DEF ReadyLands, Put, Parameters
    <3>3. Undone'
      BY <1>1, <1>2, <2>3, <3>2 DEF TalkInv, Undone, BeforeDone, Leaving, At
    <3>4. AsksForMore' /\ GivenWhole' /\ OpenIsAnswered' /\ CloseIsAnswered'
      BY <2>3 DEF AsksForMore, GivenWhole, OpenIsAnswered, CloseIsAnswered, HasAnswer, EndsQuery, WaitsFor
    <3> QED
      BY <1>3, <3>3, <3>4 DEF TalkInv
  <2> QED
    BY <2>2, <2>3
<1> QED
  BY <1>7, <1>8, <1>9, <1>10, <1>11 DEF Card

(* What a step of pandad leaves as it is.                                    *)
LEMMA TalkBesidePandad ==
  ASSUME OInv, ObdInv, TalkInv, Pandad \/ PandadCrashes
  PROVE  /\ UNCHANGED <<deviceState, manager, procs, card>> /\ (Live' => Live)
         /\ (BeforeDone' <=> BeforeDone) /\ (Running("card")' <=> Running("card"))
         /\ params'.FirmwareQueryDone = params.FirmwareQueryDone
         /\ AsksForMore' /\ (manager'.started => manager'.drive > 0)
         /\ (EndsQuery' <=> EndsQuery) /\ \A on : WaitsFor(on)' <=> WaitsFor(on)
<1>1. /\ UNCHANGED <<deviceState, manager, procs, card>> /\ (Live' => Live)
      /\ (Running("card")' <=> Running("card"))
  BY ObdBesidePandad
<1>2. /\ params'.ObdMultiplexingEnabled = params.ObdMultiplexingEnabled
      /\ params'.FirmwareQueryDone = params.FirmwareQueryDone
  <2>1. CASE TellChanged
    BY <2>1 DEF TellChanged, Put, OInv, ParamsOK, Parameters
  <2>2. CASE ~TellChanged
    BY <2>2 DEF Pandad, PandadCrashes, Look, Multiplex, ReadDone, ReadReady, SetSafetyMode
  <2> QED
    BY <2>1, <2>2
<1>3. (BeforeDone' <=> BeforeDone) /\ (EndsQuery' <=> EndsQuery) /\ \A on : WaitsFor(on)' <=> WaitsFor(on)
  BY <1>1, <1>2 DEF BeforeDone, EndsQuery, WaitsFor, Leaving, At
<1>4. AsksForMore' /\ (manager'.started => manager'.drive > 0)
  BY <1>1, <1>2 DEF TalkInv, AsksForMore, Numbered
<1> QED
  BY <1>1, <1>2, <1>3, <1>4

LEMMA TalkSpeaks ==
  ASSUME HasAnswer \/ EndsQuery \/ WaitsFor(FALSE) \/ WaitsFor(TRUE) PROVE BeforeDone
BY DEF HasAnswer, EndsQuery, WaitsFor, BeforeDone

LEMMA TalkInLook ==
  ASSUME OInv, ObdInv, TalkInv, Look PROVE TalkInv'
<1>1. /\ UNCHANGED <<deviceState, manager, procs, card, params>> /\ (Live' => Live)
      /\ (BeforeDone' <=> BeforeDone) /\ AsksForMore' /\ (manager'.started => manager'.drive > 0)
      /\ (EndsQuery' <=> EndsQuery) /\ \A on : WaitsFor(on)' <=> WaitsFor(on)
  BY TalkBesidePandad DEF Look, Pandad
<1>2. HasAnswer' <=> HasAnswer
  BY <1>1, TalkBesidePandad DEF HasAnswer, Pandad
<1>3. Told
  BY DEF Look, PandadAt, Told
<1>4. pandad \in Pandads /\ deviceState \in [started : BOOLEAN, drive : Nat]
  BY DEF OInv, PandadOK, MInv, ManagerTypeOK
<1>5. CASE ~deviceState.started /\ ~pandad'.initialized /\ pandad'.drive = 0
  <2>1. ~Sync' /\ Missed'
    BY <1>1, <1>5 DEF Sync, Missed
  <2>2. Undone'
    BY <1>1, <2>1 DEF TalkInv, Undone
  <2> QED
    BY <1>1, <1>5, <2>1, <2>2
       DEF TalkInv, GivenWhole, OpenIsAnswered, CloseIsAnswered, Numbered
<1>6. CASE /\ deviceState.started /\ pandad.initialized /\ pandad'.initialized
           /\ pandad'.step \in {"idle", "obd"} /\ pandad'.mode \in {pandad.mode, "noOutput"}
           /\ pandad'.drive = pandad.drive /\ pandad'.early = pandad.early
           /\ pandad'.prev_obd = pandad.prev_obd /\ pandad'.configured = pandad.configured
  <2>1. (Sync' <=> Sync) /\ (Missed => Missed') /\ Told'
    BY <1>1, <1>6 DEF Sync, Missed, Told
  <2>2. Undone' /\ Numbered'
    BY <1>1, <1>6, <2>1 DEF TalkInv, Undone, Numbered
  <2>3. GivenWhole'
    BY <1>1, <1>2, <1>6, <2>1 DEF TalkInv, GivenWhole
  <2>4. OpenIsAnswered' /\ CloseIsAnswered'
    BY <1>1, <1>3, <1>6, <2>1 DEF TalkInv, OpenIsAnswered, CloseIsAnswered
  <2> QED
    BY <1>1, <2>2, <2>3, <2>4 DEF TalkInv
<1>7. CASE /\ deviceState.started /\ ~pandad.initialized
           /\ pandad'.step = "obd" /\ pandad'.initialized /\ pandad'.drive = deviceState.drive
           /\ pandad'.mode = "elm" /\ ~pandad'.prev_obd /\ ~pandad'.early /\ ~pandad'.configured
  <2>1. ~Sync /\ (Missed => Missed')
    BY <1>1, <1>7 DEF Missed, Sync
  <2>2. Undone' /\ Numbered'
    BY <1>1, <1>7 DEF TalkInv, Undone, Numbered
  <2>3. GivenWhole' /\ CloseIsAnswered'
    BY <1>1, <1>2, <2>1 DEF TalkInv, GivenWhole, CloseIsAnswered
  <2>4. OpenIsAnswered'
    BY <1>7 DEF OpenIsAnswered
  <2> QED
    BY <1>1, <2>2, <2>3, <2>4 DEF TalkInv
<1> QED
  BY <1>5, <1>6, <1>7, LookShows

LEMMA TalkInMultiplex ==
  ASSUME OInv, ObdInv, TalkInv, Multiplex PROVE TalkInv'
<1>1. /\ UNCHANGED <<deviceState, manager, procs, card>> /\ (Live' => Live)
      /\ (BeforeDone' <=> BeforeDone) /\ (Running("card")' <=> Running("card"))
      /\ AsksForMore' /\ (manager'.started => manager'.drive > 0)
      /\ (EndsQuery' <=> EndsQuery) /\ \A on : WaitsFor(on)' <=> WaitsFor(on)
  BY TalkBesidePandad DEF Pandad
<1>2. /\ pandad.step = "obd" /\ params' = params /\ pandad.initialized
      /\ pandad'.initialized /\ pandad'.drive = pandad.drive /\ pandad'.configured = pandad.configured
  BY MultiplexShows DEF OInv, PandadOK
<1>3. (HasAnswer' <=> HasAnswer) /\ Numbered' /\ Told
  BY <1>1, <1>2 DEF HasAnswer, Numbered, Told
<1>4. CASE /\ pandad'.step = "fw" /\ pandad'.early = pandad.early /\ pandad'.prev_obd = pandad.prev_obd
  <2>1. (Sync' <=> Sync) /\ (Missed => Missed') /\ Told'
    BY <1>1, <1>2, <1>4 DEF Sync, Missed, Told
  <2>2. Undone'
    BY <1>1, <1>2, <1>4, <2>1 DEF TalkInv, Undone
  <2>3. GivenWhole'
    BY <1>1, <1>3, <1>4, <2>1 DEF TalkInv, GivenWhole
  <2>4. OpenIsAnswered' /\ CloseIsAnswered'
    BY <1>1, <1>2, <1>3, <1>4, <2>1 DEF TalkInv, OpenIsAnswered, CloseIsAnswered
  <2> QED
    BY <1>1, <1>3, <2>2, <2>3, <2>4 DEF TalkInv
<1>5. CASE /\ pandad.prev_obd /\ ~params.ObdMultiplexingEnabled /\ pandad'.step = "tell"
           /\ pandad'.early = pandad.early /\ ~pandad'.prev_obd
  <2>1. (Sync' <=> Sync) /\ (~Sync => Missed') /\ ~Told' /\ (Missed => ~Sync)
    BY <1>1, <1>2, <1>5 DEF Sync, Missed, Told
  <2>2. Undone'
    BY <1>1, <1>2, <1>5, <2>1 DEF TalkInv, Undone
  <2>3. GivenWhole'
    <3>1. ~EndsQuery
      BY <1>5 DEF EndsQuery
    <3>2. HasAnswer => BeforeEnd
      BY DEF HasAnswer, BeforeEnd, ObdInv, CardShape
    <3>3. ~(Live /\ Sync /\ BeforeEnd)
      BY <1>5 DEF ObdInv, Served, Requested
    <3> QED
      BY <1>1, <1>3, <2>1, <3>1, <3>2, <3>3 DEF GivenWhole
  <2>4. OpenIsAnswered' /\ CloseIsAnswered'
    BY <1>1, <2>1 DEF TalkInv, OpenIsAnswered, CloseIsAnswered
  <2> QED
    BY <1>1, <1>3, <2>2, <2>3, <2>4 DEF TalkInv
<1>6. CASE /\ ~pandad.prev_obd /\ params.ObdMultiplexingEnabled /\ pandad'.step = "tell"
           /\ (pandad'.early <=> pandad.early \/ Behind) /\ pandad'.prev_obd
  <2>1. (Sync' => Sync) /\ (~Sync' => Missed') /\ ~Told' /\ (Missed => ~Sync)
    BY <1>1, <1>2, <1>6 DEF Sync, Missed, Told
  <2>2. Undone'
    BY <1>1, <1>2, <1>6, <2>1 DEF TalkInv, Undone
  <2>3. GivenWhole'
    BY <1>1, <1>3, <1>6, <2>1 DEF TalkInv, GivenWhole
  <2>4. OpenIsAnswered' /\ CloseIsAnswered'
    BY <2>1 DEF OpenIsAnswered, CloseIsAnswered
  <2> QED
    BY <1>1, <1>3, <2>2, <2>3, <2>4 DEF TalkInv
<1> QED
  BY <1>4, <1>5, <1>6, MultiplexShows

LEMMA TalkInTell ==
  ASSUME OInv, ObdInv, TalkInv, TellChanged PROVE TalkInv'
<1>1. /\ UNCHANGED <<deviceState, manager, procs, card>> /\ (Live' => Live)
      /\ (BeforeDone' <=> BeforeDone) /\ (Running("card")' <=> Running("card"))
      /\ params'.FirmwareQueryDone = params.FirmwareQueryDone
      /\ AsksForMore' /\ (manager'.started => manager'.drive > 0)
      /\ (EndsQuery' <=> EndsQuery) /\ \A on : WaitsFor(on)' <=> WaitsFor(on)
  BY TalkBesidePandad DEF Pandad
<1>2. /\ pandad \in Pandads /\ params \in Parameters /\ pandad.initialized /\ pandad.step = "tell"
      /\ pandad' = [pandad EXCEPT !.step = "fw"]
      /\ params' = [params EXCEPT !["ObdMultiplexingChanged"] = TRUE]
  BY DEF OInv, PandadOK, ParamsOK, TellChanged, PandadAt, Put
<1>3. /\ pandad'.step = "fw" /\ pandad'.drive = pandad.drive /\ pandad'.initialized
      /\ pandad'.early = pandad.early /\ pandad'.prev_obd = pandad.prev_obd
      /\ pandad'.configured = pandad.configured /\ params'.ObdMultiplexingChanged
  BY <1>2 DEF Pandads, Parameters
<1>4. /\ (Sync' <=> Sync) /\ (~Sync => Missed') /\ Told' /\ ~Told /\ (Missed => ~Sync) /\ Numbered'
  BY <1>1, <1>2, <1>3 DEF Sync, Missed, Told, Numbered
<1>5. Undone'
  BY <1>1, <1>3, <1>4 DEF TalkInv, Undone
<1>6. GivenWhole'
  <2> SUFFICES ASSUME Live, Sync, HasAnswer' \/ EndsQuery' PROVE pandad.prev_obd
      BY <1>1, <1>3, <1>4 DEF GivenWhole
  <2>1. ~EndsQuery' /\ ~HasAnswer
    BY <1>1, <1>4 DEF TalkInv, GivenWhole
  <2>2. BeforeEnd
    BY <1>1, <2>1 DEF HasAnswer, BeforeEnd, ObdInv, CardShape
  <2> QED
    BY <1>2, <2>2 DEF ObdInv, Served
<1>7. OpenIsAnswered' /\ CloseIsAnswered'
  BY <1>3, <1>4 DEF OpenIsAnswered, CloseIsAnswered
<1> QED
  BY <1>1, <1>4, <1>5, <1>6, <1>7 DEF TalkInv

LEMMA TalkInReads ==
  ASSUME OInv, ObdInv, TalkInv, ReadDone \/ ReadReady \/ SetSafetyMode PROVE TalkInv'
<1>1. /\ UNCHANGED <<deviceState, manager, procs, card, params>> /\ (Live' => Live)
      /\ (BeforeDone' <=> BeforeDone) /\ (Running("card")' <=> Running("card"))
      /\ AsksForMore' /\ (manager'.started => manager'.drive > 0)
      /\ (EndsQuery' <=> EndsQuery) /\ \A on : WaitsFor(on)' <=> WaitsFor(on)
  BY TalkBesidePandad DEF Pandad, ReadDone, ReadReady, SetSafetyMode
<1>2. (HasAnswer' <=> HasAnswer) /\ pandad \in Pandads /\ pandad.initialized
  BY <1>1 DEF HasAnswer, OInv, PandadOK, ReadDone, ReadReady, SetSafetyMode, PandadAt
<1>3. CASE ReadDone
  <2>1. /\ pandad.step = "fw"
        /\ pandad'.step \in {"ready", "idle"} /\ (pandad'.step = "ready" <=> params.FirmwareQueryDone)
        /\ (pandad'.early <=> pandad.early \/ (Behind /\ params.FirmwareQueryDone))
        /\ pandad'.initialized /\ pandad'.drive = pandad.drive
        /\ pandad'.prev_obd = pandad.prev_obd /\ pandad'.configured = pandad.configured
    BY <1>3, ReadDoneShows
  <2>2. Told /\ Told' /\ Numbered' /\ (Sync' => Sync)
    BY <1>1, <1>2, <2>1 DEF Told, Numbered, Sync
  <2>3. ASSUME Live, BeforeDone PROVE pandad'.step = "idle" /\ (Sync' <=> Sync) /\ (Missed => Missed')
    <3>1. ~params.FirmwareQueryDone
      BY <2>3 DEF TalkInv, Undone
    <3>2. pandad'.step = "idle" /\ (pandad'.early <=> pandad.early)
      BY <2>1, <3>1
    <3> QED
      BY <1>1, <1>2, <2>1, <3>2 DEF Sync, Missed
  <2>4. Undone'
    BY <1>1, <2>1, <2>2, <2>3 DEF TalkInv, Undone
  <2>5. GivenWhole'
    BY <1>1, <1>2, <2>1, <2>2, <2>3, TalkSpeaks DEF TalkInv, GivenWhole
  <2>6. OpenIsAnswered'
    BY <1>1, <2>1, <2>2 DEF TalkInv, OpenIsAnswered
  <2>7. CloseIsAnswered'
    BY <1>1, <2>1, <2>2, <2>3, TalkSpeaks DEF TalkInv, CloseIsAnswered
  <2> QED
    BY <1>1, <2>2, <2>4, <2>5, <2>6, <2>7 DEF TalkInv
<1>4. CASE ReadReady \/ SetSafetyMode
  <2>1. pandad.step \in {"ready", "params"} /\ Told
    BY <1>4 DEF ReadReady, SetSafetyMode, PandadAt, Told
  <2>2. /\ ~pandad'.initialized => pandad'.drive = 0
        /\ pandad'.initialized => pandad'.drive = pandad.drive /\ pandad'.early = pandad.early
    <3>1. CASE ReadReady
      BY <1>2, <3>1 DEF ReadReady, Pandads
    <3>2. CASE SetSafetyMode
      BY <1>2, <3>2 DEF SetSafetyMode, Pandads, Fresh
    <3> QED
      BY <1>4, <3>1, <3>2
  <2>3. (Sync' => Sync) /\ ~Missed
    BY <1>1, <1>2, <2>1, <2>2 DEF Sync, Missed
  <2>4. Live /\ BeforeDone => ~Sync
    BY <2>1 DEF TalkInv, Undone
  <2>5. Live => ~HasAnswer /\ ~EndsQuery /\ ~WaitsFor(FALSE)
    BY <2>3, <2>4, TalkSpeaks DEF TalkInv, GivenWhole, CloseIsAnswered
  <2>6. Undone' /\ Numbered'
    BY <1>1, <2>2, <2>3, <2>4 DEF TalkInv, Undone, Numbered
  <2>7. GivenWhole' /\ CloseIsAnswered'
    BY <1>1, <1>2, <2>5 DEF GivenWhole, CloseIsAnswered
  <2>8. OpenIsAnswered'
    BY <1>1, <2>3, <2>4, TalkSpeaks DEF OpenIsAnswered
  <2> QED
    BY <1>1, <2>6, <2>7, <2>8 DEF TalkInv
<1> QED
  BY <1>3, <1>4

LEMMA TalkInPandad ==
  ASSUME OInv, ObdInv, TalkInv, Pandad \/ PandadCrashes PROVE TalkInv'
<1>1. CASE Pandad
  BY <1>1, TalkInLook, TalkInMultiplex, TalkInTell, TalkInReads DEF Pandad
<1>2. CASE PandadCrashes
  <2>1. ~Live' /\ pandad'.drive = 0
    BY <1>2 DEF PandadCrashes, Fresh, OInv, OthersOK, Live
  <2> QED
    BY <1>2, <2>1, TalkBesidePandad
       DEF TalkInv, Undone, GivenWhole, OpenIsAnswered, CloseIsAnswered, Numbered
<1> QED
  BY <1>1, <1>2

LEMMA TalkKeeps == Spec => []TalkInv
<1>1. Init => TalkInv
  BY TalkStarts
<1>2. OInv /\ ObdInv /\ TalkInv /\ [Next]_vars => TalkInv'
  <2> SUFFICES ASSUME OInv, ObdInv, TalkInv, [Next]_vars PROVE TalkInv'
      OBVIOUS
  <2>1. CASE UNCHANGED vars
    <3>1. UNCHANGED <<deviceState, manager, procs, params, card, pandad, faults>>
      BY <2>1 DEF vars, managerVars
    <3> QED
      BY <3>1 DEF TalkInv, Undone, AsksForMore, GivenWhole, OpenIsAnswered, CloseIsAnswered, Numbered, Live,
                  BeforeDone, Running, Leaving, At, HasAnswer, EndsQuery, WaitsFor, Sync, Missed, Told
  <2> QED
    BY <2>1, TalkInTheWorld, TalkAtClear, TalkInLoop, TalkAtEnds, TalkInCard, TalkInPandad DEF Next
<1> QED
  BY <1>1, <1>2, OnroadKeeps, ObdKeeps, PTL DEF Spec

(* card waits for a change that pandad has already made only after a crash,  *)
(* an early read, or with a pandad that has not heard of the drive's end;    *)
(* in step with manager, any other such wait is one that pandad is about to  *)
(* answer: it writes ObdMultiplexingChanged next.  The safety half of        *)
(* DriveGetsItsMode (card.py:36-44, panda_safety.cc:31-38).                  *)
OnlyUnheard == Unanswered /\ InStep => faults > 0 \/ pandad.early \/ pandad.step = "tell"

THEOREM NoOtherWay == Spec => []OnlyUnheard
<1>1. OInv /\ TalkInv => OnlyUnheard
  <2> SUFFICES ASSUME OInv, TalkInv, Unanswered, InStep, faults = 0, ~pandad.early
               PROVE  pandad.step = "tell"
      BY DEF OnlyUnheard, OInv, OthersOK
  <2>1. Live /\ Running("card") /\ card.step = "wait" /\ card \in Cards
    BY DEF Unanswered, InStep, CardAt, CardAlive, Running, Live, At, OInv, CardOK
  <2>2. Sync
    BY DEF InStep, TalkInv, Numbered, Sync
  <2>3. BeforeDone /\ ~Missed
    BY <2>1, <2>2 DEF BeforeDone, Missed, Sync
  <2>4. ~pandad.configured /\ params.ObdMultiplexingEnabled = card.obd
    BY <2>1, <2>2, <2>3 DEF TalkInv, Undone, AsksForMore
  <2>5. pandad.prev_obd = card.obd /\ ~params.ObdMultiplexingChanged
    BY <2>4 DEF Unanswered
  <2>6. CASE card.obd
    BY <2>1, <2>2, <2>5, <2>6 DEF TalkInv, OpenIsAnswered, WaitsFor, Cards, Told
  <2>7. CASE ~card.obd
    <3>1. card.obd = FALSE
      BY <2>1, <2>7 DEF Cards
    <3> QED
      BY <2>1, <2>2, <2>3, <2>5, <3>1 DEF TalkInv, CloseIsAnswered, WaitsFor, Told
  <2> QED
    BY <2>6, <2>7
<1> QED
  BY <1>1, OnroadKeeps, TalkKeeps, PTL

-------------------------------------------------------------------------------
(* The device: hardwared and manager.                                        *)

Hw == [ignition : BOOLEAN, cycle : Nat, temp_good : BOOLEAN, always_offroad : BOOLEAN,
       thermal : 1..3, started : BOOLEAN, seen : BOOLEAN, off : {"none", "short", "long"},
       hour : BOOLEAN, hot : BOOLEAN]

Degrees == 0..1000

(* While it is hot the band is not left downwards.                           *)
Heat == hw.hot => hw.thermal >= 2 /\ ~hw.started

DInv == MInv /\ hw \in Hw /\ cycleRequest \in BOOLEAN /\ Heat

LEMMA HardwaredBegins ==
  Hardwared!HardwaredInit => hw \in Hw /\ cycleRequest \in BOOLEAN /\ Heat
<1> SUFFICES ASSUME Hardwared!HardwaredInit PROVE hw \in Hw /\ cycleRequest \in BOOLEAN /\ Heat
    OBVIOUS
<1>1. hw = [ignition |-> FALSE, cycle |-> CycleFrames, temp_good |-> TRUE, always_offroad |-> FALSE,
            thermal |-> 1, started |-> FALSE, seen |-> FALSE, off |-> "none", hour |-> FALSE,
            hot |-> FALSE]
      /\ cycleRequest = FALSE
  BY DEF Hardwared!HardwaredInit, Hardwared!Ok
<1>2. hw \in Hw
  BY <1>1, DeviceConstants DEF Hw
<1>3. ~hw.hot
  BY <1>1
<1> QED
  BY <1>1, <1>2, <1>3 DEF Heat

(* The first part of a cycle touches neither heat nor the drive.             *)
LEMMA LookedKeeps ==
  ASSUME hw \in Hw, cycleRequest \in BOOLEAN, NEW on \in BOOLEAN,
         NEW h, h = Hardwared!Looked(on)
  PROVE  /\ h \in Hw
         /\ h.thermal = hw.thermal /\ h.started = hw.started /\ h.hot = hw.hot
<1>1. PICK cycle \in Nat : cycle = IF cycleRequest THEN CycleFrames
                                   ELSE IF hw.cycle > 0 THEN hw.cycle - 1 ELSE 0
  <2>1. CASE cycleRequest
    BY <2>1, DeviceConstants
  <2>2. CASE ~cycleRequest
    <3>1. (IF hw.cycle > 0 THEN hw.cycle - 1 ELSE 0) \in Nat
      BY DEF Hw
    <3> QED
      BY <2>2, <3>1
  <2> QED
    BY <2>1, <2>2
<1>2. h = [hw EXCEPT !.ignition = on, !.cycle = cycle]
  BY <1>1 DEF Hardwared!Looked
<1> QED
  BY <1>2, ZenonT(40) DEF Hw

(* A cycle moves by one band at most, and down only below the band's limit.  *)
LEMMA BandMoves ==
  ASSUME NEW h, h.thermal \in 1..3, NEW temp \in Degrees, NEW danger
  PROVE  /\ Hardwared!Band(h, temp, danger) \in 1..3
         /\ temp >= 92 /\ h.thermal >= 2 => Hardwared!Band(h, temp, danger) >= 2
<1>1. CASE Hardwared!Band(h, temp, danger) = 3
  BY <1>1
<1>2. CASE h.thermal = 1 /\ Hardwared!Band(h, temp, danger) # 3
  BY <1>2 DEF Degrees, Hardwared!Band, Hardwared!Critical, Hardwared!MinTemp,
                Hardwared!MaxTemp
<1>3. CASE h.thermal = 2 /\ Hardwared!Band(h, temp, danger) # 3
  BY <1>3 DEF Degrees, Hardwared!Band, Hardwared!Critical, Hardwared!MinTemp,
                Hardwared!MaxTemp
<1>4. CASE h.thermal = 3 /\ Hardwared!Band(h, temp, danger) # 3
  BY <1>4 DEF Degrees, Hardwared!Band, Hardwared!Critical, Hardwared!MinTemp,
                Hardwared!MaxTemp
<1> QED
  BY <1>1, <1>2, <1>3, <1>4

(* A decision: a drive begins only below the band of the heat, and goes on   *)
(* only below the critical one.                                             *)
LEMMA DecidedKeeps ==
  ASSUME hw \in Hw, cycleRequest \in BOOLEAN, Heat, NEW on \in BOOLEAN,
         NEW temp \in Degrees, NEW danger, NEW obstacle,
         hw' = Hardwared!Decided(on, temp, danger, obstacle)
  PROVE  hw' \in Hw /\ Heat' /\ (hw'.started => hw'.off = "none")
<1> DEFINE h == Hardwared!Looked(on)
           band == Hardwared!Band(h, temp, danger)
           good == band < Hardwared!Critical
           offroad == obstacle = "OffroadMode"
           hot == IF band = Hardwared!Critical THEN TRUE
                  ELSE h.hot /\ temp >= Hardwared!MinTemp[Hardwared!Overheated]
           now == [h EXCEPT !.thermal = band, !.temp_good = good, !.always_offroad = offroad,
                            !.hot = hot]
           begins == Hardwared!OnroadConditions(now)
                     /\ (h.started \/ (band < Hardwared!Overheated /\ obstacle = "none"))
           seen == now.seen \/ begins
           off == IF begins THEN "none" ELSE IF now.off = "none" THEN "short" ELSE now.off
<1>1. hw' = [now EXCEPT !.started = begins, !.seen = seen, !.off = off]
  BY DEF Hardwared!Decided
<1> HIDE DEF now, begins, seen, off, good, offroad, hot, band
<1>2. h \in Hw /\ h.thermal = hw.thermal /\ h.started = hw.started /\ h.hot = hw.hot
  BY LookedKeeps
<1> HIDE DEF h
<1>3. h.thermal \in 1..3
  BY <1>2, Zenon DEF Hw
<1>4. band \in 1..3 /\ (temp >= 92 /\ h.thermal >= 2 => band >= 2)
  BY <1>3, BandMoves DEF band
<1>5. good \in BOOLEAN /\ offroad \in BOOLEAN /\ hot \in BOOLEAN
  <2>1. good \in BOOLEAN /\ offroad \in BOOLEAN
    BY DEF good, offroad
  <2>2. hot \in BOOLEAN
    BY DEF hot
  <2> QED
    BY <2>1, <2>2, Zenon
<1>6. hot => band = 3 \/ (h.hot /\ temp >= 92)
  <2>1. hot => band = Hardwared!Critical \/ (h.hot /\ temp >= Hardwared!MinTemp[Hardwared!Overheated])
    BY Zenon DEF hot
  <2>2. Hardwared!Critical = 3 /\ Hardwared!MinTemp[Hardwared!Overheated] = 92
    BY DEF Hardwared!Critical, Hardwared!MinTemp, Hardwared!Overheated
  <2> QED
    BY <2>1, <2>2, Zenon
<1>7. good => band < 3
  BY Zenon DEF good, Hardwared!Critical
<1>8. now \in Hw /\ now.thermal = band /\ now.temp_good = good /\ now.hot = hot
  <2>1. now \in Hw
    BY <1>2, <1>4, <1>5, Zenon DEF now, Hw
  <2>2. now.thermal = band /\ now.temp_good = good /\ now.hot = hot
    BY <1>2, Zenon DEF now, Hw
  <2> QED
    BY <2>1, <2>2, Zenon
<1>9. now.seen \in BOOLEAN /\ now.off \in {"none", "short", "long"}
  BY <1>8, Zenon DEF Hw
<1>10. begins => now.temp_good /\ (h.started \/ band < 2)
  BY Zenon DEF begins, Hardwared!OnroadConditions, Hardwared!Overheated
<1>11. begins \in BOOLEAN /\ seen \in BOOLEAN /\ off \in {"none", "short", "long"}
  <2>1. begins \in BOOLEAN
    BY Zenon DEF begins
  <2>2. seen \in BOOLEAN
    BY <1>9, <2>1, Zenon DEF seen
  <2>3. off \in {"none", "short", "long"}
    BY <1>9, Zenon DEF off
  <2> QED
    BY <2>1, <2>2, <2>3, Zenon
<1>12. hw' \in Hw /\ hw'.thermal = band /\ hw'.started = begins /\ hw'.hot = hot
  <2>1. hw' \in Hw
    BY <1>1, <1>8, <1>11, Zenon DEF Hw
  <2>2. hw'.thermal = now.thermal /\ hw'.started = begins /\ hw'.hot = now.hot
    BY <1>1, <1>8, Zenon DEF Hw
  <2> QED
    BY <1>8, <2>1, <2>2, Zenon
<1>13. h.hot => h.thermal >= 2 /\ ~h.started
  BY <1>2, Zenon DEF Heat
<1>14. hot => band >= 2
  BY <1>4, <1>6, <1>13
<1>15. hot => ~begins
  <2>1. CASE band = 3
    <3>1. ~(band < 3)
      BY <2>1
    <3> QED
      BY <1>7, <1>8, <1>10, <3>1, Zenon
  <2>2. CASE h.hot /\ band >= 2
    <3>1. ~(band < 2)
      BY <1>4, <2>2
    <3> QED
      BY <1>10, <1>13, <2>2, <3>1, Zenon
  <2> QED
    BY <1>6, <1>14, <2>1, <2>2, Zenon
<1>16. hw'.off = off
  BY <1>1, <1>8, Zenon DEF Hw
<1>17. begins => off = "none"
  BY Zenon DEF off
<1> QED
  BY <1>12, <1>14, <1>15, <1>16, <1>17, Zenon DEF Heat

-----------------------------------------------------------------------------
LEMMA DeviceStarts == DeviceInit => DInv
BY InitKeeps, HardwaredBegins DEF DeviceInit, DInv

LEMMA DeviceGoesOn ==
  ASSUME DInv, [DeviceNext]_deviceVars PROVE DInv'
<1>1. CASE HardwaredStep
  <2>1. PICK on \in BOOLEAN, obstacle \in Hardwared!Obstacles, temp \in Temps :
          \E danger \in {FALSE, temp > Hardwared!OffroadDanger} :
            /\ hw' = Hardwared!Decided(on, temp, danger, obstacle)
            /\ exit' \in {exit \/ Hardwared!ShouldShutdown(hw', power) : power \in Hardwared!Power}
            /\ cycleRequest' = FALSE
    BY <1>1 DEF HardwaredStep, Hardwared!Cycle
  <2>2. PICK danger \in BOOLEAN : hw' = Hardwared!Decided(on, temp, danger, obstacle)
    <3>1. PICK hot \in BOOLEAN : hot = (temp > Hardwared!OffroadDanger)
      <4>1. (temp > Hardwared!OffroadDanger) \in BOOLEAN
        OBVIOUS
      <4> QED
        BY <4>1, Zenon
    <3>2. PICK danger \in {FALSE, hot} : hw' = Hardwared!Decided(on, temp, danger, obstacle)
      BY <2>1, <3>1, Zenon
    <3> QED
      BY <3>1, <3>2, Zenon
  <2>3. temp \in Degrees
    BY DeviceConstants DEF Degrees
  <2>4. hw' \in Hw /\ Heat'
    BY <2>2, <2>3, DecidedKeeps DEF DInv
  <2>5. /\ deviceState' = [started |-> hw'.started,
                           drive |-> deviceState.drive + IF hw'.started /\ ~hw.started THEN 1 ELSE 0]
        /\ UNCHANGED <<manager, procs>>
    BY <1>1 DEF HardwaredStep, Sent
  <2>6. deviceState' \in [started : BOOLEAN, drive : Nat]
    <3>1. deviceState.drive \in Nat /\ hw'.started \in BOOLEAN
      BY <2>4 DEF DInv, MInv, ManagerTypeOK, Hw
    <3>2. (IF hw'.started /\ ~hw.started THEN 1 ELSE 0) \in Nat
      OBVIOUS
    <3>3. PICK more \in Nat : more = IF hw'.started /\ ~hw.started THEN 1 ELSE 0
      BY <3>2
    <3>4. deviceState' = [started |-> hw'.started, drive |-> deviceState.drive + more]
      BY <2>5, <3>3
    <3> QED
      BY <3>1, <3>4
  <2>7. exit' \in BOOLEAN
    <3>1. PICK power \in Hardwared!Power : exit' = (exit \/ Hardwared!ShouldShutdown(hw', power))
      BY <2>1
    <3> QED
      BY <3>1, Zenon
  <2>8. MInv'
    BY <2>5, <2>6, <2>7, SendKeeps DEF DInv
  <2> QED
    BY <2>1, <2>4, <2>8 DEF DInv
<1>2. CASE Quiet
  <2>1. UNCHANGED <<deviceState, manager, procs>>
    BY <1>2 DEF Quiet
  <2>2. CASE Hardwared!Look
    <3>1. PICK on \in BOOLEAN : Hardwared!LookOnly(on)
      BY <2>2 DEF Hardwared!Look
    <3>2. hw' = Hardwared!Looked(on) /\ cycleRequest' = FALSE /\ exit' = exit
      BY <3>1 DEF Hardwared!LookOnly
    <3>3. hw' \in Hw /\ hw'.thermal = hw.thermal /\ hw'.started = hw.started /\ hw'.hot = hw.hot
      BY <3>2, LookedKeeps DEF DInv
    <3>4. MInv'
      BY <2>1, <3>2, SendKeeps DEF DInv, MInv, ManagerTypeOK
    <3> QED
      BY <3>2, <3>3, <3>4 DEF DInv, Heat
  <2>3. CASE Hardwared!Hours
    <3>1. UNCHANGED <<cycleRequest, exit>>
          /\ hw' \in {[hw EXCEPT !.hour = TRUE],
                      [hw EXCEPT !.off = IF hw.off = "short" THEN "long" ELSE hw.off]}
      BY <2>3 DEF Hardwared!Hours
    <3>2. hw' \in Hw /\ hw'.thermal = hw.thermal /\ hw'.started = hw.started /\ hw'.hot = hw.hot
      BY <3>1 DEF DInv, Hw
    <3>3. MInv'
      BY <2>1, <3>1, SendKeeps DEF DInv, MInv, ManagerTypeOK
    <3> QED
      BY <3>1, <3>2, <3>3 DEF DInv, Heat
  <2>4. CASE Hardwared!RequestCycle
    <3>1. cycleRequest' = TRUE /\ hw' = hw /\ exit' = exit
      BY <2>4 DEF Hardwared!RequestCycle
    <3>2. MInv'
      BY <2>1, <3>1, SendKeeps DEF DInv, MInv, ManagerTypeOK
    <3> QED
      BY <3>1, <3>2 DEF DInv, Heat
  <2> QED
    BY <1>2, <2>2, <2>3, <2>4 DEF Quiet
<1>3. CASE ManagerMoves \/ AnyProcessEnds
  <2>1. hw' = hw /\ cycleRequest' = cycleRequest /\ (Cleared \/ Loop \/ \E p \in Procs : Ends(p))
    BY <1>3 DEF ManagerMoves, AnyProcessEnds
  <2>2. MInv'
    BY <2>1, StepKeeps DEF DInv
  <2> QED
    BY <2>1, <2>2 DEF DInv, Heat
<1>4. CASE UNCHANGED deviceVars
  <2>1. hw' = hw /\ cycleRequest' = cycleRequest /\ exit' = exit
        /\ UNCHANGED <<deviceState, manager, procs>>
    BY <1>4 DEF deviceVars, managerVars
  <2>2. MInv'
    BY <2>1, SendKeeps DEF DInv, MInv, ManagerTypeOK
  <2> QED
    BY <2>1, <2>2 DEF DInv, Heat
<1> QED
  BY <1>1, <1>2, <1>3, <1>4 DEF DeviceNext

LEMMA DeviceKeeps == DeviceSpec => []DInv
<1>1. DeviceInit => DInv
  BY DeviceStarts
<1>2. DInv /\ [DeviceNext]_deviceVars => DInv'
  BY DeviceGoesOn
<1> QED
  BY <1>1, <1>2, PTL DEF DeviceSpec

(* Types, for any list of processes.                                        *)
THEOREM DeviceTypeCorrect == DeviceSpec => []DeviceTypeOK
<1>1. DInv => DeviceTypeOK
  BY DEF DInv, MInv, DeviceTypeOK, Hw
<1> QED
  BY <1>1, DeviceKeeps, PTL

(* What should not run is gone after the second round that finds it so, in   *)
(* whatever order hardwared, manager and the processes take their steps     *)
(* (process.py:81-111, 237-247).                                            *)
THEOREM OverlapStaysShort == DeviceSpec => []OverlapIsShort
<1>1. DInv => OverlapIsShort
  BY WalkIsShort DEF DInv
<1> QED
  BY <1>1, DeviceKeeps, PTL

(* No drive is on between the critical temperature and the fall below 92     *)
(* degrees, for any sequence of temperatures (hardwared.py:278-288, 319).   *)
THEOREM DriveStartsCool == DeviceSpec => []StartsCool
<1>1. DInv => StartsCool
  BY DEF DInv, Heat, StartsCool
<1> QED
  BY <1>1, DeviceKeeps, PTL

-----------------------------------------------------------------------------
(* Shutdown: what is left when manager is off, and how many of its steps     *)
(* that takes.                                                              *)

(* manager_cleanup signals all, then waits for all.                         *)
LeavesNothing ==
  /\ At("sent") => manager.place = 1
  /\ At("cleanup") => \A p \in Procs : Passed(p) => ~Running(p)
  /\ At("join") => \A p \in Procs : ~Running(p) /\ (Passed(p) => procs[p] = NoProcess)
  /\ At("off") => \A p \in Procs : procs[p] = NoProcess

(* The places still to walk, of this round and of manager_cleanup, two steps *)
(* each: a process that is alive may have to be waited for.                 *)
Walks == [off |-> 1, join |-> 2, cleanup |-> 3, sent |-> 4,
          start |-> 5, stop |-> 6, clear |-> 7, poll |-> 8]
Waits == IF procs[Process].proc = "alive" THEN 1 ELSE 0
Left == 2 * (Walks[manager.at] * Len(ProcList) - manager.place) + Waits

LEMMA WaitsOnce == Waits \in {0, 1}
BY DEF Waits

LEMMA AdvanceLeaves ==
  ASSUME ManagerTypeOK, NEW then \in {"start", "sent", "join", "off"}, Advance(then),
         \/ (At("stop") /\ then = "start") \/ (At("start") /\ then = "sent")
         \/ (At("cleanup") /\ then = "join") \/ (At("join") /\ then = "off")
  PROVE  Left' < Left
<1> DEFINE n == Len(ProcList)
<1>1. n \in Nat \ {0} /\ manager.place \in 1..n /\ Waits \in {0, 1} /\ Waits' \in {0, 1}
  BY ListNotEmpty, WaitsOnce DEF ManagerTypeOK, Waits
<1>2. CASE manager.place = n
  <2>1. manager'.at = then /\ manager'.place = 1
    BY <1>2 DEF Advance, ManagerTypeOK
  <2>2. Left' = 2 * (Walks[then] * n - 1) + Waits' /\ Left = 2 * (Walks[manager.at] * n - n) + Waits
    BY <1>2, <2>1 DEF Left
  <2> HIDE DEF n
  <2>3. Walks[then] * n = Walks[manager.at] * n - n
    BY <1>1 DEF Walks, At
  <2>4. Walks[manager.at] * n \in Int
    BY <1>1 DEF Walks, At
  <2> QED
    BY <1>1, <2>2, <2>3, <2>4
<1>3. CASE manager.place # n
  <2>1. manager'.at = manager.at /\ manager'.place = manager.place + 1
    BY <1>3 DEF Advance, ManagerTypeOK
  <2>2. Left' = 2 * (Walks[manager.at] * n - (manager.place + 1)) + Waits'
        /\ Left = 2 * (Walks[manager.at] * n - manager.place) + Waits
    BY <2>1 DEF Left
  <2> HIDE DEF n
  <2>3. Walks[manager.at] * n \in Int
    BY <1>1 DEF Walks, At
  <2> QED
    BY <1>1, <2>2, <2>3
<1> QED
  BY <1>2, <1>3

(* Once a way to exit is set, each step of manager's loop takes it nearer.   *)
LEMMA ManagerLeaves ==
  ASSUME MInv, exit, ManagerMoves PROVE Left' < Left
<1> DEFINE n == Len(ProcList)
<1>1. /\ n \in Nat \ {0} /\ manager.place \in 1..n /\ Waits \in {0, 1} /\ Waits' \in {0, 1}
      /\ ManagerTypeOK
  BY ListNotEmpty, WaitsOnce DEF MInv, ManagerTypeOK, Waits
<1>2. CASE StopUnwanted
  <2>1. Advance("start") /\ At("stop")
    BY <1>2 DEF StopUnwanted
  <2> QED
    BY <1>1, <2>1, AdvanceLeaves
<1>3. CASE StartWanted
  <2>1. Advance("sent") /\ At("start")
    BY <1>3 DEF StartWanted
  <2> QED
    BY <1>1, <2>1, AdvanceLeaves
<1>4. CASE CleanUp
  <2>1. Advance("join") /\ At("cleanup")
    BY <1>4 DEF CleanUp
  <2> QED
    BY <1>1, <2>1, AdvanceLeaves
<1>5. CASE Join
  <2>1. Advance("off") /\ At("join")
    BY <1>5 DEF Join
  <2> QED
    BY <1>1, <2>1, AdvanceLeaves
<1>6. CASE Poll
  <2>1. At("poll") /\ manager'.at \in {"stop", "clear"} /\ manager'.place = 1
    BY <1>1, <1>6 DEF Poll, ManagerTypeOK
  <2>2. Left' = 2 * (Walks[manager'.at] * n - 1) + Waits' /\ Left = 2 * (8 * n - manager.place) + Waits
    BY <2>1 DEF Left, Walks, At
  <2> HIDE DEF n
  <2>3. Walks[manager'.at] * n \in Int /\ Walks[manager'.at] * n <= 7 * n
    BY <1>1, <2>1 DEF Walks
  <2> QED
    BY <1>1, <2>2, <2>3
<1>7. CASE Cleared
  <2>1. At("clear") /\ manager'.at = "stop" /\ manager'.place = manager.place
    BY <1>1, <1>7 DEF Cleared, ManagerTypeOK
  <2>2. Left' = 2 * (6 * n - manager.place) + Waits' /\ Left = 2 * (7 * n - manager.place) + Waits
    BY <2>1 DEF Left, Walks, At
  <2> HIDE DEF n
  <2> QED
    BY <1>1, <2>2
<1>8. CASE EndRound
  <2>1. At("sent") /\ manager'.at = "cleanup" /\ manager'.place = manager.place
    BY <1>1, <1>8 DEF EndRound, ManagerTypeOK
  <2>2. Left' = 2 * (3 * n - manager.place) + Waits' /\ Left = 2 * (4 * n - manager.place) + Waits
    BY <2>1 DEF Left, Walks, At
  <2> HIDE DEF n
  <2> QED
    BY <1>1, <2>2
<1>9. CASE Kill
  <2>1. manager' = manager /\ Process \in Procs /\ procs[Process].proc = "alive"
        /\ procs' = [procs EXCEPT ![Process].proc = "dead"]
    BY <1>1, <1>9, ProcessInList DEF Kill, Awaited, Dying
  <2>2. procs'[Process].proc = "dead" /\ Process' = Process
    BY <1>1, <2>1 DEF ManagerTypeOK, Process
  <2>3. Waits = 1 /\ Waits' = 0
    BY <2>1, <2>2 DEF Waits
  <2>4. PICK rest : rest = Walks[manager.at] * n - manager.place
    OBVIOUS
  <2>5. rest \in Int
    <3>1. Walks[manager.at] \in Nat
      BY <1>1 DEF ManagerTypeOK, Walks
    <3> QED
      BY <1>1, <2>4, <3>1
  <2>6. Left = 2 * rest + Waits /\ Left' = 2 * rest + Waits'
    BY <2>1, <2>4 DEF Left
  <2> QED
    BY <2>3, <2>5, <2>6
<1> QED
  BY <1>2, <1>3, <1>4, <1>5, <1>6, <1>7, <1>8, <1>9 DEF ManagerMoves, Loop

LEMMA LeftIsNatural == ManagerTypeOK => Left \in 0..(16 * Len(ProcList))
<1> SUFFICES ASSUME ManagerTypeOK PROVE Left \in 0..(16 * Len(ProcList))
    OBVIOUS
<1> DEFINE n == Len(ProcList)
<1>1. n \in Nat \ {0} /\ manager.place \in 1..n /\ Waits \in {0, 1}
  BY ListNotEmpty, WaitsOnce DEF ManagerTypeOK
<1>2. PICK walks \in 1..8 : walks = Walks[manager.at]
  BY DEF ManagerTypeOK, Walks
<1>3. Left = 2 * (walks * n - manager.place) + Waits
  BY <1>2 DEF Left
<1> HIDE DEF n
<1>4. walks * n \in Nat /\ n <= walks * n /\ walks * n <= 8 * n
  BY <1>1, <1>2
<1> QED
  BY <1>1, <1>3, <1>4 DEF n

(* The others leave it as far, or end what would have to be waited for.      *)
LEMMA OthersLeave ==
  ASSUME MInv, \/ UNCHANGED <<manager, procs>>
               \/ \E p \in Procs : Ends(p)
  PROVE  Left' <= Left
<1>1. ManagerTypeOK /\ Left \in Nat /\ Waits \in {0, 1}
  BY LeftIsNatural, ListNotEmpty, WaitsOnce DEF MInv
<1>2. CASE UNCHANGED <<manager, procs>>
  <2>1. Left' = Left
    BY <1>2 DEF Left, Waits, Process
  <2> QED
    BY <1>1, <2>1
<1>3. ASSUME NEW p \in Procs, Ends(p) PROVE Left' <= Left
  <2>1. manager' = manager /\ Process' = Process /\ Process \in Procs
        /\ procs' = [procs EXCEPT ![p].proc = "dead"]
    BY <1>1, <1>3, ProcessInList DEF Ends, Process
  <2>2. procs'[Process].proc = procs[Process].proc \/ procs'[Process].proc = "dead"
    BY <1>1, <2>1 DEF ManagerTypeOK
  <2>3. Waits' \in {0, 1} /\ Waits' <= Waits
    BY <2>1, <2>2 DEF Waits
  <2>4. PICK rest : rest = Walks[manager.at] * Len(ProcList) - manager.place
    OBVIOUS
  <2>5. rest \in Int
    <3>1. Walks[manager.at] \in Nat /\ Len(ProcList) \in Nat /\ manager.place \in Nat
      BY <1>1, ListNotEmpty DEF ManagerTypeOK, Walks
    <3> QED
      BY <2>4, <3>1
  <2>6. Left = 2 * rest + Waits /\ Left' = 2 * rest + Waits'
    BY <2>1, <2>4 DEF Left
  <2>7. Waits' = Waits \/ (Waits = 1 /\ Waits' = 0)
    BY <1>1, <2>3
  <2>8. CASE Waits' = Waits
    BY <1>1, <2>6, <2>8
  <2>9. CASE Waits = 1 /\ Waits' = 0
    <3>1. Left = 2 * rest + 1 /\ Left' = 2 * rest
      BY <2>5, <2>6, <2>9
    <3> QED
      BY <2>5, <3>1
  <2> QED
    BY <2>7, <2>8, <2>9
<1> QED
  BY <1>2, <1>3

-----------------------------------------------------------------------------
(* The walks of manager_cleanup.                                            *)
LEMMA WalkLeaves ==
  ASSUME MInv, LeavesNothing, CleanUp \/ Join
  PROVE  LeavesNothing'
<1>1. /\ ManagerTypeOK /\ Process \in Procs /\ Stop(Process)
      /\ (At("cleanup") /\ Advance("join")) \/ (At("join") /\ Advance("off"))
  BY ProcessInList DEF MInv, CleanUp, Join
<1>2. /\ \A p \in Procs \ {Process} : procs'[p] = procs[p]
      /\ Running(Process) => procs'[Process] = [procs[Process] EXCEPT !.shutting_down = TRUE]
      /\ ~Running(Process) => procs'[Process] = NoProcess
  BY <1>1, StopMakes
<1>3. procs'[Process].proc # "alive" \/ procs'[Process].shutting_down
  BY <1>1, <1>2 DEF Running, NoProcess, ManagerTypeOK
<1>4. \A p \in Procs : ~Running(p) \/ p = Process => ~Running(p)'
  BY <1>2, <1>3 DEF Running
<1>5. ~Running(Process) => \A p \in Procs : procs[p] = NoProcess => procs'[p] = NoProcess
  BY <1>2
<1>6. Procs' = Procs
  BY DEF Procs
<1>7. CASE At("cleanup") /\ Advance("join")
  <2>1. /\ manager'.at \in {"cleanup", "join"}
        /\ manager'.at = "join" => \A p \in Procs : Passed(p) \/ p = Process
        /\ manager'.at = "cleanup" => \A p \in Procs : Passed(p)' => Passed(p) \/ p = Process
    BY <1>1, <1>7, WalkGoesOn DEF At
  <2>2. \A p \in Procs : Passed(p) => ~Running(p)
    BY <1>7 DEF LeavesNothing
  <2>3. manager'.at = "join" => manager'.place = 1
    BY <1>1, <1>7 DEF Advance, At, ManagerTypeOK
  <2>4. manager'.at = "join" => \A p \in Procs : ~Passed(p)'
    BY <2>3 DEF Passed
  <2> QED
    BY <1>4, <1>6, <2>1, <2>2, <2>4 DEF LeavesNothing, At
<1>8. CASE At("join") /\ Advance("off")
  <2>1. /\ manager'.at \in {"join", "off"}
        /\ manager'.at = "off" => \A p \in Procs : Passed(p) \/ p = Process
        /\ manager'.at = "join" => \A p \in Procs : Passed(p)' => Passed(p) \/ p = Process
    BY <1>1, <1>8, WalkGoesOn DEF At
  <2>2. \A p \in Procs : ~Running(p) /\ (Passed(p) => procs[p] = NoProcess)
    BY <1>8 DEF LeavesNothing
  <2>3. \A p \in Procs : Passed(p) \/ p = Process => procs'[p] = NoProcess
    BY <1>1, <1>2, <1>5, <2>2
  <2> QED
    BY <1>4, <1>6, <2>1, <2>2, <2>3 DEF LeavesNothing, At
<1> QED
  BY <1>1, <1>7, <1>8

(* A process that ends, or is killed, leaves nothing that runs.             *)
LEMMA EndLeaves ==
  ASSUME MInv, LeavesNothing, NEW q \in Procs, procs[q].proc = "alive",
         procs' = [procs EXCEPT ![q].proc = "dead"], UNCHANGED manager
  PROVE  LeavesNothing'
<1>1. procs \in [Procs -> [proc : {"none", "alive", "dead"}, shutting_down : BOOLEAN, drive : Nat]]
      /\ procs[q] # NoProcess
  BY DEF MInv, ManagerTypeOK, NoProcess
<1>2. /\ \A p \in Procs : Running(p)' => Running(p)
      /\ \A p \in Procs : procs[p] = NoProcess => procs'[p] = NoProcess
  BY <1>1 DEF Running
<1>3. Procs' = Procs /\ \A p \in Procs : Passed(p)' <=> Passed(p)
  BY DEF Procs, Passed
<1> QED
  BY <1>2, <1>3 DEF LeavesNothing, At

LEMMA StepLeaves ==
  ASSUME MInv, LeavesNothing, \/ Cleared \/ Loop \/ \E p \in Procs : Ends(p)
                              \/ UNCHANGED <<manager, procs>>
  PROVE  LeavesNothing'
<1>1. CASE CleanUp \/ Join
  BY <1>1, WalkLeaves
<1>2. CASE Kill
  <2>1. Process \in Procs /\ procs[Process].proc = "alive"
    BY <1>2, ProcessInList DEF MInv, Kill, Awaited, Dying
  <2> QED
    BY <1>2, <2>1, EndLeaves DEF Kill
<1>3. ASSUME NEW p \in Procs, Ends(p) PROVE LeavesNothing'
  BY <1>3, EndLeaves DEF Ends
<1>4. CASE UNCHANGED <<manager, procs>>
  BY <1>4 DEF LeavesNothing, At, Running, Passed, Procs, NoProcess
<1>5. CASE Cleared \/ Poll
  <2>1. manager'.at \in {"stop", "clear"}
    BY <1>5 DEF Cleared, Poll, MInv, ManagerTypeOK
  <2> QED
    BY <2>1 DEF LeavesNothing, At
<1>6. CASE StopUnwanted \/ StartWanted
  <2>1. /\ manager'.at \in {"stop", "start", "sent"}
        /\ manager'.at = "sent" => manager'.place = 1
    BY <1>6 DEF StopUnwanted, StartWanted, Advance, At, MInv, ManagerTypeOK
  <2> QED
    BY <2>1 DEF LeavesNothing, At
<1>7. CASE EndRound
  <2>1. manager'.at \in {"cleanup", "poll"} /\ manager'.place = 1
    BY <1>7 DEF EndRound, LeavesNothing, At, MInv, ManagerTypeOK
  <2>2. \A p \in Procs' : ~Passed(p)'
    BY <2>1 DEF Passed
  <2> QED
    BY <2>1, <2>2 DEF LeavesNothing, At
<1> QED
  BY <1>1, <1>2, <1>3, <1>4, <1>5, <1>6, <1>7 DEF Loop

LEMMA DeviceLeaves == DeviceSpec => []LeavesNothing
<1>1. DeviceInit => LeavesNothing
  BY DEF DeviceInit, ManagerInit, LeavesNothing, At
<1>2. DInv /\ LeavesNothing /\ [DeviceNext]_deviceVars => LeavesNothing'
  <2> SUFFICES ASSUME DInv, LeavesNothing, [DeviceNext]_deviceVars PROVE LeavesNothing'
      OBVIOUS
  <2>1. MInv
    BY DEF DInv
  <2>2. \/ Cleared \/ Loop \/ \E p \in Procs : Ends(p)
        \/ UNCHANGED <<manager, procs>>
    BY DEF DeviceNext, HardwaredStep, Quiet, ManagerMoves, AnyProcessEnds, deviceVars, managerVars
  <2> QED
    BY <2>1, <2>2, StepLeaves
<1> QED
  BY <1>1, <1>2, DeviceKeeps, PTL DEF DeviceSpec

(* The first half of ShutdownEnds: when manager is off no process is left,   *)
(* whatever ended by itself, was killed or hung while manager_cleanup went   *)
(* over the list twice (manager.py:104-113, process.py:81-111).             *)
THEOREM NothingOutlivesManager == DeviceSpec => [](At("off") => \A p \in Procs : procs[p] = NoProcess)
<1>1. LeavesNothing => (At("off") => \A p \in Procs : procs[p] = NoProcess)
  BY DEF LeavesNothing
<1> QED
  BY <1>1, DeviceLeaves, PTL

-----------------------------------------------------------------------------
(* Nothing takes manager back: a shutdown that was asked for stays asked     *)
(* for, and what is left to do never grows, and shrinks in its own steps.   *)
ComesNearer == exit => exit' /\ Left' <= Left /\ (ManagerMoves => Left' < Left)

LEMMA StepsComeNearer ==
  ASSUME DInv, DInv', [DeviceNext]_deviceVars PROVE ComesNearer
<1> SUFFICES ASSUME exit PROVE exit' /\ Left' <= Left /\ (ManagerMoves => Left' < Left)
    BY DEF ComesNearer
<1>1. MInv /\ ManagerTypeOK /\ ManagerTypeOK'
  BY DEF DInv, MInv
<1>2. Left \in Nat /\ Left' \in Nat
  <2>1. Len(ProcList) \in Nat
    BY ListNotEmpty
  <2>2. Left \in 0..(16 * Len(ProcList)) /\ (Left \in 0..(16 * Len(ProcList)))'
    BY <1>1, LeftIsNatural, PTL
  <2> QED
    BY <2>1, <2>2
<1>3. exit'
  <2>1. CASE HardwaredStep
    <3>1. PICK on \in BOOLEAN, obstacle \in Hardwared!Obstacles, temp \in Temps :
            \E danger \in {FALSE, temp > Hardwared!OffroadDanger} :
              exit' \in {exit \/ Hardwared!ShouldShutdown(hw', power) : power \in Hardwared!Power}
      BY <2>1 DEF HardwaredStep, Hardwared!Cycle
    <3>2. PICK power \in Hardwared!Power : exit' = (exit \/ Hardwared!ShouldShutdown(hw', power))
      BY <3>1
    <3> QED
      BY <3>2
  <2>2. CASE ~HardwaredStep
    <3>1. exit' = exit
      BY <2>2 DEF DeviceNext, Quiet, Hardwared!Look, Hardwared!LookOnly, Hardwared!Hours,
                  Hardwared!RequestCycle, ManagerMoves, Cleared, Loop, Poll, StopUnwanted,
                  StartWanted, Kill, EndRound, CleanUp, Join, AnyProcessEnds, Ends,
                  deviceVars, managerVars
    <3> QED
      BY <3>1
  <2> QED
    BY <2>1, <2>2
<1>4. CASE ManagerMoves
  <2>1. Left' < Left
    BY <1>1, <1>4, ManagerLeaves
  <2>2. Left' <= Left
    BY <1>2, <2>1
  <2> QED
    BY <1>3, <2>1, <2>2
<1>5. CASE ~ManagerMoves
  <2>1. \/ UNCHANGED <<manager, procs>>
        \/ \E p \in Procs : Ends(p)
    BY <1>5 DEF DeviceNext, HardwaredStep, Quiet, AnyProcessEnds, deviceVars, managerVars
  <2>2. Left' <= Left
    BY <1>1, <2>1, OthersLeave
  <2> QED
    BY <1>3, <1>5, <2>2
<1> QED
  BY <1>4, <1>5

(* What ShutdownEnds rests on, short of fairness: manager is off after less  *)
(* than 16 steps of its own for each process of its list, whatever          *)
(* hardwared and the processes do meanwhile, a drive that begins included   *)
(* (manager.py:104-113, 128-197).                                           *)
THEOREM ShutdownComesNearer ==
  DeviceSpec => [](Left \in 0..(16 * Len(ProcList))) /\ [][ComesNearer]_deviceVars
<1>1. DInv => Left \in 0..(16 * Len(ProcList))
  BY LeftIsNatural DEF DInv, MInv
<1>2. DInv /\ DInv' /\ [DeviceNext]_deviceVars => [ComesNearer]_deviceVars
  BY StepsComeNearer
<1> QED
  BY <1>1, <1>2, DeviceKeeps, PTL DEF DeviceSpec

(* hardwared asks for a shutdown only in a cycle that says that no drive is  *)
(* on, by its own rule and by the parameter that forces it alike             *)
(* (hardwared.py:352-373, 389-392, power_monitoring.py:113-131).            *)
THEOREM ShutdownIsAskedParked == DeviceSpec => [][~exit /\ exit' => ~deviceState'.started]_deviceVars
<1>1. DInv /\ [DeviceNext]_deviceVars => [~exit /\ exit' => ~deviceState'.started]_deviceVars
  <2> SUFFICES ASSUME DInv, [DeviceNext]_deviceVars, ~exit, exit' PROVE ~deviceState'.started
      OBVIOUS
  <2>1. HardwaredStep
    BY DEF DeviceNext, Quiet, Hardwared!Look, Hardwared!LookOnly, Hardwared!Hours,
           Hardwared!RequestCycle, ManagerMoves, Cleared, Loop, Poll, StopUnwanted,
           StartWanted, Kill, EndRound, CleanUp, Join, AnyProcessEnds, Ends,
           deviceVars, managerVars
  <2>2. PICK on \in BOOLEAN, obstacle \in Hardwared!Obstacles, temp \in Temps :
          \E danger \in {FALSE, temp > Hardwared!OffroadDanger} :
            /\ hw' = Hardwared!Decided(on, temp, danger, obstacle)
            /\ exit' \in {exit \/ Hardwared!ShouldShutdown(hw', power) : power \in Hardwared!Power}
    BY <2>1 DEF HardwaredStep, Hardwared!Cycle
  <2>3. PICK power \in Hardwared!Power : Hardwared!ShouldShutdown(hw', power)
    BY <2>2
  <2>4. hw'.off # "none"
    BY <2>3, Zenon DEF Hardwared!ShouldShutdown
  <2>5. PICK danger : hw' = Hardwared!Decided(on, temp, danger, obstacle)
    BY <2>2, Zenon
  <2>6. hw'.started => hw'.off = "none"
    <3>1. temp \in Degrees
      BY DeviceConstants DEF Degrees
    <3> QED
      BY <2>5, <3>1, DecidedKeeps DEF DInv
  <2>7. deviceState'.started = hw'.started
    BY <2>1 DEF HardwaredStep, Sent
  <2> QED
    BY <2>4, <2>6, <2>7
<1> QED
  BY <1>1, DeviceKeeps, PTL DEF DeviceSpec
=============================================================================
