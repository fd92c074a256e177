--------------------------------- MODULE Manager ---------------------------------
(***************************************************************************)
(* manager (system/manager): one loop that follows hardwared's deviceState, *)
(* clears parameters when a drive begins or ends, stops the processes that  *)
(* should not run and starts those that should, in the order of their list. *)
(*                                                                         *)
(* A process is first stopped without waiting, by SIGINT.  When it is still *)
(* there in a later round the loop waits for it, and kills it after 5 s;    *)
(* all the other processes wait with it.                                   *)
(*                                                                         *)
(* Drives are numbered by whoever sends deviceState.  The round before the  *)
(* loop, which starts what runs offroad, is a round like the others.        *)
(***************************************************************************)
EXTENDS Naturals, Sequences

CONSTANTS
  ProcList,           \* the managed processes, in the order of the list
  Onroad, Offroad,    \* those that run in a drive, and between drives
  MaxDrives           \* bound on the drives that are begun

ASSUME ManagerConstants ==
  /\ ProcList \in Seq(STRING) /\ ProcList # << >>
  /\ Onroad \subseteq STRING /\ Offroad \subseteq STRING
  /\ MaxDrives \in Nat

VARIABLES
  deviceState,  \* the last deviceState: is a drive on, and its number
  manager,      \* where the loop is, the process it is at, and what it last saw
  procs,        \* of each process: proc, shutting_down, the drive it was started in
  exit          \* DoShutdown, DoReboot or DoUninstall

managerVars == <<deviceState, manager, procs, exit>>

Procs == {ProcList[i] : i \in 1..Len(ProcList)}
NoProcess == [proc |-> "none", shutting_down |-> FALSE, drive |-> 0]

ManagerInit ==
  /\ deviceState = [started |-> FALSE, drive |-> 0]
  /\ manager = [at |-> "start", place |-> 1, started |-> FALSE, again |-> FALSE, drive |-> 0]
  /\ procs = [p \in Procs |-> NoProcess]
  /\ exit = FALSE

-----------------------------------------------------------------------------
At(step) == manager.at = step
Process == ProcList[manager.place]
Running(p) == procs[p].proc = "alive" /\ ~procs[p].shutting_down
Dying(p) == procs[p].proc = "alive" /\ procs[p].shutting_down

(* sm.update takes the latest deviceState: what came between is never seen. *)
Poll ==
  /\ At("poll")
  /\ LET begins == deviceState.started /\ ~manager.started
         again == deviceState.started = manager.started
     IN  manager' = [at |-> IF again THEN "stop" ELSE "clear", place |-> 1,
                     started |-> deviceState.started, again |-> again,
                     drive |-> IF begins THEN deviceState.drive ELSE manager.drive]
  /\ UNCHANGED <<deviceState, procs, exit>>

(* clear_all; what is cleared is for the module that has the parameters.    *)
Cleared ==
  /\ At("clear")
  /\ manager' = [manager EXCEPT !.at = "stop"]
  /\ UNCHANGED <<deviceState, procs, exit>>

(* ensure_running.                                                          *)
Wanted(p) == IF manager.started THEN p \in Onroad ELSE p \in Offroad

Advance(then) ==
  manager' = IF manager.place = Len(ProcList) THEN [manager EXCEPT !.at = then, !.place = 1]
             ELSE [manager EXCEPT !.place = @ + 1]

(* Fault: the end is never awaited.                                          *)
Stop_Fault(p) ==
  procs' = [procs EXCEPT ![p] = IF @.proc = "alive" THEN [@ EXCEPT !.shutting_down = TRUE]
                                ELSE NoProcess]

(* ManagerProcess.stop: a signal the first time, then the end is awaited.    *)
Stop(p) ==
  /\ ~Dying(p)
  /\ procs' = [procs EXCEPT ![p] = IF @.proc = "alive" THEN [@ EXCEPT !.shutting_down = TRUE]
                                   ELSE NoProcess]

StopUnwanted ==
  /\ At("stop")
  /\ IF Wanted(Process) THEN UNCHANGED procs ELSE Stop(Process)
  /\ Advance("start")
  /\ UNCHANGED <<deviceState, exit>>

(* Fault: what was only signalled is kept.                                   *)
Start_Fault(p) ==
  procs' = [procs EXCEPT ![p] = IF @.proc = "alive" THEN [@ EXCEPT !.shutting_down = FALSE]
                                ELSE [proc |-> "alive", shutting_down |-> FALSE,
                                      drive |-> manager.drive]]

(* start: what was only signalled is waited for first; what runs is left.    *)
Start(p) ==
  /\ ~Dying(p)
  /\ IF procs[p].proc = "alive" THEN UNCHANGED procs
     ELSE procs' = [procs EXCEPT ![p] = [proc |-> "alive", shutting_down |-> FALSE,
                                         drive |-> manager.drive]]

StartWanted ==
  /\ At("start")
  /\ IF Wanted(Process) THEN Start(Process) ELSE UNCHANGED procs
  /\ Advance("sent")
  /\ UNCHANGED <<deviceState, exit>>

(* What the loop waits for is killed after 5 s.                              *)
Awaited(p) ==
  /\ p = Process /\ Dying(p)
  /\ \/ At("stop") /\ ~Wanted(p)
     \/ At("start") /\ Wanted(p)
     \/ At("cleanup") \/ At("join")

Kill ==
  /\ Awaited(Process)
  /\ procs' = [procs EXCEPT ![Process].proc = "dead"]
  /\ UNCHANGED <<deviceState, manager, exit>>

(* Fault: the loop is left between drives only.                              *)
EndRound_Fault ==
  /\ At("sent")
  /\ manager' = [manager EXCEPT !.at = IF exit /\ ~manager.started THEN "cleanup" ELSE "poll"]
  /\ UNCHANGED <<deviceState, procs, exit>>

(* The end of a round: managerState is sent, and the loop may be left.      *)
EndRound ==
  /\ At("sent")
  /\ manager' = [manager EXCEPT !.at = IF exit THEN "cleanup" ELSE "poll"]
  /\ UNCHANGED <<deviceState, procs, exit>>

(* manager_cleanup: everything is signalled, then everything is awaited.    *)
CleanUp ==
  /\ At("cleanup")
  /\ Stop(Process)
  /\ Advance("join")
  /\ UNCHANGED <<deviceState, exit>>

Join ==
  /\ At("join")
  /\ Stop(Process)
  /\ Advance("off")
  /\ UNCHANGED <<deviceState, exit>>

Loop == Poll \/ StopUnwanted \/ StartWanted \/ Kill \/ EndRound \/ CleanUp \/ Join

-----------------------------------------------------------------------------
(* A process ends after its signal, or by itself.                           *)
Ends(p) ==
  /\ procs[p].proc = "alive"
  /\ procs' = [procs EXCEPT ![p].proc = "dead"]
  /\ UNCHANGED <<deviceState, manager, exit>>
-----------------------------------------------------------------------------
(* Type invariant.                                                          *)
ManagerTypeOK ==
  /\ deviceState \in [started : BOOLEAN, drive : Nat]
  /\ manager \in [at : {"poll", "clear", "stop", "start", "sent", "cleanup", "join", "off"},
                  place : 1..Len(ProcList), started : BOOLEAN, again : BOOLEAN, drive : Nat]
  /\ procs \in [Procs -> [proc : {"none", "alive", "dead"}, shutting_down : BOOLEAN, drive : Nat]]
  /\ exit \in BOOLEAN

(* A process of the drive before never passes for one of this drive: it is  *)
(* signalled when the drive ends, and if it is still there when the next    *)
(* begins, start waits for its end (process.py:151, 179).                   *)
OfThisDrive == \A p \in Procs \ Offroad : Running(p) => procs[p].drive = manager.drive

(* stop does not wait the first time (process.py:93), but nothing that      *)
(* should not run outlives the second round that finds it so.               *)
OverlapIsShort ==
  manager.again /\ (At("start") \/ At("sent")) => \A p \in Procs : Wanted(p) \/ procs[p] = NoProcess
=============================================================================
