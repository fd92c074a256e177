---------------------------------- MODULE Device ----------------------------------
(***************************************************************************)
(* hardwared and manager: what decides that a drive is on, or that the      *)
(* device is shut down, and what starts and stops the processes for it.     *)
(***************************************************************************)
EXTENDS Manager

CONSTANTS Temps, CycleFrames

ASSUME DeviceConstants == Temps \subseteq 0..1000 /\ CycleFrames \in Nat

VARIABLES
  hw, cycleRequest  \* of hardwared; its DoShutdown is one way to exit

deviceVars == <<managerVars, hw, cycleRequest>>

Hardwared == INSTANCE Hardwared WITH DoShutdown <- exit

DeviceInit == ManagerInit /\ Hardwared!HardwaredInit

Sent == deviceState' = [started |-> hw'.started,
                        drive |-> deviceState.drive + IF hw'.started /\ ~hw.started THEN 1 ELSE 0]

HardwaredStep ==
  /\ Hardwared!Cycle /\ Sent
  /\ deviceState'.drive <= MaxDrives
  /\ UNCHANGED <<manager, procs>>

Quiet ==
  /\ Hardwared!Look \/ Hardwared!Hours \/ Hardwared!RequestCycle
  /\ UNCHANGED <<deviceState, manager, procs>>

ManagerMoves ==
  /\ Cleared \/ Loop
  /\ UNCHANGED <<hw, cycleRequest>>

AnyProcessEnds ==
  /\ \E p \in Procs : Ends(p)
  /\ UNCHANGED <<hw, cycleRequest>>

DeviceNext == HardwaredStep \/ Quiet \/ ManagerMoves \/ AnyProcessEnds

(* manager's loop goes on: it waits a second for a message, and 5 seconds    *)
(* for a process.                                                           *)
DeviceSpec == DeviceInit /\ [][DeviceNext]_deviceVars /\ WF_deviceVars(ManagerMoves)

(* Type invariant.                                                          *)
DeviceTypeOK ==
  /\ ManagerTypeOK
  /\ hw \in [ignition : BOOLEAN, cycle : Nat, temp_good : BOOLEAN, always_offroad : BOOLEAN,
             thermal : 1..3, started : BOOLEAN, seen : BOOLEAN, off : {"none", "short", "long"},
             hour : BOOLEAN, hot : BOOLEAN]
  /\ cycleRequest \in BOOLEAN

(* Once it was critical, the device has to fall below 92 degrees before a   *)
(* drive is on again, whatever the band it jumped to (hardwared.py:278-288, *)
(* 298, 319).                                                               *)
StartsCool == hw.started => ~hw.hot

(* DoShutdown, set at any moment, ends with no process left (manager.py:    *)
(* 104-113, 189-197): no process can hold the shutdown up for ever.         *)
ShutdownEnds == exit ~> At("off") /\ \A p \in Procs : procs[p] = NoProcess
=============================================================================
