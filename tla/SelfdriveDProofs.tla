--------------------------- MODULE SelfdriveDProofs ---------------------------
(***************************************************************************)
(* Proofs about SelfdriveD for every value of the constants: type          *)
(* correctness, the soft-disable window, the disengagement on a mismatch   *)
(* with the panda, and what MADS promises of doors, brakes, entries and    *)
(* the driver's requests.                                                  *)
(***************************************************************************)
EXTENDS SelfdriveD, TLAPS

USE SoftDisableTimeAssumption, MadsConstants, SelfdriveConstants

(* The empty CarState message is a car state. *)
LEMMA NoCarStateType == NoCarState \in CarState
BY DEF NoCarState, CarState

(* update_events collects stock events only. *)
LEMMA CollectedType ==
  ASSUME NEW other \in OtherEvents
  PROVE  CollectedEvents(other) \subseteq StockEvent
BY DEF CollectedEvents, CarEvents, CanEvents, Only, StockEvent, SystemEvent

(* MADS rewrites the events within the types of the two lists. *)
LEMMA MadsEventsType ==
  ASSUME TypeOK, MadsUpdateEvents
  PROVE  /\ events' \subseteq StockEvent
         /\ events_sp' \subseteq EventSP
         /\ lateral_mismatch_counter' \in Nat
<1>1. events' \subseteq StockEvent
  BY DEF TypeOK, MadsUpdateEvents
<1>2. lateral_mismatch_counter' \in Nat
  BY DEF TypeOK, MadsUpdateEvents, LateralMismatchCounter
<1>3. SilentEvents \subseteq EventSP
  <2>1. \A e \in DOMAIN SilentOf : SilentOf[e] \in SilentGears
    BY DEF SilentOf, SilentGears
  <2>2. Replaced \subseteq DOMAIN SilentOf
    BY DEF Replaced
  <2>3. QED
    BY <2>1, <2>2 DEF TypeOK, SilentEvents, Only, EventSP
<1>4. RequestEvents \cup AlertOnlyEvents \subseteq EventSP
  BY DEF RequestEvents, AlertOnlyEvents, Only, EventSP
<1>5. QED
  BY <1>1, <1>2, <1>3, <1>4 DEF MadsUpdateEvents, Only, EventSP

(* A membership is a Boolean. *)
LEMMA MembershipIsBoolean ==
  ASSUME NEW flag, NEW s, NEW S, flag = (s \in S)
  PROVE  flag \in BOOLEAN
BY SMT

(* What one run of the stock state machine leaves behind: a state, the     *)
(* flags that go with it, and a timer within its range.                    *)
LEMMA StockUpdate ==
  ASSUME TypeOK, NEW evs, StateMachineUpdate(evs)
  PROVE  /\ state' \in State
         /\ soft_disable_timer' \in 0..SoftDisableTime
         /\ enabled' = (state' \in EnabledStates)
         /\ active' = (state' \in ActiveStates)
<1> USE DEF TypeOK, Enter, EnterSoftDisabling, Decremented, State, EnabledStates,
            ActiveStates
<1>1. CASE Disable(evs) BY <1>1 DEF Disable
<1>2. CASE WhenEnabled(evs) BY <1>2 DEF WhenEnabled
<1>3. CASE WhenSoftDisabling(evs) BY <1>3 DEF WhenSoftDisabling
<1>4. CASE WhenPreEnabled(evs) BY <1>4 DEF WhenPreEnabled
<1>5. CASE WhenOverriding(evs) BY <1>5 DEF WhenOverriding
<1>6. CASE WhenDisabled(evs) BY <1>6 DEF WhenDisabled
<1>7. QED BY <1>1, <1>2, <1>3, <1>4, <1>5, <1>6 DEF StateMachineUpdate

(* The same of the MADS machine; while the stock machine is on it also      *)
(* leaves the shared timer alone.                                          *)
LEMMA MadsUpdate ==
  ASSUME TypeOK, MadsStateMachineUpdate
  PROVE  /\ mads_state' \in MadsState
         /\ soft_disable_timer' \in 0..SoftDisableTime
         /\ mads_enabled' = (mads_state' \in EnabledStatesMads)
         /\ mads_active' = (mads_state' \in ActiveStatesMads)
         /\ enabled => soft_disable_timer' = soft_disable_timer
<1> USE DEF TypeOK, MadsEnter, MadsEnterSoftDisabling, MadsState,
            EnabledStatesMads, ActiveStatesMads
<1>1. CASE MadsDisable BY <1>1 DEF MadsDisable
<1>2. CASE MadsWhenEnabled BY <1>2 DEF MadsWhenEnabled
<1>3. CASE MadsWhenSoftDisabling BY <1>3 DEF MadsWhenSoftDisabling
<1>4. CASE MadsWhenPaused BY <1>4 DEF MadsWhenPaused
<1>5. CASE MadsWhenOverriding BY <1>5 DEF MadsWhenOverriding
<1>6. CASE MadsWhenDisabled BY <1>6 DEF MadsWhenDisabled
<1>7. QED BY <1>1, <1>2, <1>3, <1>4, <1>5, <1>6 DEF MadsStateMachineUpdate

-----------------------------------------------------------------------------
(* The inductive invariant.  A machine's flags follow its state; neither    *)
(* machine leaves disabled before initialization ends, nor MADS without its *)
(* toggle; and between the sample that takes a counter to the limit and the *)
(* state machine that must act on it, the mismatch event is on its way.    *)

FlagsFollowState ==
  /\ enabled <=> state \in EnabledStates
  /\ active <=> state \in ActiveStates
  /\ mads_enabled <=> mads_state \in EnabledStatesMads
  /\ mads_active <=> mads_state \in ActiveStatesMads

OffUntilInitialized ==
  /\ ~initialized => state = "disabled" /\ mads_state = "disabled"
  /\ ~mads_toggle => mads_state = "disabled"
  /\ pc = "state_machine" => initialized
  /\ pc = "mads_state_machine" => initialized
  /\ pc \in {"mads_events", "mads_state_machine"} => mads_toggle

MismatchPending ==
  /\ pc \in {"update_events", "state_machine"} =>
       /\ ~enabled => mismatch_counter = 0
  /\ pc = "state_machine" /\ mismatch_counter >= MismatchLimit =>
       "controlsMismatch" \in events
  /\ pc \in {"mads_events", "mads_state_machine", "publish", "data_sample"} /\ enabled =>
       mismatch_counter < MismatchLimit

LateralMismatchPending ==
  /\ pc = "mads_state_machine" /\ lateral_mismatch_counter >= MismatchLimit =>
       "controlsMismatchLateral" \in events_sp
  /\ pc = "publish" /\ mads_active /\ ~enabled =>
       lateral_mismatch_counter < MismatchLimit

IInv ==
  /\ TypeOK
  /\ FlagsFollowState
  /\ SoftDisableTimed
  /\ OffUntilInitialized
  /\ MismatchPending
  /\ LateralMismatchPending

(* selfdrived starts in the invariant. *)
LEMMA InitIInv == Init => IInv
<1> SUFFICES ASSUME Init PROVE IInv
  OBVIOUS
<1> USE DEF Init, StateMachineInit, MadsInit, EnabledStates, ActiveStates,
            EnabledStatesMads, ActiveStatesMads
<1>1. params \in Params /\ params.disengage_on_accelerator \in BOOLEAN
  BY DEF Params
<1>2. CS \in CarState /\ CS_prev \in CarState /\ panda \in Panda
  BY NoCarStateType DEF Panda
<1>3. TypeOK
  <2>1. soft_disable_timer \in 0..SoftDisableTime
    OBVIOUS
  <2>2. /\ mads_disengage_on_accelerator \in BOOLEAN /\ mads_toggle \in BOOLEAN
        /\ steering_mode_on_brake \in SteeringMode
    BY <1>1
  <2>3. QED
    BY <1>1, <1>2, <2>1, <2>2 DEF TypeOK, Calls, State, MadsState
<1>4. FlagsFollowState
  BY DEF FlagsFollowState
<1>5. SoftDisableTimed /\ OffUntilInitialized
  BY DEF SoftDisableTimed, OffUntilInitialized
<1>6. MismatchPending /\ LateralMismatchPending
  BY DEF MismatchPending, LateralMismatchPending
<1>7. QED
  BY <1>3, <1>4, <1>5, <1>6 DEF IInv

(* A controlsMismatch event leaves the stock machine disabled.             *)
LEMMA StockDisengages ==
  ASSUME TypeOK, NEW evs, StateMachineUpdate(evs), "controlsMismatch" \in evs
  PROVE  state' \notin EnabledStates
<1>1. Disabling(evs) /\ Contains(evs, NO_ENTRY)
  BY DEF Disabling, Contains, IMMEDIATE_DISABLE, NO_ENTRY
<1>2. CASE Disable(evs)
  BY <1>2 DEF Disable, Enter, EnabledStates, ActiveStates
<1>3. CASE WhenDisabled(evs)
  BY <1>1, <1>3 DEF WhenDisabled, Enter, EnabledStates, ActiveStates
<1>4. QED
  BY <1>1, <1>2, <1>3
     DEF StateMachineUpdate, WhenEnabled, WhenSoftDisabling, WhenPreEnabled,
         WhenOverriding

(* The same of the MADS machine and the lateral mismatch event. *)
LEMMA MadsDisengages ==
  ASSUME TypeOK, MadsStateMachineUpdate, "controlsMismatchLateral" \in events_sp
  PROVE  mads_state' \notin ActiveStatesMads
<1>1. Disabling(AllEvents) /\ Contains(AllEvents, NO_ENTRY)
  BY DEF Disabling, Contains, IMMEDIATE_DISABLE, NO_ENTRY, AllEvents
<1>2. CASE MadsDisable
  BY <1>2 DEF MadsDisable, MadsEnter, ActiveStatesMads
<1>3. CASE MadsWhenDisabled
  BY <1>1, <1>3 DEF MadsWhenDisabled, MadsEnter, ActiveStatesMads
<1>4. QED
  BY <1>1, <1>2, <1>3
     DEF MadsStateMachineUpdate, MadsWhenEnabled, MadsWhenSoftDisabling,
         MadsWhenPaused, MadsWhenOverriding

(* The stock machine starts the window it enters and leaves it at zero. *)
LEMMA StockTimer ==
  ASSUME TypeOK, SoftDisableTimed, NEW evs, StateMachineUpdate(evs)
  PROVE  SoftDisableTimed'
<1> USE DEF TypeOK, SoftDisableTimed, Enter, EnterSoftDisabling, Decremented
<1>1. CASE Disable(evs) BY <1>1 DEF Disable
<1>2. CASE WhenEnabled(evs) BY <1>2 DEF WhenEnabled
<1>3. CASE WhenSoftDisabling(evs) BY <1>3 DEF WhenSoftDisabling
<1>4. CASE WhenPreEnabled(evs) BY <1>4 DEF WhenPreEnabled
<1>5. CASE WhenOverriding(evs) BY <1>5 DEF WhenOverriding
<1>6. CASE WhenDisabled(evs) BY <1>6 DEF WhenDisabled
<1>7. QED BY <1>1, <1>2, <1>3, <1>4, <1>5, <1>6 DEF StateMachineUpdate

(* Every call of the cycle, and params_thread, preserve the invariant. *)
LEMMA NextIInv == IInv /\ [Next]_vars => IInv'
<1> SUFFICES ASSUME IInv, [Next]_vars PROVE IInv'
  OBVIOUS
<1> USE DEF IInv, Calls
<1>1. CASE DataSample
  <2>1. CS' \in CarState /\ panda' \in Panda
    BY <1>1 DEF DataSample, TypeOK
  <2>2. TypeOK'
    <3>1. mismatch_counter' \in Nat
      BY <1>1 DEF DataSample, TypeOK, MismatchCounter
    <3>2. QED
      BY <1>1, <2>1, <3>1 DEF DataSample, TypeOK, smVars, madsVars, setupVars
  <2>3. MismatchPending'
    BY <1>1 DEF DataSample, TypeOK, MismatchPending, MismatchCounter, smVars
  <2>4. FlagsFollowState' /\ SoftDisableTimed' /\ LateralMismatchPending'
    BY <1>1 DEF DataSample, FlagsFollowState, SoftDisableTimed, LateralMismatchPending,
                smVars, madsVars, setupVars
  <2>5. OffUntilInitialized'
    <3>1. initialized => initialized'
      BY <1>1 DEF DataSample, TypeOK
    <3>2. QED
      BY <1>1, <3>1 DEF DataSample, OffUntilInitialized, smVars, madsVars, setupVars
  <2>6. QED BY <2>2, <2>3, <2>4, <2>5
<1>2. CASE UpdateEvents
  <2> USE <1>2 DEF UpdateEvents, smVars, madsVars, envVars, setupVars
  <2>1. events' \subseteq StockEvent
    BY CollectedType DEF StockEvent
  <2>2. TypeOK'
    BY <2>1 DEF TypeOK
  <2>3. MismatchPending'
    <3>1. CASE ~initialized
      BY <3>1 DEF TypeOK, MismatchPending, OffUntilInitialized, FlagsFollowState,
                  EnabledStates, ActiveStates
    <3>2. CASE initialized
      BY <3>2 DEF TypeOK, MismatchPending, CollectedEvents, Only
    <3>3. QED BY <3>1, <3>2 DEF TypeOK
  <2>4. LateralMismatchPending'
    BY DEF TypeOK, LateralMismatchPending, OffUntilInitialized, FlagsFollowState,
           ActiveStatesMads
  <2>5. FlagsFollowState' /\ SoftDisableTimed' /\ OffUntilInitialized'
    BY DEF TypeOK, FlagsFollowState, SoftDisableTimed, OffUntilInitialized
  <2>6. QED BY <2>2, <2>3, <2>4, <2>5
<1>3. CASE RunStateMachine
  <2> USE <1>3 DEF RunStateMachine, madsVars, envVars, setupVars
  <2>1. TypeOK'
    <3>1. /\ state' \in State
          /\ soft_disable_timer' \in 0..SoftDisableTime
          /\ enabled' = (state' \in EnabledStates)
          /\ active' = (state' \in ActiveStates)
      BY StockUpdate
    <3>2. enabled' \in BOOLEAN /\ active' \in BOOLEAN
      BY <3>1, MembershipIsBoolean, Zenon
    <3>3. pc' \in Calls
      BY DEF TypeOK
    <3>4. QED
      BY <3>1, <3>2, <3>3 DEF TypeOK
  <2>2. FlagsFollowState' /\ OffUntilInitialized'
    BY StockUpdate DEF FlagsFollowState, OffUntilInitialized
  <2>3. SoftDisableTimed'
    BY StockTimer
  <2>4. MismatchPending'
    <3>1. CASE mismatch_counter >= MismatchLimit
      BY <3>1, StockDisengages, StockUpdate DEF MismatchPending
    <3>2. CASE mismatch_counter < MismatchLimit
      BY <3>2 DEF MismatchPending
    <3>3. QED BY <3>1, <3>2 DEF TypeOK
  <2>5. LateralMismatchPending'
    BY DEF LateralMismatchPending, OffUntilInitialized, FlagsFollowState,
           ActiveStatesMads
  <2>6. QED BY <2>1, <2>2, <2>3, <2>4, <2>5
<1>4. CASE RunMadsEvents
  <2> USE <1>4 DEF RunMadsEvents, smVars, madsVars, envVars, setupVars
  <2>1. TypeOK'
    BY MadsEventsType DEF TypeOK
  <2>2. FlagsFollowState' /\ OffUntilInitialized' /\ SoftDisableTimed' /\ MismatchPending'
    BY DEF FlagsFollowState, OffUntilInitialized, SoftDisableTimed, MismatchPending
  <2>3. LateralMismatchPending'
    BY MadsEventsType
       DEF LateralMismatchPending, MadsUpdateEvents, Only, OffUntilInitialized,
           FlagsFollowState, ActiveStatesMads, TypeOK
  <2>4. QED BY <2>1, <2>2, <2>3
<1>5. CASE RunMadsStateMachine
  <2> USE <1>5 DEF RunMadsStateMachine, envVars, setupVars
  <2>1. TypeOK'
    <3>1. /\ mads_state' \in MadsState
          /\ soft_disable_timer' \in 0..SoftDisableTime
          /\ mads_enabled' = (mads_state' \in EnabledStatesMads)
          /\ mads_active' = (mads_state' \in ActiveStatesMads)
      BY MadsUpdate
    <3>2. mads_enabled' \in BOOLEAN /\ mads_active' \in BOOLEAN
      BY <3>1, MembershipIsBoolean, Zenon
    <3>3. QED
      BY <3>1, <3>2 DEF TypeOK
  <2>2. FlagsFollowState' /\ MismatchPending'
    BY MadsUpdate DEF FlagsFollowState, MismatchPending
  <2>3. OffUntilInitialized'
    BY DEF OffUntilInitialized
  <2>4. SoftDisableTimed'
    BY MadsUpdate DEF SoftDisableTimed, FlagsFollowState, EnabledStates, ActiveStates
  <2>5. LateralMismatchPending'
    <3>1. CASE lateral_mismatch_counter >= MismatchLimit
      BY <3>1, MadsDisengages, MadsUpdate DEF LateralMismatchPending
    <3>2. CASE lateral_mismatch_counter < MismatchLimit
      BY <3>2 DEF LateralMismatchPending
    <3>3. QED BY <3>1, <3>2 DEF TypeOK
  <2>6. QED BY <2>1, <2>2, <2>3, <2>4, <2>5
<1>6. CASE Publish
  BY <1>6 DEF Publish, TypeOK, FlagsFollowState, SoftDisableTimed, OffUntilInitialized,
              MismatchPending, LateralMismatchPending, smVars, madsVars, setupVars
<1>7. CASE ParamsThread
  BY <1>7 DEF ParamsThread, TypeOK, FlagsFollowState, SoftDisableTimed,
              OffUntilInitialized, MismatchPending, LateralMismatchPending, smVars,
              madsVars, setupVars
<1>8. CASE UNCHANGED vars
  BY <1>8 DEF vars, TypeOK, FlagsFollowState, SoftDisableTimed, OffUntilInitialized,
              MismatchPending, LateralMismatchPending, smVars, madsVars, envVars, setupVars
<1>9. QED
  BY <1>1, <1>2, <1>3, <1>4, <1>5, <1>6, <1>7, <1>8 DEF Next, Step

-----------------------------------------------------------------------------
(* Every reachable state of selfdrived satisfies the inductive invariant.   *)
THEOREM Invariant == Spec => []IInv
BY InitIInv, NextIInv, PTL DEF Spec

(* The variables of selfdrived and MADS keep their types; in particular the *)
(* shared timer never leaves 0..SoftDisableTime, whichever machine wrote it. *)
THEOREM TypeCorrect == Spec => []TypeOK
<1>1. IInv => TypeOK
  BY DEF IInv
<1>2. QED
  BY <1>1, Invariant, PTL

(* While the stock machine is soft disabling its timer is running: MADS,    *)
(* which writes the same timer, never takes the driver's window away.       *)
THEOREM SoftDisableWindow == Spec => []SoftDisableTimed
<1>1. IInv => SoftDisableTimed
  BY DEF IInv
<1>2. QED
  BY <1>1, Invariant, PTL

(* No cycle ends with a machine in control and its mismatch counter at the  *)
(* limit: a panda that refuses the controls stops openpilot, for every      *)
(* limit.                                                                  *)
THEOREM MismatchSafety == Spec => []MismatchDisengages
<1>1. IInv => MismatchDisengages
  BY DEF IInv, MismatchPending, LateralMismatchPending, MismatchDisengages
<1>2. QED
  BY <1>1, Invariant, PTL
-----------------------------------------------------------------------------
(* The second invariant follows the events through one cycle: what they say *)
(* of the car when update_events has collected them, what the stock machine *)
(* has made of them when MADS reads them, and what is left of them when the *)
(* MADS machine acts.                                                      *)

CarTold(evs) ==
  /\ CS.canTimeout /\ ~CanMuted => "canBusMissing" \in evs
  /\ ~CS.canTimeout /\ ~CS.canValid => "canError" \in evs
  /\ CS.canValid =>
       /\ "doorOpen" \in evs <=> CS.doorOpen
       /\ "seatbeltNotLatched" \in evs <=> CS.seatbeltUnlatched
       /\ "wrongGear" \in evs <=> CS.gear # "drive"
       /\ "reverseGear" \in evs <=> CS.gear = "reverse"
       /\ "brakeHold" \in evs <=> CS.brakeHoldActive
       /\ "parkBrake" \in evs <=> CS.parkingBrake
       /\ ~CS.available => "wrongCarMode" \in evs
       /\ BrakePedal => "pedalPressed" \in evs
  /\ "buttonEnable" \in evs => CS.buttonEnable
  /\ "pcmEnable" \in evs => CS.cruiseEnabled /\ ~CS_prev.cruiseEnabled

StockReacted ==
  /\ "pedalPressed" \in events => ~enabled
  /\ enabled /\ ~enabled_prev =>
       SelfdriveEnableEvents /\ ~Contains(events, NO_ENTRY)

EntryDenied ==
  /\ CanMuted => CS.canValid
  /\ \/ ~CS.canValid \/ CS.canTimeout
     \/ CS.doorOpen \/ CS.seatbeltUnlatched \/ CS.parkingBrake
     \/ CS.gear # "drive"

(* The antecedents of the properties about a MADS that is active. *)
OpenAtRest ==
  /\ mads_active /\ ~enabled
  /\ CS.canValid /\ CS.speed = "standstill" /\ (CS.doorOpen \/ CS.seatbeltUnlatched)

Braked ==
  /\ mads_active
  /\ steering_mode_on_brake # "REMAIN_ACTIVE"
  /\ CS.canValid /\ BrakePedal /\ ~GasRising

Undisturbed ==
  /\ mads_active
  /\ steering_mode_on_brake = "REMAIN_ACTIVE"
  /\ CS.canValid /\ CS.gear = "drive" /\ CS.available
  /\ ~CS.doorOpen /\ ~CS.seatbeltUnlatched /\ ~CS.parkingBrake
  /\ ~CS.brakeHoldActive
  /\ "lkas" \notin CS.buttons

UnifiedEntry ==
  /\ \A p \in ParamValues : p.unified_engagement_mode
  /\ mads_state = "disabled"
  /\ enabled /\ ~enabled_prev

EntryRefused    == EntryDenied => Contains(AllEvents, NO_ENTRY)
OpenPauses      == OpenAtRest => "silentLkasDisable" \in events_sp
BrakeDisables   == Braked => events_sp \cap {"silentLkasDisable", "lkasDisable"} # {}
BrakeKeepsOut   == BrakeHeld => ~Contains(AllEvents, ENABLE)
DriverAsked     == mads_state = "disabled" /\ Contains(AllEvents, ENABLE) => Asked
UnifiedPasses   == UnifiedEntry => /\ Contains(AllEvents, ENABLE)
                                   /\ ~Contains(AllEvents, NO_ENTRY)
NothingDisables == Undisturbed => ~Contains(AllEvents, USER_DISABLE \ {"steerDisengage"})

Rewritten ==
  /\ EntryRefused
  /\ OpenPauses
  /\ BrakeDisables
  /\ BrakeKeepsOut
  /\ DriverAsked
  /\ UnifiedPasses
  /\ NothingDisables

CycleInv ==
  /\ params \in ParamValues
  /\ pc \in {"data_sample", "update_events", "state_machine", "mads_events"} =>
       events_sp = {}
  /\ mads_toggle /\ pc \in {"publish", "data_sample", "update_events", "state_machine"} =>
       (enabled_prev <=> enabled)
  /\ pc \in {"state_machine", "mads_events"} /\ initialized => CarTold(events)
  /\ pc = "mads_events" /\ initialized => StockReacted
  /\ pc = "mads_state_machine" => Rewritten
  /\ DoorPausesSteering

(* What update_events collects tells the truth about the car. *)
LEMMA CollectedTold ==
  ASSUME TypeOK, NEW other \in OtherEvents
  PROVE  CarTold(CollectedEvents(other))
<1> DEFINE evs == CollectedEvents(other)
<1>1. other \subseteq SystemEvent
  OBVIOUS
<1>2. /\ CS.canTimeout /\ ~CanMuted => "canBusMissing" \in evs
      /\ ~CS.canTimeout /\ ~CS.canValid => "canError" \in evs
  BY DEF CollectedEvents, CanEvents, Only
<1>3. CS.canValid =>
        /\ "doorOpen" \in evs <=> CS.doorOpen
        /\ "seatbeltNotLatched" \in evs <=> CS.seatbeltUnlatched
        /\ "wrongGear" \in evs <=> CS.gear # "drive"
        /\ "reverseGear" \in evs <=> CS.gear = "reverse"
        /\ "brakeHold" \in evs <=> CS.brakeHoldActive
        /\ "parkBrake" \in evs <=> CS.parkingBrake
        /\ ~CS.available => "wrongCarMode" \in evs
  BY <1>1 DEF CollectedEvents, CarEvents, CanEvents, Only, SystemEvent
<1>4. CS.canValid /\ BrakePedal => "pedalPressed" \in evs
  BY DEF CollectedEvents, CarEvents, Only, BrakePedal, PedalPressed
<1>5. /\ "buttonEnable" \in evs => CS.buttonEnable
      /\ "pcmEnable" \in evs => CS.cruiseEnabled /\ ~CS_prev.cruiseEnabled
  BY <1>1 DEF CollectedEvents, CarEvents, CanEvents, Only, SystemEvent
<1>6. QED
  BY <1>2, <1>3, <1>4, <1>5 DEF CarTold

(* The stock machine leaves a pressed pedal disengaged, and engages only on *)
(* an enable that nothing forbids.                                         *)
LEMMA StockReaction ==
  ASSUME TypeOK, FlagsFollowState, StateMachineUpdate(events)
  PROVE  /\ "pedalPressed" \in events => ~enabled'
         /\ enabled' /\ ~enabled =>
              SelfdriveEnableEvents /\ ~Contains(events, NO_ENTRY)
<1> USE DEF Enter, EnabledStates, ActiveStates
<1>1. "pedalPressed" \in events => Disabling(events) /\ Contains(events, NO_ENTRY)
  BY DEF Disabling, Contains, USER_DISABLE, NO_ENTRY
<1>2. Contains(events, ENABLE) => SelfdriveEnableEvents
  BY DEF TypeOK, StockEvent, Contains, ENABLE, SelfdriveEnableEvents
<1>3. CASE Disable(events)
  BY <1>3 DEF Disable
<1>4. CASE WhenDisabled(events)
  <2>1. CASE ~Contains(events, ENABLE) \/ Contains(events, NO_ENTRY)
    <3>1. Enter("disabled")
      BY <1>4, <2>1 DEF WhenDisabled
    <3>2. QED
      BY <3>1
  <2>2. CASE Contains(events, ENABLE) /\ ~Contains(events, NO_ENTRY)
    BY <1>1, <1>2, <2>2
  <2>3. QED
    BY <2>1, <2>2
<1>5. CASE \/ WhenEnabled(events) \/ WhenSoftDisabling(events)
           \/ WhenPreEnabled(events) \/ WhenOverriding(events)
  <2>1. state \in EnabledStates /\ ~Disabling(events)
    BY <1>5 DEF WhenEnabled, WhenSoftDisabling, WhenPreEnabled, WhenOverriding
  <2>2. QED
    BY <1>1, <2>1 DEF FlagsFollowState
<1>6. QED
  BY <1>3, <1>4, <1>5 DEF StateMachineUpdate

(* A gear, door, belt or brake event that MADS takes away leaves its silent *)
(* twin, which forbids entry as well; the other events that speak of the    *)
(* car stay.                                                               *)
LEMMA TwinForbids ==
  ASSUME TypeOK, MadsUpdateEvents, NEW e \in events,
         e \in DOMAIN SilentOf, e # "brakeHold"
  PROVE  Contains(AllEvents', NO_ENTRY)
<1>1. e \in NO_ENTRY /\ SilentOf[e] \in NO_ENTRY
  <2>1. e \in {"doorOpen", "seatbeltNotLatched", "wrongGear", "reverseGear",
               "brakeHold", "parkBrake"} \ {"brakeHold"}
    BY DEF SilentOf
  <2>2. QED
    BY <2>1 DEF SilentOf, NO_ENTRY, SilentGears
<1>2. e \in Replaced => SilentOf[e] \in events_sp'
  BY DEF MadsUpdateEvents, SilentEvents
<1>3. e \notin Replaced => e \in events'
  BY DEF MadsUpdateEvents, StockEventsRemoved, CruiseEvents, Suppressed, Only, SilentOf
<1>4. QED
  BY <1>1, <1>2, <1>3 DEF Contains, AllEvents
(* MADS rewrites the events of a cycle without losing what they promise.    *)
LEMMA RewriteKeeps ==
  ASSUME TypeOK, FlagsFollowState, OffUntilInitialized, CycleInv,
         RunMadsEvents, initialized
  PROVE  Rewritten'
<1> USE DEF RunMadsEvents, madsVars, smVars, envVars, setupVars
<1>1. CarTold(events) /\ StockReacted /\ events_sp = {}
  BY DEF CycleInv
<1>2. MadsUpdateEvents
  OBVIOUS
<1>3. events \subseteq StockEvent /\ events' \subseteq events
  BY <1>2 DEF TypeOK, MadsUpdateEvents
<1>4. EntryRefused'
  <2> SUFFICES ASSUME EntryDenied PROVE Contains(AllEvents', NO_ENTRY)
    BY DEF EntryRefused, EntryDenied, CanMuted
  <2>1. CASE ~CS.canValid \/ (CS.canTimeout /\ ~CanMuted)
    <3>1. {"canError", "canBusMissing"} \cap events # {}
      BY <1>1, <2>1 DEF CarTold, EntryDenied
    <3>2. {"canError", "canBusMissing"} \cap events' # {}
      BY <1>2, <3>1 DEF MadsUpdateEvents, StockEventsRemoved, CruiseEvents,
                        Replaced, Suppressed, Only, SilentOf
    <3>3. QED
      BY <3>2 DEF Contains, AllEvents, NO_ENTRY
  <2>2. CASE CS.canValid /\ (CS.canTimeout => CanMuted)
    <3>1. PICK e \in events : e \in {"doorOpen", "seatbeltNotLatched", "parkBrake", "wrongGear"}
      BY <1>1, <2>2 DEF CarTold, EntryDenied, CanMuted
    <3>2. e \in DOMAIN SilentOf /\ e # "brakeHold"
      BY <3>1 DEF SilentOf
    <3>3. QED
      BY <1>2, <3>2, TwinForbids
  <2>3. QED
    BY <2>1, <2>2
<1>5. OpenPauses'
  <2> SUFFICES ASSUME OpenAtRest PROVE "silentLkasDisable" \in events_sp'
    BY DEF OpenPauses, OpenAtRest
  <2>1. mads_enabled /\ mads_state # "paused"
    BY DEF OpenAtRest, FlagsFollowState, EnabledStatesMads, ActiveStatesMads
  <2>2. Replaced # {}
    <3>1. PICK e \in events : e \in {"doorOpen", "seatbeltNotLatched"}
      BY <1>1 DEF CarTold, OpenAtRest
    <3>2. e \in Replaced
      BY <2>1, <3>1 DEF Replaced, SteersAlone, OpenAtRest, SilentOf
    <3>3. QED
      BY <3>2
  <2>3. TransitionPaused
    BY <2>1, <2>2 DEF TransitionPaused
  <2>4. QED
    BY <1>2, <2>3 DEF MadsUpdateEvents, SilentEvents, Only
<1>6. BrakeDisables'
  <2> SUFFICES ASSUME Braked
               PROVE  events_sp' \cap {"silentLkasDisable", "lkasDisable"} # {}
    BY DEF BrakeDisables, Braked, BrakePedal, GasRising
  <2>1. PedalPressedNonGasPressed /\ SteersAlone /\ mads_state # "paused"
    BY <1>1 DEF Braked, CarTold, StockReacted, PedalPressedNonGasPressed, SteersAlone,
                FlagsFollowState, EnabledStatesMads, ActiveStatesMads
  <2>2. CASE steering_mode_on_brake = "PAUSE"
    <3>1. TransitionPaused
      BY <2>1, <2>2 DEF TransitionPaused
    <3>2. QED
      BY <1>2, <3>1 DEF MadsUpdateEvents, SilentEvents, Only
  <2>3. CASE steering_mode_on_brake = "DISENGAGE"
    <3>1. LkasDisable
      BY <2>1, <2>3 DEF LkasDisable, SteersAlone
    <3>2. QED
      BY <1>2, <3>1 DEF MadsUpdateEvents, RequestEvents, Only
  <2>4. QED
    BY <2>2, <2>3 DEF Braked, TypeOK, SteeringMode
<1>7. BrakeKeepsOut'
  <2> SUFFICES ASSUME BrakeHeld PROVE ~Contains(AllEvents', ENABLE)
    BY DEF BrakeKeepsOut, BrakeHeld, AvailableRising
  <2>1. mads_enabled
    BY DEF BrakeHeld, FlagsFollowState, EnabledStatesMads
  <2>2. events' \cap ENABLE = {}
    BY <1>2, <1>3, <2>1
       DEF MadsUpdateEvents, StockEventsRemoved, BlockUnifiedEngagementMode,
           SelfdriveEnableEvents, ENABLE, StockEvent
  <2>3. ~LkasEnable /\ ~SilentLkasEnable(SilentEvents)
    BY <2>1 DEF BrakeHeld, LkasEnable, SilentLkasEnable, ShouldSilentLkasEnable
  <2>4. SilentEvents \cap ENABLE = {}
    BY <1>1 DEF SilentEvents, SilentOf, Replaced, Only, ENABLE
  <2>5. events_sp' \cap ENABLE = {}
    BY <1>2, <2>3, <2>4 DEF MadsUpdateEvents, RequestEvents, AlertOnlyEvents, Only, ENABLE
  <2>6. QED
    BY <2>2, <2>5 DEF Contains, AllEvents
<1>8. DriverAsked'
  <2> SUFFICES ASSUME mads_state = "disabled", Contains(AllEvents', ENABLE) PROVE Asked
    BY DEF DriverAsked, Asked, LkasPressed, AvailableRising
  <2>1. events' \cap ENABLE \subseteq events \cap {"buttonEnable", "pcmEnable"}
    BY <1>3 DEF ENABLE, StockEvent
  <2>2. SilentEvents \cap ENABLE = {}
    BY <1>1 DEF SilentEvents, SilentOf, Replaced, Only, ENABLE
  <2>3. events_sp' \cap ENABLE # {} => LkasEnable
    BY <1>2, <2>2
       DEF MadsUpdateEvents, RequestEvents, AlertOnlyEvents, SilentLkasEnable, Only, ENABLE
  <2>4. QED
    BY <1>1, <2>1, <2>3 DEF Contains, AllEvents, CarTold, Asked, LkasEnable
<1>9. UnifiedPasses'
  <2> SUFFICES ASSUME UnifiedEntry, enabled_prev' = enabled_prev
               PROVE  /\ Contains(AllEvents', ENABLE)
                      /\ ~Contains(AllEvents', NO_ENTRY)
    BY DEF UnifiedPasses, UnifiedEntry
  <2>1. SelfdriveEnableEvents /\ ~Contains(events, NO_ENTRY)
    BY <1>1 DEF StockReacted, UnifiedEntry
  <2>2. ~mads_enabled /\ ~mads_active
    BY DEF UnifiedEntry, FlagsFollowState, EnabledStatesMads, ActiveStatesMads
  <2>3. Replaced = {} /\ Suppressed = {}
    BY <2>2 DEF Replaced, Suppressed, SteersAlone
  <2>4. ~BlockUnifiedEngagementMode
    BY <2>2 DEF BlockUnifiedEngagementMode, UnifiedEntry, CycleInv
  <2>5. CS.available
    BY <1>1, <2>1, <2>2 DEF CarTold, CanMuted, Contains, NO_ENTRY
  <2>6. Contains(AllEvents', ENABLE)
    <3>1. PICK e \in events : e \in {"pcmEnable", "buttonEnable"}
      BY <2>1 DEF SelfdriveEnableEvents
    <3>2. e \in events'
      BY <1>2, <2>3, <2>4, <2>5, <3>1 DEF MadsUpdateEvents, StockEventsRemoved, CruiseEvents, Only
    <3>3. QED
      BY <3>1, <3>2 DEF Contains, AllEvents, ENABLE
  <2>7. lateral_mismatch_counter' = 0
    BY <1>2, <2>2 DEF MadsUpdateEvents, LateralMismatchCounter
  <2>8. SilentEvents \cap NO_ENTRY = {}
    BY <1>1, <2>3 DEF SilentEvents, Only, NO_ENTRY, SilentGears
  <2>9. events_sp' \cap NO_ENTRY = {}
    BY <1>2, <2>7, <2>8
       DEF MadsUpdateEvents, RequestEvents, AlertOnlyEvents, Only, NO_ENTRY, SilentGears
  <2>10. QED
    BY <1>3, <2>1, <2>6, <2>9 DEF Contains, AllEvents
<1>10. NothingDisables'
  <2> SUFFICES ASSUME Undisturbed
               PROVE  ~Contains(AllEvents', USER_DISABLE \ {"steerDisengage"})
    BY DEF NothingDisables, Undisturbed
  <2>1. events \cap DOMAIN SilentOf = {}
    BY <1>1 DEF Undisturbed, CarTold, SilentOf
  <2>2. events' \cap USER_DISABLE \subseteq {"steerDisengage"}
    BY <1>2, <1>3, <2>1
       DEF MadsUpdateEvents, StockEventsRemoved, CruiseEvents, USER_DISABLE, StockEvent, SilentOf
  <2>3. Replaced = {} /\ ~TransitionPaused
    BY <2>1 DEF Replaced, TransitionPaused, Undisturbed
  <2>4. ~LkasPressed /\ ~LkasDisable
    BY DEF LkasPressed, LkasDisable, AvailableFalling, Undisturbed
  <2>5. SilentEvents = {}
    BY <1>1, <2>3 DEF SilentEvents, Only
  <2>6. events_sp' \cap USER_DISABLE = {}
    BY <1>2, <2>4, <2>5
       DEF MadsUpdateEvents, RequestEvents, AlertOnlyEvents, Only, USER_DISABLE
  <2>7. QED
    BY <2>2, <2>6 DEF Contains, AllEvents
<1>11. QED
  BY <1>4, <1>5, <1>6, <1>7, <1>8, <1>9, <1>10 DEF Rewritten
(* What the MADS machine does with the events that reach it.                *)
LEMMA MadsReaction ==
  ASSUME TypeOK, FlagsFollowState, MadsStateMachineUpdate
  PROVE  /\ mads_active /\ Disabling(AllEvents) => ~mads_active'
         /\ ~mads_active /\ mads_active' =>
              Contains(AllEvents, ENABLE) /\ ~Contains(AllEvents, NO_ENTRY)
         /\ mads_state = "disabled" /\ mads_state' # "disabled" =>
              Contains(AllEvents, ENABLE)
         /\ /\ mads_state = "disabled"
            /\ Contains(AllEvents, ENABLE) /\ ~Contains(AllEvents, NO_ENTRY)
            => mads_active'
         /\ /\ mads_active
            /\ ~Disabling(AllEvents) /\ ~Contains(AllEvents, SOFT_DISABLE)
            => mads_active'
<1> USE DEF FlagsFollowState, MadsEnter, EnabledStatesMads, ActiveStatesMads
<1>1. CASE MadsDisable
  BY <1>1 DEF MadsDisable
<1>2. CASE MadsWhenEnabled
  BY <1>2 DEF MadsWhenEnabled, MadsEnterSoftDisabling
<1>3. CASE MadsWhenSoftDisabling
  BY <1>3 DEF MadsWhenSoftDisabling
<1>4. CASE MadsWhenPaused
  <2>1. mads_state = "paused" /\ ~mads_active
    BY <1>4 DEF MadsWhenPaused
  <2>2. CASE ~Contains(AllEvents, ENABLE) \/ Contains(AllEvents, NO_ENTRY)
    <3>1. MadsEnter("paused")
      BY <1>4, <2>2 DEF MadsWhenPaused
    <3>2. QED
      BY <2>1, <3>1
  <2>3. QED
    BY <2>1, <2>2
<1>5. CASE MadsWhenOverriding
  BY <1>5 DEF MadsWhenOverriding, MadsEnterSoftDisabling
<1>6. CASE MadsWhenDisabled
  <2>1. mads_state = "disabled" /\ ~mads_active
    BY <1>6 DEF MadsWhenDisabled
  <2>2. CASE ~Contains(AllEvents, ENABLE)
    <3>1. MadsEnter("disabled")
      BY <1>6, <2>2 DEF MadsWhenDisabled
    <3>2. QED
      BY <2>1, <2>2, <3>1
  <2>3. CASE Contains(AllEvents, ENABLE) /\ Contains(AllEvents, NO_ENTRY)
    <3>1. MadsEnter("paused") \/ MadsEnter("disabled")
      BY <1>6, <2>3 DEF MadsWhenDisabled
    <3>2. ~mads_active'
      BY <3>1
    <3>3. QED
      BY <2>1, <2>3, <3>2
  <2>4. CASE Contains(AllEvents, ENABLE) /\ ~Contains(AllEvents, NO_ENTRY)
    <3>1. MadsEnter("overriding") \/ MadsEnter("enabled")
      BY <1>6, <2>4 DEF MadsWhenDisabled
    <3>2. mads_active'
      BY <3>1
    <3>3. QED
      BY <2>1, <2>4, <3>2
  <2>5. QED
    BY <2>2, <2>3, <2>4
<1>7. QED
  BY <1>1, <1>2, <1>3, <1>4, <1>5, <1>6 DEF MadsStateMachineUpdate

(* selfdrived starts in the second invariant. *)
LEMMA InitCycleInv == Init => CycleInv
BY DEF Init, MadsInit, StateMachineInit, CycleInv, DoorPausesSteering

(* A cycle ends with no car steered by MADS alone at rest with a door or a  *)
(* belt open.                                                              *)
LEMMA SettledDoor ==
  ASSUME IInv, CycleInv, RunMadsStateMachine
  PROVE  DoorPausesSteering'
<1> USE DEF RunMadsStateMachine, envVars, setupVars
<1>1. Rewritten /\ TypeOK /\ FlagsFollowState /\ MadsStateMachineUpdate
  BY DEF CycleInv, IInv
<1> SUFFICES ASSUME CS.canValid, ~enabled, CS.speed = "standstill",
                    CS.doorOpen \/ CS.seatbeltUnlatched
             PROVE  ~mads_active'
  BY DEF DoorPausesSteering
<1>2. CASE mads_active
  <2>1. "silentLkasDisable" \in events_sp
    BY <1>1, <1>2 DEF Rewritten, OpenPauses, OpenAtRest
  <2>2. Disabling(AllEvents)
    BY <2>1 DEF Disabling, Contains, AllEvents, USER_DISABLE
  <2>3. QED
    BY <1>1, <1>2, <2>2, MadsReaction
<1>3. CASE ~mads_active
  <2>1. Contains(AllEvents, NO_ENTRY)
    BY <1>1 DEF Rewritten, EntryRefused, EntryDenied
  <2>2. QED
    BY <1>1, <1>3, <2>1, MadsReaction
<1>4. QED
  BY <1>2, <1>3
(* Every call of the cycle, and params_thread, preserve the second          *)
(* invariant.                                                              *)
LEMMA NextCycleInv == IInv /\ CycleInv /\ [Next]_vars => CycleInv'
<1> SUFFICES ASSUME IInv, CycleInv, [Next]_vars PROVE CycleInv'
  OBVIOUS
<1>0. TypeOK /\ FlagsFollowState /\ OffUntilInitialized
  BY DEF IInv
<1>1. CASE DataSample
  <2>1. UNCHANGED <<params, events_sp, enabled_prev, enabled, mads_toggle>>
    BY <1>1 DEF DataSample, smVars, setupVars
  <2>2. QED
    BY <1>1, <2>1 DEF DataSample, CycleInv, DoorPausesSteering
<1>2. CASE UpdateEvents
  <2> USE <1>2 DEF UpdateEvents, smVars, madsVars, envVars, setupVars
  <2>1. CASE ~initialized
    BY <2>1 DEF CycleInv, DoorPausesSteering
  <2>2. CASE initialized
    <3>1. pc' = "state_machine"
      BY <2>2
    <3>2. CarTold(events)'
      <4>1. PICK other \in OtherEvents : events' = CollectedEvents(other)
        BY <2>2
      <4>2. CarTold(events')
        BY <1>0, <4>1, CollectedTold
      <4>3. QED
        BY <4>2 DEF CarTold, CanMuted, BrakePedal
    <3>3. QED
      BY <3>1, <3>2 DEF CycleInv, DoorPausesSteering
  <2>3. QED
    BY <1>0, <2>1, <2>2 DEF TypeOK
<1>3. CASE RunStateMachine
  <2> USE <1>3 DEF RunStateMachine, madsVars, envVars, setupVars
  <2>1. /\ "pedalPressed" \in events => ~enabled'
        /\ enabled' /\ ~enabled =>
             SelfdriveEnableEvents /\ ~Contains(events, NO_ENTRY)
    BY <1>0, StockReaction
  <2>2. initialized /\ CarTold(events)
    BY <1>0 DEF CycleInv, OffUntilInitialized
  <2>3. CarTold(events)'
    BY <2>2 DEF CarTold, CanMuted, BrakePedal
  <2>4. CASE mads_toggle
    <3>1. StockReacted'
      BY <2>1, <2>4 DEF CycleInv, StockReacted, SelfdriveEnableEvents
    <3>2. QED
      BY <2>3, <2>4, <3>1 DEF CycleInv, DoorPausesSteering
  <2>5. CASE ~mads_toggle
    <3>1. ~mads_active'
      BY <1>0, <2>5 DEF OffUntilInitialized, FlagsFollowState, ActiveStatesMads
    <3>2. QED
      BY <2>5, <3>1 DEF CycleInv, DoorPausesSteering
  <2>6. QED
    BY <2>4, <2>5
<1>4. CASE RunMadsEvents
  <2> USE <1>4 DEF RunMadsEvents, smVars, madsVars, envVars, setupVars
  <2>1. CASE initialized
    <3>1. Rewritten'
      BY <1>0, <2>1, RewriteKeeps
    <3>2. QED
      BY <2>1, <3>1 DEF CycleInv, DoorPausesSteering
  <2>2. CASE ~initialized
    BY <2>2 DEF CycleInv, DoorPausesSteering
  <2>3. QED
    BY <1>0, <2>1, <2>2 DEF TypeOK
<1>5. CASE RunMadsStateMachine
  <2>1. DoorPausesSteering'
    BY <1>5, SettledDoor
  <2>2. QED
    BY <1>5, <2>1 DEF RunMadsStateMachine, CycleInv, envVars
<1>6. CASE Publish
  <2>1. mads_toggle => (enabled_prev <=> enabled)
    BY <1>6 DEF Publish, CycleInv
  <2>2. QED
    BY <1>6, <2>1 DEF Publish, CycleInv, DoorPausesSteering, smVars, setupVars
<1>7. CASE ParamsThread
  <2> USE <1>7 DEF ParamsThread, smVars, madsVars, setupVars
  <2>1. CarTold(events) => CarTold(events)'
    BY DEF CarTold, CanMuted, BrakePedal
  <2>2. StockReacted => StockReacted'
    BY DEF StockReacted, SelfdriveEnableEvents
  <2>3. Rewritten => Rewritten'
    BY DEF Rewritten, EntryRefused, EntryDenied, CanMuted, OpenPauses, OpenAtRest, BrakeDisables,
           Braked, BrakePedal, GasRising, BrakeKeepsOut, BrakeHeld, DriverAsked, Asked,
           LkasPressed, AvailableRising, UnifiedPasses, UnifiedEntry, NothingDisables,
           Undisturbed, AllEvents
  <2>4. QED
    BY <2>1, <2>2, <2>3 DEF CycleInv, DoorPausesSteering
<1>8. CASE UNCHANGED vars
  <2> USE <1>8 DEF vars, smVars, madsVars, envVars, setupVars
  <2>1. CarTold(events) => CarTold(events)'
    BY DEF CarTold, CanMuted, BrakePedal
  <2>2. StockReacted => StockReacted'
    BY DEF StockReacted, SelfdriveEnableEvents
  <2>3. Rewritten => Rewritten'
    BY DEF Rewritten, EntryRefused, EntryDenied, CanMuted, OpenPauses, OpenAtRest, BrakeDisables,
           Braked, BrakePedal, GasRising, BrakeKeepsOut, BrakeHeld, DriverAsked, Asked,
           LkasPressed, AvailableRising, UnifiedPasses, UnifiedEntry, NothingDisables,
           Undisturbed, AllEvents
  <2>4. QED
    BY <2>1, <2>2, <2>3 DEF CycleInv, DoorPausesSteering
<1>9. QED
  BY <1>1, <1>2, <1>3, <1>4, <1>5, <1>6, <1>7, <1>8 DEF Next, Step

(* Only the MADS machine writes the state of MADS and settles the cycle. *)
LEMMA OnlyMadsMoves ==
  ASSUME [Next]_vars, ~RunMadsStateMachine
  PROVE  UNCHANGED madsVars /\ ~MadsSettles
BY DEF Next, Step, vars, DataSample, UpdateEvents, RunStateMachine, RunMadsEvents,
       Publish, ParamsThread, MadsSettles
-----------------------------------------------------------------------------
(* Every reachable state satisfies the second invariant. *)
THEOREM CycleInvariant == Spec => [](IInv /\ CycleInv)
<1>1. Init => IInv /\ CycleInv
  BY InitIInv, InitCycleInv
<1>2. IInv /\ CycleInv /\ [Next]_vars => (IInv /\ CycleInv)'
  BY NextIInv, NextCycleInv
<1>3. QED
  BY <1>1, <1>2, PTL DEF Spec

(* At the end of a cycle a car that stands with a door or a belt open is    *)
(* not steered by MADS alone, whatever raised the other events (mads.py:    *)
(* 120-127, mads/state.py:50-63).                                          *)
THEOREM DoorSafety == Spec => []DoorPausesSteering
<1>1. CycleInv => DoorPausesSteering
  BY DEF CycleInv
<1>2. QED
  BY <1>1, CycleInvariant, PTL

(* Steering starts only in a cycle whose car allows it: the silent twins    *)
(* MADS puts in the place of the stock events forbid entry as the stock     *)
(* events do (mads.py:120-139, mads/state.py:89-120).  What is left out is  *)
(* a time-out of the CAN bus in Park, which says nothing to a paused MADS   *)
(* (selfdrived.py:452-453).                                                *)
THEOREM EntrySafety == Spec => EntryChecked
<1>1. ASSUME IInv, CycleInv, [Next]_vars
      PROVE  [~mads_active /\ mads_active' =>
                \/ CanMuted /\ ~CS.canValid /\ mads_state = "paused"
                \/ /\ CS.canValid /\ ~CS.canTimeout
                   /\ ~CS.doorOpen /\ ~CS.seatbeltUnlatched /\ ~CS.parkingBrake
                   /\ CS.gear = "drive"]_vars
  <2>1. CASE RunMadsStateMachine
    <3>1. EntryRefused /\ TypeOK /\ FlagsFollowState /\ MadsStateMachineUpdate
      BY <1>1, <2>1 DEF RunMadsStateMachine, CycleInv, Rewritten, IInv
    <3>2. QED
      BY <3>1, MadsReaction
         DEF EntryRefused, EntryDenied, CanMuted, TypeOK, FlagsFollowState,
             EnabledStatesMads, ActiveStatesMads
  <2>2. CASE ~RunMadsStateMachine
    BY <1>1, <2>2, OnlyMadsMoves DEF madsVars
  <2>3. QED
    BY <2>1, <2>2
<1>2. QED
  BY <1>1, CycleInvariant, PTL DEF Spec, EntryChecked

(* A MADS that is off is turned on by the driver alone, and where the       *)
(* engagements are unified it is engaged in the very cycle that engages the *)
(* cruise (mads.py:80-91, 152-200).                                        *)
THEOREM DriverDecides == Spec => DriverTurnsOn
<1>1. ASSUME IInv, CycleInv, [Next]_vars
      PROVE  [mads_state = "disabled" => /\ mads_state' # "disabled" => Asked
                                         /\ Unified => mads_active']_vars
  <2>1. CASE RunMadsStateMachine
    <3>1. /\ DriverAsked /\ UnifiedPasses
          /\ TypeOK /\ FlagsFollowState /\ MadsStateMachineUpdate
      BY <1>1, <2>1 DEF RunMadsStateMachine, CycleInv, Rewritten, IInv
    <3>2. QED
      BY <3>1, MadsReaction DEF DriverAsked, UnifiedPasses, Unified, UnifiedEntry
  <2>2. CASE ~RunMadsStateMachine
    BY <1>1, <2>2, OnlyMadsMoves DEF madsVars, Unified
  <2>3. QED
    BY <2>1, <2>2
<1>2. QED
  BY <1>1, CycleInvariant, PTL DEF Spec, DriverTurnsOn

(* In the PAUSE and DISENGAGE modes a brake press takes the steering away   *)
(* in its cycle, and a held brake keeps it away until the cruise main       *)
(* switch is pressed (mads.py:64-78, 141-143, 188-200).                    *)
THEOREM BrakeSafety == Spec => BrakeStopsSteering
<1>1. ASSUME IInv, CycleInv, [Next]_vars
      PROVE  [BrakePress \/ BrakeHeld => ~mads_active']_vars
  <2>1. CASE RunMadsStateMachine
    <3>1. /\ BrakeDisables /\ BrakeKeepsOut
          /\ TypeOK /\ FlagsFollowState /\ MadsStateMachineUpdate
      BY <1>1, <2>1 DEF RunMadsStateMachine, CycleInv, Rewritten, IInv
    <3>2. CASE BrakePress
      <4>1. Disabling(AllEvents) /\ mads_active
        BY <3>1, <3>2
           DEF BrakePress, BrakeDisables, Braked, Disabling, Contains, AllEvents,
               USER_DISABLE
      <4>2. QED
        BY <3>1, <4>1, MadsReaction
    <3>3. CASE BrakeHeld
      <4>1. ~mads_active /\ ~Contains(AllEvents, ENABLE)
        BY <3>1, <3>3 DEF BrakeHeld, BrakeKeepsOut, FlagsFollowState, ActiveStatesMads
      <4>2. QED
        BY <3>1, <4>1, MadsReaction
    <3>4. QED
      BY <3>2, <3>3
  <2>2. CASE ~RunMadsStateMachine
    <3>1. BrakeHeld => ~mads_active
      BY <1>1 DEF IInv, BrakeHeld, FlagsFollowState, ActiveStatesMads
    <3>2. QED
      BY <1>1, <2>2, <3>1, OnlyMadsMoves DEF madsVars, BrakePress
  <2>3. QED
    BY <2>1, <2>2
<1>2. QED
  BY <1>1, CycleInvariant, PTL DEF Spec, BrakeStopsSteering

(* In the REMAIN_ACTIVE mode the end of the cruise, by cancel or by brake,  *)
(* leaves the steering alone (mads.py:205-208).                            *)
THEOREM SteeringStays == Spec => SteeringOutlivesCruise
<1> DEFINE Quiet ==
      /\ MadsSettles
      /\ mads_active
      /\ steering_mode_on_brake = "REMAIN_ACTIVE"
      /\ CS.canValid /\ CS.gear = "drive" /\ CS.available
      /\ ~CS.doorOpen /\ ~CS.seatbeltUnlatched /\ ~CS.parkingBrake
      /\ ~CS.brakeHoldActive
      /\ "lkas" \notin CS.buttons
      /\ ~Contains(events, {"steerDisengage"} \cup SOFT_DISABLE \cup IMMEDIATE_DISABLE)
      /\ "controlsMismatchLateral" \notin events_sp
<1>1. ASSUME IInv, CycleInv, [Next]_vars
      PROVE  [Quiet => mads_active']_vars
  <2>1. CASE RunMadsStateMachine
    <3>1. /\ NothingDisables
          /\ TypeOK /\ FlagsFollowState /\ MadsStateMachineUpdate
      BY <1>1, <2>1 DEF RunMadsStateMachine, CycleInv, Rewritten, IInv
    <3> SUFFICES ASSUME Quiet PROVE mads_active'
      OBVIOUS
    <3>2. ~Contains(AllEvents, USER_DISABLE)
      BY <3>1 DEF NothingDisables, Undisturbed, Contains, AllEvents, TypeOK, EventSP,
                  SilentGears
    <3>3. ~Contains(AllEvents, IMMEDIATE_DISABLE) /\ ~Contains(AllEvents, SOFT_DISABLE)
      BY <3>1 DEF Contains, AllEvents, TypeOK, EventSP, SilentGears, IMMEDIATE_DISABLE,
                  SOFT_DISABLE
    <3>4. QED
      BY <3>1, <3>2, <3>3, MadsReaction DEF Disabling
  <2>2. CASE ~RunMadsStateMachine
    BY <1>1, <2>2, OnlyMadsMoves
  <2>3. QED
    BY <2>1, <2>2
<1>2. QED
  BY <1>1, CycleInvariant, PTL DEF Spec, SteeringOutlivesCruise
-----------------------------------------------------------------------------
(* The third invariant: how the two machines share the soft-disable window. *)
(* Between two runs of the stock machine a MADS that could still begin to   *)
(* soft disable leaves it none that is under way; and when MADS acts, a     *)
(* stock machine that is soft disabling has the event that says so in the   *)
(* list MADS reads, and has only just begun if MADS may begin now.          *)
MayBegin == mads_state \in {"enabled", "overriding"}

SharedWindow ==
  /\ pc \in {"publish", "data_sample", "update_events", "state_machine"} =>
       ~(state = "softDisabling" /\ MayBegin)
  /\ pc \in {"mads_events", "mads_state_machine"} =>
       /\ state = "softDisabling" =>
            /\ Contains(events, SOFT_DISABLE)
            /\ MayBegin => soft_disable_timer = SoftDisableTime
       /\ state = "overriding" => ~Contains(events, SOFT_DISABLE)

(* What a run of the stock machine leaves of the window: it begins, whole,  *)
(* on an event, and stays on one with a cycle less; an overriding machine   *)
(* heard no such event.                                                    *)
LEMMA StockWindow ==
  ASSUME TypeOK, SoftDisableTimed, NEW evs, StateMachineUpdate(evs)
  PROVE  /\ state' = "softDisabling" => Contains(evs, SOFT_DISABLE)
         /\ state' = "softDisabling" /\ state # "softDisabling" =>
              soft_disable_timer' = SoftDisableTime
         /\ state' = "softDisabling" /\ state = "softDisabling" =>
              soft_disable_timer' = soft_disable_timer - 1
         /\ state' = "overriding" => ~Contains(evs, SOFT_DISABLE)
<1> USE DEF Enter, EnterSoftDisabling
<1>1. CASE Disable(evs)
  BY <1>1 DEF Disable
<1>2. CASE WhenEnabled(evs)
  BY <1>2 DEF WhenEnabled
<1>3. CASE WhenSoftDisabling(evs)
  <2>1. soft_disable_timer' = soft_disable_timer - 1
    BY <1>3 DEF WhenSoftDisabling, Decremented, SoftDisableTimed
  <2> QED
    BY <1>3, <2>1 DEF WhenSoftDisabling
<1>4. CASE WhenPreEnabled(evs)
  BY <1>4 DEF WhenPreEnabled
<1>5. CASE WhenOverriding(evs)
  BY <1>5 DEF WhenOverriding
<1>6. CASE WhenDisabled(evs)
  <2>1. Contains(evs, SOFT_DISABLE) => Contains(evs, NO_ENTRY)
    BY DEF Contains, SOFT_DISABLE, NO_ENTRY
  <2>2. CASE ~Contains(evs, ENABLE) \/ Contains(evs, NO_ENTRY)
    <3>1. Enter("disabled")
      BY <1>6, <2>2 DEF WhenDisabled
    <3> QED
      BY <3>1
  <2>3. CASE Contains(evs, ENABLE) /\ ~Contains(evs, NO_ENTRY)
    <3>1. Enter("preEnabled") \/ Enter("overriding") \/ Enter("enabled")
      BY <1>6, <2>3 DEF WhenDisabled
    <3> QED
      BY <2>1, <2>3, <3>1
  <2> QED
    BY <2>2, <2>3
<1> QED
  BY <1>1, <1>2, <1>3, <1>4, <1>5, <1>6 DEF StateMachineUpdate

(* What the MADS machine does in a cycle with a SOFT_DISABLE event, and     *)
(* when it begins to soft disable.                                         *)
LEMMA MadsWindow ==
  ASSUME TypeOK, MadsStateMachineUpdate
  PROVE  /\ Contains(AllEvents, SOFT_DISABLE) /\ soft_disable_timer > 0 =>
              mads_state' \notin {"enabled", "overriding"}
         /\ mads_state # "softDisabling" /\ mads_state' = "softDisabling" =>
              /\ MayBegin /\ Contains(AllEvents, SOFT_DISABLE)
              /\ ~enabled => soft_disable_timer' = SoftDisableTime
<1> USE DEF MadsEnter, MadsEnterSoftDisabling, MayBegin
<1>1. Contains(AllEvents, SOFT_DISABLE) => Contains(AllEvents, NO_ENTRY)
  BY DEF Contains, SOFT_DISABLE, NO_ENTRY
<1>2. CASE MadsDisable
  BY <1>2 DEF MadsDisable
<1>3. CASE MadsWhenEnabled
  BY <1>3 DEF MadsWhenEnabled
<1>4. CASE MadsWhenSoftDisabling
  BY <1>4 DEF MadsWhenSoftDisabling
<1>5. CASE MadsWhenPaused
  <2>1. Contains(AllEvents, NO_ENTRY) => MadsEnter("paused")
    BY <1>5 DEF MadsWhenPaused
  <2>2. mads_state' # "softDisabling"
    BY <1>5 DEF MadsWhenPaused
  <2> QED
    BY <1>1, <2>1, <2>2
<1>6. CASE MadsWhenOverriding
  BY <1>6 DEF MadsWhenOverriding
<1>7. CASE MadsWhenDisabled
  <2>1. Contains(AllEvents, NO_ENTRY) => MadsEnter("paused") \/ MadsEnter("disabled")
    BY <1>7 DEF MadsWhenDisabled
  <2>2. mads_state' # "softDisabling"
    BY <1>7 DEF MadsWhenDisabled
  <2> QED
    BY <1>1, <2>1, <2>2
<1> QED
  BY <1>2, <1>3, <1>4, <1>5, <1>6, <1>7 DEF MadsStateMachineUpdate

(* selfdrived starts in the third invariant. *)
LEMMA InitSharedWindow == Init => SharedWindow
BY DEF Init, StateMachineInit, MadsInit, SharedWindow, MayBegin

(* While the stock machine is on, MADS leaves it the SOFT_DISABLE events.   *)
LEMMA SoftDisableKept ==
  ASSUME MadsUpdateEvents, enabled
  PROVE  Contains(events, SOFT_DISABLE) <=> Contains(events', SOFT_DISABLE)
<1>1. Replaced = {} /\ Suppressed = {}
  BY DEF Replaced, Suppressed, SteersAlone
<1>2. StockEventsRemoved \cap SOFT_DISABLE = {}
  BY <1>1 DEF StockEventsRemoved, CruiseEvents, Only, SOFT_DISABLE
<1> QED
  BY <1>2 DEF MadsUpdateEvents, Contains

(* Every call of the cycle, and params_thread, preserve the third invariant. *)
LEMMA NextSharedWindow == IInv /\ SharedWindow /\ [Next]_vars => SharedWindow'
<1> SUFFICES ASSUME IInv, SharedWindow, [Next]_vars PROVE SharedWindow'
  OBVIOUS
<1> USE DEF MayBegin
<1>0. TypeOK /\ FlagsFollowState /\ OffUntilInitialized /\ SoftDisableTimed
  BY DEF IInv
<1>1. CASE UpdateEvents
  <2>1. UNCHANGED <<state, soft_disable_timer, mads_state>> /\ pc = "update_events"
    BY <1>1 DEF UpdateEvents, smVars, madsVars
  <2>2. pc' # "state_machine" => state = "disabled"
    BY <1>0, <1>1 DEF UpdateEvents, OffUntilInitialized
  <2> QED
    BY <2>1, <2>2 DEF SharedWindow
<1>2. CASE RunStateMachine
  <2>1. /\ UNCHANGED <<mads_state, events>>
        /\ pc = "state_machine" /\ pc' \in {"mads_events", "publish"}
    BY <1>2 DEF RunStateMachine, madsVars
  <2>2. StateMachineUpdate(events)
    BY <1>2 DEF RunStateMachine
  <2>3. /\ state' = "softDisabling" => Contains(events', SOFT_DISABLE)
        /\ state' = "softDisabling" /\ MayBegin => soft_disable_timer' = SoftDisableTime
        /\ state' = "overriding" => ~Contains(events', SOFT_DISABLE)
    BY <1>0, <2>1, <2>2, StockWindow DEF SharedWindow
  <2>4. pc' = "publish" => ~MayBegin
    BY <1>0, <1>2 DEF RunStateMachine, OffUntilInitialized
  <2> QED
    BY <2>1, <2>3, <2>4 DEF SharedWindow
<1>3. CASE RunMadsEvents
  <2>1. /\ UNCHANGED <<state, soft_disable_timer, enabled, mads_state>>
        /\ pc = "mads_events" /\ pc' \in {"mads_state_machine", "publish"}
        /\ MadsUpdateEvents
    BY <1>3 DEF RunMadsEvents, smVars, madsVars
  <2>2. state \in {"softDisabling", "overriding"} =>
          (Contains(events, SOFT_DISABLE) <=> Contains(events', SOFT_DISABLE))
    BY <1>0, <2>1, SoftDisableKept DEF FlagsFollowState, EnabledStates, ActiveStates
  <2>3. pc' = "publish" => state = "disabled"
    BY <1>0, <1>3 DEF RunMadsEvents, OffUntilInitialized
  <2> QED
    BY <2>1, <2>2, <2>3 DEF SharedWindow
<1>4. CASE RunMadsStateMachine
  <2>1. UNCHANGED <<state, enabled>> /\ pc = "mads_state_machine" /\ pc' = "publish"
    BY <1>4 DEF RunMadsStateMachine
  <2>2. MadsStateMachineUpdate
    BY <1>4 DEF RunMadsStateMachine
  <2>3. state = "softDisabling" => Contains(AllEvents, SOFT_DISABLE) /\ soft_disable_timer > 0
    BY <1>0, <2>1 DEF SharedWindow, Contains, AllEvents, SoftDisableTimed
  <2> QED
    BY <1>0, <2>1, <2>2, <2>3, MadsWindow DEF SharedWindow
<1>5. CASE DataSample \/ Publish
  <2>1. UNCHANGED <<state, soft_disable_timer, mads_state>>
    BY <1>5 DEF DataSample, Publish, smVars, madsVars
  <2>2. pc \in {"data_sample", "publish"} /\ pc' \in {"data_sample", "update_events"}
    BY <1>5 DEF DataSample, Publish
  <2> QED
    BY <2>1, <2>2 DEF SharedWindow
<1>6. CASE ParamsThread \/ UNCHANGED vars
  BY <1>6 DEF ParamsThread, vars, smVars, madsVars, SharedWindow
<1> QED
  BY <1>1, <1>2, <1>3, <1>4, <1>5, <1>6 DEF Next, Step

(* The driver gets the whole window from MADS too: MADS, which shares the   *)
(* timer with the stock machine and does not restart it while that one is   *)
(* on, never begins in the rest of a window that is running out; only       *)
(* beside a stock machine that was in preEnabled, where it ignores          *)
(* SOFT_DISABLE, does it find no window at all (mads/state.py:66-72,        *)
(* state.py:46-64).                                                        *)
THEOREM WholeWindow == Spec => WindowIsWhole
<1>1. ASSUME IInv, SharedWindow, [Next]_vars,
             mads_state # "softDisabling", mads_state' = "softDisabling"
      PROVE  soft_disable_timer' = SoftDisableTime \/ state \in {"preEnabled", "enabled"}
  <2>0. TypeOK /\ FlagsFollowState
    BY <1>1 DEF IInv
  <2>1. RunMadsStateMachine
    BY <1>1, OnlyMadsMoves DEF madsVars
  <2>2. MadsStateMachineUpdate /\ pc = "mads_state_machine"
    BY <2>1 DEF RunMadsStateMachine
  <2>3. /\ MayBegin /\ Contains(AllEvents, SOFT_DISABLE)
        /\ ~enabled => soft_disable_timer' = SoftDisableTime
        /\ enabled => soft_disable_timer' = soft_disable_timer
    BY <1>1, <2>0, <2>2, MadsWindow, MadsUpdate
  <2>4. Contains(events, SOFT_DISABLE)
    BY <2>0, <2>3 DEF Contains, AllEvents, SOFT_DISABLE, TypeOK, EventSP, SilentGears
  <2>5. enabled /\ state \notin {"preEnabled", "enabled"} => state = "softDisabling"
    BY <1>1, <2>0, <2>2, <2>4
       DEF SharedWindow, FlagsFollowState, EnabledStates, ActiveStates
  <2> QED
    BY <1>1, <2>2, <2>3, <2>5, <2>0 DEF SharedWindow, TypeOK
<1>2. IInv /\ SharedWindow /\ [Next]_vars =>
        [mads_state # "softDisabling" /\ mads_state' = "softDisabling" =>
           \/ soft_disable_timer' = SoftDisableTime
           \/ state \in {"preEnabled", "enabled"}]_vars
  BY <1>1
<1> QED
  BY <1>2, Invariant, InitSharedWindow, NextSharedWindow, PTL DEF Spec, WindowIsWhole

(* How many calls of step a soft disabling may still last: the cycles left  *)
(* of the timer, and the calls before the next run of the stock machine.    *)
CallsBefore ==
  [c \in Calls |->
     CASE c = "state_machine" -> 0 [] c = "update_events" -> 1 [] c = "data_sample" -> 2
       [] c = "publish" -> 3 [] c = "mads_state_machine" -> 4 [] c = "mads_events" -> 5]

CallsLeft == 6 * soft_disable_timer + CallsBefore[pc]

(* The progress half of SoftDisablingEnds for the stock machine: every call *)
(* of step brings the end of a soft disabling nearer, MADS and              *)
(* params_thread never take it further away, and it is no further than the  *)
(* calls of a whole window (state.py:19-20, 46-56).                         *)
THEOREM WindowRunsDown ==
  Spec => /\ [](state = "softDisabling" => CallsLeft \in 0..(6 * SoftDisableTime + 5))
          /\ [][state = "softDisabling" /\ state' = "softDisabling" =>
                  CallsLeft' < CallsLeft \/ (ParamsThread /\ CallsLeft' = CallsLeft)]_vars
<1>1. IInv => (state = "softDisabling" => CallsLeft \in 0..(6 * SoftDisableTime + 5))
  BY DEF IInv, TypeOK, CallsLeft, CallsBefore, Calls
<1>2. ASSUME IInv, Step, state = "softDisabling", state' = "softDisabling"
      PROVE  CallsLeft' < CallsLeft
  <2>0. TypeOK /\ FlagsFollowState /\ OffUntilInitialized /\ SoftDisableTimed /\ enabled
    BY <1>2 DEF IInv, FlagsFollowState, EnabledStates, ActiveStates
  <2> USE DEF CallsLeft, CallsBefore, Calls, TypeOK
  <2>1. CASE RunStateMachine
    <3>1. soft_disable_timer' = soft_disable_timer - 1 /\ pc = "state_machine"
      BY <1>2, <2>0, <2>1, StockWindow DEF RunStateMachine
    <3>2. pc' \in {"mads_events", "publish"}
      BY <2>1 DEF RunStateMachine
    <3> QED
      BY <2>0, <3>1, <3>2
  <2>2. CASE RunMadsStateMachine
    <3>1. soft_disable_timer' = soft_disable_timer
      BY <2>0, <2>2, MadsUpdate DEF RunMadsStateMachine
    <3> QED
      BY <2>0, <2>2, <3>1 DEF RunMadsStateMachine
  <2>3. CASE UpdateEvents
    <3>1. initialized /\ soft_disable_timer' = soft_disable_timer
      BY <1>2, <2>0, <2>3 DEF OffUntilInitialized, UpdateEvents, smVars
    <3> QED
      BY <2>0, <2>3, <3>1 DEF UpdateEvents
  <2>4. CASE RunMadsEvents
    <3>1. soft_disable_timer' = soft_disable_timer /\ pc' \in {"mads_state_machine", "publish"}
      BY <2>4 DEF RunMadsEvents, smVars
    <3> QED
      BY <2>0, <2>4, <3>1 DEF RunMadsEvents
  <2>5. CASE DataSample
    BY <2>0, <2>5 DEF DataSample, smVars
  <2>6. CASE Publish
    BY <2>0, <2>6 DEF Publish, smVars
  <2> QED
    BY <1>2, <2>1, <2>2, <2>3, <2>4, <2>5, <2>6 DEF Step
<1>3. ASSUME ParamsThread PROVE CallsLeft' = CallsLeft
  BY <1>3 DEF ParamsThread, smVars, CallsLeft
<1>4. IInv /\ [Next]_vars =>
        [state = "softDisabling" /\ state' = "softDisabling" =>
           CallsLeft' < CallsLeft \/ (ParamsThread /\ CallsLeft' = CallsLeft)]_vars
  BY <1>2, <1>3 DEF Next
<1> QED
  BY <1>1, <1>4, Invariant, PTL DEF Spec

(* The cycles a soft disabling of MADS may still last.  Beside the timer it *)
(* may wait for the one the stock machine starts when it leaves preEnabled  *)
(* and enabled for its own; it waits for nothing once the events of the     *)
(* cycle or the timer tell it to leave.                                    *)
Leaving == /\ pc \in {"mads_events", "mads_state_machine"}
           /\ ~Contains(events, SOFT_DISABLE) \/ soft_disable_timer = 0

StockMayStart ==
  CASE state = "preEnabled" -> 2 * SoftDisableTime + 4
    [] state \in {"enabled", "overriding"} -> SoftDisableTime + 2
    [] OTHER -> 0

CyclesLeft == IF Leaving THEN 0 ELSE soft_disable_timer + StockMayStart + 1

MadsCallsLeft == 6 * CyclesLeft + CallsBefore[pc]

(* In a cycle with a SOFT_DISABLE event the stock machine engages nothing:  *)
(* it stays, moves on from preEnabled, starts its window or leaves it.      *)
LEMMA StockRunsDown ==
  ASSUME TypeOK, StateMachineUpdate(events),
         Contains(events, SOFT_DISABLE), soft_disable_timer' > 0
  PROVE  soft_disable_timer' + StockMayStart' < soft_disable_timer + StockMayStart
<1>0. soft_disable_timer \in Nat /\ state \in State /\ soft_disable_timer' \in 0..SoftDisableTime
  BY StockUpdate DEF TypeOK
<1>1. soft_disable_timer' = Decremented =>
        soft_disable_timer' = soft_disable_timer - 1
  BY <1>0 DEF Decremented
<1> USE DEF Enter, EnterSoftDisabling, StockMayStart, State, EnabledStates, ActiveStates
<1>2. CASE Disable(events)
  BY <1>0, <1>1, <1>2 DEF Disable
<1>3. CASE WhenEnabled(events)
  BY <1>0, <1>3 DEF WhenEnabled
<1>4. CASE WhenSoftDisabling(events)
  BY <1>0, <1>1, <1>4 DEF WhenSoftDisabling
<1>5. CASE WhenPreEnabled(events)
  BY <1>0, <1>1, <1>5 DEF WhenPreEnabled
<1>6. CASE WhenOverriding(events)
  BY <1>0, <1>6 DEF WhenOverriding
<1>7. CASE WhenDisabled(events)
  <2>1. Contains(events, NO_ENTRY)
    BY DEF Contains, SOFT_DISABLE, NO_ENTRY
  <2>2. Enter("disabled") /\ state = "disabled" /\ soft_disable_timer' = Decremented
    BY <1>7, <2>1 DEF WhenDisabled
  <2> QED
    BY <1>0, <1>1, <2>2
<1> QED
  BY <1>2, <1>3, <1>4, <1>5, <1>6, <1>7 DEF StateMachineUpdate

(* MADS stays in soft disabling on a SOFT_DISABLE event and a running timer. *)
LEMMA MadsStays ==
  ASSUME TypeOK, MadsStateMachineUpdate,
         mads_state = "softDisabling", mads_state' = "softDisabling"
  PROVE  /\ Contains(AllEvents, SOFT_DISABLE)
         /\ soft_disable_timer > 0 /\ soft_disable_timer' = soft_disable_timer
<1> USE DEF MadsEnter
<1>1. CASE MadsDisable
  BY <1>1 DEF MadsDisable
<1>2. CASE MadsWhenSoftDisabling
  BY <1>2 DEF MadsWhenSoftDisabling
<1> QED
  BY <1>1, <1>2
     DEF MadsStateMachineUpdate, MadsWhenEnabled, MadsWhenPaused, MadsWhenOverriding,
         MadsWhenDisabled

(* The same half for MADS.  It shares its timer with a stock machine that   *)
(* may start it anew, but only once: a SOFT_DISABLE event, without which    *)
(* MADS leaves, keeps the stock machine from engaging again.               *)
THEOREM MadsRunsDown ==
  Spec => /\ [](mads_state = "softDisabling" =>
                  MadsCallsLeft \in 0..(18 * SoftDisableTime + 35))
          /\ [][mads_state = "softDisabling" /\ mads_state' = "softDisabling" =>
                  \/ MadsCallsLeft' < MadsCallsLeft
                  \/ ParamsThread /\ MadsCallsLeft' = MadsCallsLeft]_vars
<1>1. ASSUME IInv PROVE MadsCallsLeft \in 0..(18 * SoftDisableTime + 35)
  <2>1. CyclesLeft \in 0..(3 * SoftDisableTime + 5)
    BY <1>1 DEF IInv, TypeOK, CyclesLeft, StockMayStart
  <2>2. CallsBefore[pc] \in 0..5
    BY <1>1 DEF IInv, TypeOK, CallsBefore, Calls
  <2> QED
    BY <2>1, <2>2 DEF MadsCallsLeft
<1>2. ASSUME IInv, Step, mads_state = "softDisabling", mads_state' = "softDisabling"
      PROVE  MadsCallsLeft' < MadsCallsLeft
  <2>0. TypeOK /\ initialized /\ mads_toggle
    BY <1>2 DEF IInv, TypeOK, OffUntilInitialized
  <2>1. CyclesLeft \in Nat /\ (CyclesLeft' \in Nat)
    <3>1. TypeOK'
      BY <1>2, NextIInv DEF Next, IInv
    <3> QED
      BY <2>0, <3>1 DEF TypeOK, CyclesLeft, StockMayStart
  <2>2. ASSUME CyclesLeft' <= CyclesLeft, CallsBefore[pc]' < CallsBefore[pc],
               CallsBefore[pc]' \in Nat, CallsBefore[pc] \in Nat
        PROVE  MadsCallsLeft' < MadsCallsLeft
    BY <2>1, <2>2 DEF MadsCallsLeft
  <2>3. CASE RunStateMachine
    <3>1. /\ pc = "state_machine" /\ pc' = "mads_events"
          /\ events' = events /\ StateMachineUpdate(events)
      BY <2>0, <2>3 DEF RunStateMachine
    <3>2. CyclesLeft' < CyclesLeft
      <4>1. CASE Leaving'
        BY <2>0, <3>1, <4>1 DEF CyclesLeft, Leaving, TypeOK, StockMayStart
      <4>2. CASE ~Leaving'
        <5>1. Contains(events, SOFT_DISABLE) /\ soft_disable_timer' > 0
          BY <2>0, <3>1, <4>2, StockUpdate DEF Leaving
        <5> QED
          BY <2>0, <2>1, <3>1, <4>2, <5>1, StockRunsDown, StockUpdate
             DEF CyclesLeft, Leaving, StockMayStart, TypeOK
      <4> QED
        BY <4>1, <4>2
    <3>3. CallsBefore[pc]' = 5 /\ CallsBefore[pc] = 0
      BY <3>1 DEF CallsBefore, Calls
    <3>4. MadsCallsLeft' = 6 * CyclesLeft' + 5 /\ MadsCallsLeft = 6 * CyclesLeft
      BY <2>1, <3>3 DEF MadsCallsLeft
    <3>5. \A m, n \in Nat : m < n => 6 * m + 5 < 6 * n
      OBVIOUS
    <3>6. 6 * CyclesLeft' + 5 < 6 * CyclesLeft
      BY <2>1, <3>2, <3>5
    <3> QED
      BY <3>4, <3>6
  <2>4. CASE RunMadsEvents
    <3>1. /\ pc = "mads_events" /\ pc' = "mads_state_machine" /\ MadsUpdateEvents
          /\ UNCHANGED <<state, soft_disable_timer>>
      BY <2>0, <2>4 DEF RunMadsEvents, smVars
    <3>2. Leaving => Leaving'
      <4>1. Contains(events', SOFT_DISABLE) => Contains(events, SOFT_DISABLE)
        BY <3>1 DEF MadsUpdateEvents, Contains
      <4> QED
        BY <3>1, <4>1 DEF Leaving
    <3>3. StockMayStart' = StockMayStart
      BY <3>1 DEF StockMayStart
    <3>4. CyclesLeft' \in {0, CyclesLeft}
      BY <3>1, <3>2, <3>3 DEF CyclesLeft
    <3>5. CyclesLeft' <= CyclesLeft
      BY <2>1, <3>4
    <3>6. CallsBefore[pc]' = 4 /\ CallsBefore[pc] = 5
      BY <3>1 DEF CallsBefore, Calls
    <3> QED
      BY <2>2, <3>5, <3>6
  <2>5. CASE RunMadsStateMachine
    <3>1. /\ pc = "mads_state_machine" /\ pc' = "publish" /\ MadsStateMachineUpdate
          /\ UNCHANGED <<state, events>>
      BY <2>5 DEF RunMadsStateMachine
    <3>2. soft_disable_timer' = soft_disable_timer /\ ~Leaving /\ ~Leaving'
      <4>1. /\ Contains(AllEvents, SOFT_DISABLE)
            /\ soft_disable_timer > 0 /\ soft_disable_timer' = soft_disable_timer
        BY <1>2, <2>0, <3>1, MadsStays
      <4>2. Contains(events, SOFT_DISABLE)
        BY <2>0, <4>1 DEF Contains, AllEvents, SOFT_DISABLE, TypeOK, EventSP, SilentGears
      <4> QED
        BY <2>0, <3>1, <4>1, <4>2 DEF Leaving, TypeOK
    <3>3. CyclesLeft' <= CyclesLeft
      BY <2>1, <3>1, <3>2 DEF CyclesLeft, StockMayStart
    <3>4. CallsBefore[pc]' = 3 /\ CallsBefore[pc] = 4
      BY <3>1 DEF CallsBefore, Calls
    <3> QED
      BY <2>2, <3>3, <3>4
  <2>6. CASE DataSample \/ UpdateEvents \/ Publish
    <3>1. /\ UNCHANGED <<state, soft_disable_timer>>
          /\ pc \in {"data_sample", "update_events", "publish"}
          /\ pc' = CASE pc = "publish" -> "data_sample" [] pc = "data_sample" -> "update_events"
                     [] OTHER -> "state_machine"
      BY <2>0, <2>6 DEF DataSample, UpdateEvents, Publish, smVars
    <3>2. ~Leaving /\ ~Leaving'
      BY <3>1 DEF Leaving
    <3>3. CyclesLeft' <= CyclesLeft
      BY <2>1, <3>1, <3>2 DEF CyclesLeft, StockMayStart
    <3>4. CallsBefore[pc]' < CallsBefore[pc] /\ CallsBefore[pc]' \in Nat /\ CallsBefore[pc] \in Nat
      BY <3>1 DEF CallsBefore, Calls
    <3> QED
      BY <2>2, <3>3, <3>4
  <2> QED
    BY <1>2, <2>3, <2>4, <2>5, <2>6 DEF Step
<1>3. ASSUME ParamsThread PROVE MadsCallsLeft' = MadsCallsLeft
  BY <1>3 DEF ParamsThread, smVars, MadsCallsLeft, CyclesLeft, Leaving, StockMayStart
<1>4. IInv /\ [Next]_vars =>
        [mads_state = "softDisabling" /\ mads_state' = "softDisabling" =>
           \/ MadsCallsLeft' < MadsCallsLeft
           \/ ParamsThread /\ MadsCallsLeft' = MadsCallsLeft]_vars
  BY <1>2, <1>3 DEF Next
<1> QED
  BY <1>1, <1>4, Invariant, PTL DEF Spec
===============================================================================
