----------------------------- MODULE StateMachine -----------------------------
(***************************************************************************)
(* The stock engagement state machine of selfdrive/selfdrived/state.py.    *)
(* One action per state, as the update method has one block per state; the *)
(* block is chosen by the state at the call.  current_alert_types feeds    *)
(* only the alert texts and is not modelled.                               *)
(***************************************************************************)
EXTENDS EngagementEvents, Naturals

CONSTANT SoftDisableTime   \* cycles: int(SOFT_DISABLE_TIME / DT_CTRL)

ASSUME SoftDisableTimeAssumption == SoftDisableTime \in Nat \ {0}

VARIABLES
  state,                \* StateMachine.state
  soft_disable_timer,   \* StateMachine.soft_disable_timer, shared with MADS
  enabled,              \* SelfdriveD.enabled
  active                \* SelfdriveD.active

smVars == <<state, soft_disable_timer, enabled, active>>

ActiveStates  == {"enabled", "softDisabling", "overriding"}
EnabledStates == ActiveStates \cup {"preEnabled"}
State         == EnabledStates \cup {"disabled"}

StateMachineInit ==
  /\ state = "disabled"
  /\ soft_disable_timer = 0
  /\ enabled = FALSE
  /\ active = FALSE

(* Fault: the timer is not decremented in every step. *)
Decremented_Never == soft_disable_timer

Decremented == IF soft_disable_timer = 0 THEN 0 ELSE soft_disable_timer - 1

(* What the method returns, stored by SelfdriveD.step in enabled and active. *)
Enter(s) ==
  /\ state' = s
  /\ enabled' = (s \in EnabledStates)
  /\ active' = (s \in ActiveStates)

(* Fault: the timer is not restarted on entrance. *)
EnterSoftDisabling_NoReset ==
  /\ Enter("softDisabling")
  /\ soft_disable_timer' = Decremented

EnterSoftDisabling ==
  /\ Enter("softDisabling")
  /\ soft_disable_timer' = SoftDisableTime

Disabling(evs)  == Contains(evs, IMMEDIATE_DISABLE) \/ Contains(evs, USER_DISABLE)
Overriding(evs) == Contains(evs, OVERRIDE_LATERAL) \/ Contains(evs, OVERRIDE_LONGITUDINAL)

(* Immediate and user disable have priority in every state but disabled. *)
Disable(evs) ==
  /\ state # "disabled"
  /\ Disabling(evs)
  /\ Enter("disabled")
  /\ soft_disable_timer' = Decremented

WhenEnabled(evs) ==
  /\ state = "enabled"
  /\ ~Disabling(evs)
  /\ \/ /\ Contains(evs, SOFT_DISABLE)
        /\ EnterSoftDisabling
     \/ /\ ~Contains(evs, SOFT_DISABLE)
        /\ Enter(IF Overriding(evs) THEN "overriding" ELSE "enabled")
        /\ soft_disable_timer' = Decremented

(* The timer is tested after its decrement. *)
WhenSoftDisabling(evs) ==
  /\ state = "softDisabling"
  /\ ~Disabling(evs)
  /\ \/ /\ ~Contains(evs, SOFT_DISABLE)
        /\ Enter("enabled")
     \/ /\ Contains(evs, SOFT_DISABLE)
        /\ Enter(IF Decremented > 0 THEN "softDisabling" ELSE "disabled")
  /\ soft_disable_timer' = Decremented

WhenPreEnabled(evs) ==
  /\ state = "preEnabled"
  /\ ~Disabling(evs)
  /\ Enter(IF Contains(evs, PRE_ENABLE) THEN "preEnabled" ELSE "enabled")
  /\ soft_disable_timer' = Decremented

WhenOverriding(evs) ==
  /\ state = "overriding"
  /\ ~Disabling(evs)
  /\ \/ /\ Contains(evs, SOFT_DISABLE)
        /\ EnterSoftDisabling
     \/ /\ ~Contains(evs, SOFT_DISABLE)
        /\ Enter(IF Overriding(evs) THEN "overriding" ELSE "enabled")
        /\ soft_disable_timer' = Decremented

WhenDisabled(evs) ==
  /\ state = "disabled"
  /\ \/ /\ ~Contains(evs, ENABLE) \/ Contains(evs, NO_ENTRY)
        /\ Enter("disabled")
     \/ /\ Contains(evs, ENABLE)
        /\ ~Contains(evs, NO_ENTRY)
        /\ Enter(CASE Contains(evs, PRE_ENABLE) -> "preEnabled"
                   [] ~Contains(evs, PRE_ENABLE) /\ Overriding(evs) -> "overriding"
                   [] OTHER -> "enabled")
  /\ soft_disable_timer' = Decremented

(* StateMachine.update *)
StateMachineUpdate(evs) ==
  \/ Disable(evs)
  \/ WhenEnabled(evs)
  \/ WhenSoftDisabling(evs)
  \/ WhenPreEnabled(evs)
  \/ WhenOverriding(evs)
  \/ WhenDisabled(evs)
===============================================================================
