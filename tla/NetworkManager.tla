------------------------------ MODULE NetworkManager ------------------------------
(***************************************************************************)
(* The Wi-Fi device of NetworkManager as WifiManager uses it: profiles,     *)
(* one device that is on one of them, and the signals it sends.  It is not  *)
(* part of the repository; the sequences of signals are those that          *)
(* system/ui/lib/tests/test_handle_state_change.py records from a device.   *)
(* A profile is a network and a number: adding a network again makes        *)
(* another profile.  States that WifiManager passes over (NEED_AUTH of the  *)
(* handshake, IP_CONFIG ... SECONDARIES, FAILED, a DEACTIVATING that is not *)
(* a removal) send no signal here.                                          *)
(***************************************************************************)
EXTENDS Naturals, SequencesExt

CONSTANTS
  Ssids,     \* the networks
  Copies,    \* bound on the profiles of a network
  MaxTurns,  \* bound on what NetworkManager does by itself
  None

ASSUME NMConstants == /\ Copies \in Nat \ {0} /\ MaxTurns \in Nat
                      /\ None \notin Ssids /\ None \notin Ssids \X (1..Copies)

Profiles == Ssids \X (1..Copies)
SsidOf(p) == IF p = None THEN None ELSE p[1]

VARIABLES
  dev,       \* the state of the device
  active,    \* the profile of the active connection
  why,       \* why the device is being deactivated
  want,      \* the profile it was asked to activate
  saved,     \* the profiles there are
  volatile,  \* those that go away with their connection
  wire,      \* signals on their way to the monitor
  turns

nmVars == <<dev, active, why, want, saved, volatile, wire, turns>>

Signal(kind, what, p) == [kind |-> kind, what |-> what, path |-> p]
State(what) == Signal("state", what, active)
Gone(p) == Signal("removed", "gone", p)
Send(signals) == wire' = wire \o signals

NMInit ==
  /\ saved \in {P \in SUBSET (Ssids \X {1}) : P # {}}
  /\ active \in saved \cup {None}
  /\ dev = IF active = None THEN "disc" ELSE "act"
  /\ why = "none" /\ want = None /\ volatile = {} /\ wire = <<>> /\ turns = 0

-----------------------------------------------------------------------------
(* What WifiManager asks for.  Each answers at once; the device follows.    *)

(* The device starts on p, or leaves its connection to start on p next.     *)
TurnTo(p, signals) ==
  IF dev = "disc"
  THEN /\ dev' = "prep" /\ active' = p /\ want' = None /\ UNCHANGED why
       /\ Send(signals \o <<Signal("state", "PREPARE", p)>>)
  ELSE /\ dev' = "deact" /\ why' = (IF dev = "deact" THEN why ELSE "new") /\ want' = p /\ UNCHANGED active
       /\ Send(signals)

Activate(p) == TurnTo(p, <<>>) /\ UNCHANGED <<saved, volatile, turns>>

AddAndActivate(p) ==
  /\ p \notin saved
  /\ saved' = saved \cup {p} /\ volatile' = volatile \cup {p}
  /\ TurnTo(p, <<Signal("new", "profile", p)>>)
  /\ UNCHANGED turns

(* The removal is signalled before or after the device starts to leave.     *)
Delete(p) ==
  /\ saved' = saved \ {p} /\ volatile' = volatile \ {p}
  /\ want' = IF want = p THEN None ELSE want
  /\ IF p \notin saved
     THEN UNCHANGED <<dev, why, wire>>
     ELSE IF p = active /\ dev \in {"prep", "act"}
     THEN /\ dev' = "deact" /\ why' = "removed"
          /\ \/ Send(<<Gone(p), State("DEACTIVATING")>>)
             \/ Send(<<State("DEACTIVATING"), Gone(p)>>)
     ELSE /\ Send(<<Gone(p)>>) /\ UNCHANGED dev
          /\ why' = IF want = p THEN "removed" ELSE why
  /\ UNCHANGED <<active, turns>>

Save(p) == volatile' = volatile \ {p} /\ UNCHANGED <<dev, active, why, want, saved, wire, turns>>

-----------------------------------------------------------------------------
(* The device.                                                              *)

(* It leaves its connection, and a volatile profile goes with it; then it   *)
(* is free, or on p if it was asked for p.                                  *)
Leave(signals, p) ==
  /\ active' = p /\ dev' = (IF p = None THEN "disc" ELSE "prep") /\ why' = "none"
  /\ saved' = saved \ (volatile \cap {active}) /\ volatile' = volatile \ {active}
  /\ Send(signals \o (IF active \in volatile THEN <<Gone(active)>> ELSE <<>>)
                  \o (IF p = None THEN <<>> ELSE <<Signal("state", "PREPARE", p)>>))

Deactivated ==
  /\ dev = "deact"
  /\ Leave(<<State(IF why = "new" THEN "DISCONNECTED_NEW" ELSE "DISCONNECTED_REMOVED")>>, want)
  /\ want' = None /\ UNCHANGED turns

Succeed ==
  /\ dev = "prep"
  /\ dev' = "act"
  /\ Send(<<State("ACTIVATED")>>)
  /\ UNCHANGED <<active, why, want, saved, volatile, turns>>

(* By itself: it connects to a saved network, fails to, or loses one.       *)
AutoConnect ==
  /\ dev = "disc" /\ turns < MaxTurns /\ turns' = turns + 1
  /\ \E p \in saved \ volatile : TurnTo(p, <<>>)
  /\ UNCHANGED <<saved, volatile>>
Reject ==
  /\ dev = "prep" /\ turns < MaxTurns /\ turns' = turns + 1
  /\ Leave(<<State("WRONG_PASSWORD"), State("DISCONNECTED")>>, None) /\ UNCHANGED want
Lose ==
  /\ dev \in {"prep", "act"} /\ turns < MaxTurns /\ turns' = turns + 1
  /\ Leave(<<State("DISCONNECTED")>>, None) /\ UNCHANGED want

NMStep == Deactivated \/ Succeed \/ AutoConnect \/ Reject \/ Lose
=============================================================================
