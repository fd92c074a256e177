------------------------------- MODULE WifiManager -------------------------------
(***************************************************************************)
(* WifiManager (system/ui/lib/wifi_manager.py): what the user interface     *)
(* shows of the Wi-Fi, kept by three kinds of threads without a lock.  The  *)
(* user's taps write it at once and start a worker; the monitor handles the *)
(* signals of NetworkManager; workers call NetworkManager and may read its  *)
(* state again.  Each call to D-Bus takes time, in which the others go on;  *)
(* _user_epoch is to keep an old answer from undoing a newer tap.           *)
(*                                                                         *)
(* An epoch is only compared for equality with a copy taken before: the     *)
(* set `fresh` holds the threads whose copy is still equal.  Between two    *)
(* calls a thread is not interrupted.                                       *)
(***************************************************************************)
EXTENDS NetworkManager

CONSTANTS
  Workers,   \* worker threads that run at once
  MaxTaps    \* bound on what the user does

ASSUME WorkersAssumption == "monitor" \notin Workers

VARIABLES
  wifi_state,   \* _wifi_state
  connections,  \* _connections
  fresh,        \* threads whose copy of _user_epoch is the current one
  monitor,      \* the monitor thread: its loop, and the lookup it waits for
  inbox,        \* the queues of the filters
  work,         \* the worker threads
  taps,
  old,          \* ghost: threads waiting for an answer since before the user's last choice
  kept,         \* ghost: the last reading of the state was thrown away for the user's CONNECTING
  late,         \* ghost: workers whose reading is older than the monitor's last word on the state
  undone        \* ghost: such a reading was written

ghosts == <<old, kept, late, undone>>
uiVars == <<wifi_state, connections, fresh, monitor, inbox, work, taps>>
vars == <<nmVars, uiVars, ghosts>>

WifiState(ssid, status) == [ssid |-> ssid, status |-> status]
Disconnected == WifiState(None, "DISCONNECTED")
Resting == [phase |-> 0, lookup |-> "none", answered |-> FALSE, path |-> None, shown |-> None]
Idle == [op |-> "idle", ssid |-> None, read |-> "none"]
Phases == <<"removed", "new", "state">>

Known(p) == IF p # None /\ connections[SsidOf(p)] = p THEN SsidOf(p) ELSE None

Init ==
  /\ NMInit
  /\ connections = [s \in Ssids |-> IF <<s, 1>> \in saved THEN <<s, 1>> ELSE None]
  /\ wifi_state = IF active = None THEN Disconnected ELSE WifiState(SsidOf(active), "CONNECTED")
  /\ fresh = {} /\ monitor = Resting /\ inbox = <<>>
  /\ work = [w \in Workers |-> Idle] /\ taps = 0
  /\ old = {} /\ kept = FALSE /\ late = {} /\ undone = FALSE

-----------------------------------------------------------------------------
(* Writes of the state.                                                     *)

SetConnecting(ssid) ==
  /\ wifi_state' = IF ssid = None THEN Disconnected ELSE WifiState(ssid, "CONNECTING")
  /\ fresh' = {}
  /\ kept' = FALSE
  /\ late' = {} /\ undone' = FALSE

MonitorWrites(s) ==
  /\ wifi_state' = s
  /\ late' = {w \in Workers : work[w].op = "answer"}
  /\ kept' = FALSE /\ undone' = FALSE
  /\ UNCHANGED fresh

PassedOver ==
  /\ kept' = TRUE /\ late' = {w \in Workers : work[w].op = "answer"}
  /\ UNCHANGED <<wifi_state, fresh, undone>>

StateKept == UNCHANGED <<wifi_state, fresh, kept, late, undone>>

(* History: the threads that wait for NetworkManager's answer.              *)
Waiting == {w \in Workers : work[w].op = "answer"}
           \cup (IF monitor.lookup = "none" THEN {} ELSE {"monitor"})
Choice == old' = Waiting
NoChoice == old' = old \cap Waiting'

-----------------------------------------------------------------------------
(* The user.  A tap writes the state and starts a worker.                   *)

Start(w, op, ssid) ==
  /\ work[w] = Idle /\ taps < MaxTaps /\ taps' = taps + 1
  /\ work' = [work EXCEPT ![w] = [op |-> op, ssid |-> ssid, read |-> "none"]]
  /\ UNCHANGED <<nmVars, connections, monitor, inbox>>

ConnectToNetwork(w, ssid) == Start(w, "connect", ssid) /\ SetConnecting(ssid) /\ Choice
ActivateConnection(w, ssid) == Start(w, "activate", ssid) /\ SetConnecting(ssid) /\ Choice
ForgetConnection(w, ssid) == Start(w, "forget", ssid) /\ StateKept /\ NoChoice
SetActive(w) == Start(w, "init", None) /\ StateKept /\ NoChoice

Tap(w) ==
  \/ SetActive(w)
  \/ \E ssid \in Ssids :
       \/ ConnectToNetwork(w, ssid) \/ ActivateConnection(w, ssid) \/ ForgetConnection(w, ssid)

-----------------------------------------------------------------------------
(* The workers.                                                             *)

Becomes(w, op) == work' = [work EXCEPT ![w] = IF op = "idle" THEN Idle ELSE [@ EXCEPT !.op = op]]
WorkerOnly == UNCHANGED <<connections, monitor, inbox, taps>>

(* forget_connection, also as the first thing connect_to_network does       *)
DeleteProfile(w) ==
  LET p == connections[work[w].ssid] IN
  /\ work[w].op \in {"forget", "connect"}
  /\ Becomes(w, IF work[w].op = "connect" THEN "add" ELSE "idle")
  /\ IF p = None THEN UNCHANGED nmVars ELSE Delete(p)
  /\ StateKept /\ WorkerOnly

AddConnection(w) ==
  /\ work[w].op = "add"
  /\ \/ /\ \E n \in 1..Copies : AddAndActivate(<<work[w].ssid, n>>)
        /\ Becomes(w, "idle") /\ StateKept
     \/ /\ UNCHANGED nmVars
        /\ Becomes(w, "init") /\ SetConnecting(None)
  /\ WorkerOnly

ActivateProfile(w) ==
  LET p == connections[work[w].ssid] IN
  /\ work[w].op = "activate"
  /\ \/ p \in saved /\ Activate(p) /\ Becomes(w, "idle")
     \/ UNCHANGED nmVars /\ Becomes(w, "init")
  /\ StateKept /\ WorkerOnly

(* _init_wifi_state: the state of the device ...                            *)
DeviceStatus == CASE dev = "prep" -> "CONNECTING" [] dev = "act" -> "CONNECTED"
                  [] OTHER -> "DISCONNECTED"
ReadDevice(w) ==
  /\ work[w].op = "init"
  /\ work' = [work EXCEPT ![w] = [@ EXCEPT !.op = "answer", !.read = DeviceStatus]]
  /\ fresh' = fresh \cup {w} /\ late' = late \ {w}
  /\ UNCHANGED <<nmVars, wifi_state, kept, undone>> /\ WorkerOnly

(* ... then the connection, and the write unless the user has acted         *)
KeepsConnecting(status, ssid) ==
  /\ wifi_state.status = "CONNECTING"
  /\ status = "DISCONNECTED" \/ (status = "CONNECTED" /\ wifi_state.ssid # ssid)

ReadConnection(w) ==
  LET status == work[w].read  ssid == Known(active) IN
  /\ work[w].op = "answer"
  /\ Becomes(w, "idle")
  /\ late' = late \ {w} /\ fresh' = fresh \ {w}
  /\ IF w \notin fresh THEN UNCHANGED <<wifi_state, kept, undone>>
     ELSE IF KeepsConnecting(status, ssid)
     THEN kept' = TRUE /\ UNCHANGED <<wifi_state, undone>>
     ELSE /\ wifi_state' = WifiState(ssid, status)
          /\ kept' = FALSE /\ undone' = (w \in late)
  /\ UNCHANGED nmVars /\ WorkerOnly

WorkerStep(w) ==
  /\ \/ DeleteProfile(w) \/ AddConnection(w) \/ ActivateProfile(w)
     \/ ReadDevice(w) \/ ReadConnection(w)
  /\ NoChoice

-----------------------------------------------------------------------------
(* The monitor.  recv_messages takes one signal; then all queues are        *)
(* emptied, removals first, states last.  A call to D-Bus on the monitor's   *)
(* connection puts the signals that came before its answer into the queues: *)
(* of those, the ones of a kind that was already served wait for the next    *)
(* signal, whatever it is.                                                  *)

Rest == <<connections, work, taps>>
Queued(k) == {n \in 1..Len(inbox) : inbox[n].kind = Phases[k]}
(* Fault: the newest signal first.                                          *)
First_Fault(k) == CHOOSE n \in Queued(k) : \A m \in Queued(k) : m <= n

First(k) == CHOOSE n \in Queued(k) : \A m \in Queued(k) : n <= m
ServedNext == {k \in monitor.phase..3 : k > 0 /\ Queued(k) # {}}

Receive ==
  /\ monitor = Resting /\ wire # <<>>
  /\ inbox' = Append(inbox, Head(wire)) /\ wire' = Tail(wire)
  /\ monitor' = [Resting EXCEPT !.phase = 1]
  /\ UNCHANGED <<dev, active, why, want, saved, volatile, turns>> /\ StateKept
  /\ UNCHANGED Rest

(* A finished scan is a signal too: it wakes the monitor.                   *)
ScanDone ==
  /\ monitor = Resting /\ wire = <<>> /\ inbox # <<>>
  /\ monitor' = [Resting EXCEPT !.phase = 1]
  /\ UNCHANGED <<nmVars, inbox>> /\ StateKept /\ UNCHANGED Rest

QueuesEmpty ==
  /\ monitor.phase > 0 /\ monitor.lookup = "none" /\ ServedNext = {}
  /\ monitor' = Resting
  /\ UNCHANGED <<nmVars, inbox>> /\ StateKept /\ UNCHANGED Rest

(* The next signal and its phase, taken out of its queue.                   *)
Served(k) ==
  /\ monitor.phase > 0 /\ monitor.lookup = "none"
  /\ k \in ServedNext /\ \A j \in ServedNext : k <= j
  /\ inbox' = RemoveAt(inbox, First(k))

ConnectionRemoved ==
  /\ Served(1)
  /\ LET p == inbox[First(1)].path IN
       connections' = [s \in Ssids |-> IF connections[s] = p THEN None ELSE connections[s]]
  /\ monitor' = [monitor EXCEPT !.phase = 1]
  /\ UNCHANGED <<nmVars, work, taps>> /\ StateKept

(* GetSettings finds no profile when it has gone meanwhile.                 *)
NewConnection ==
  /\ Served(2)
  /\ LET p == inbox[First(2)].path IN
       connections' = IF p \in saved THEN [connections EXCEPT ![SsidOf(p)] = p] ELSE connections
  /\ monitor' = [monitor EXCEPT !.phase = 2]
  /\ UNCHANGED <<nmVars, work, taps>> /\ StateKept

(* _handle_state_change: what needs no lookup.                              *)
Handled(whats) ==
  /\ Served(3) /\ inbox[First(3)].what \in whats
  /\ monitor' = [monitor EXCEPT !.phase = 3]
  /\ UNCHANGED nmVars /\ UNCHANGED Rest

KeepsOther(what) ==
  /\ what = "DISCONNECTED_REMOVED" /\ wifi_state.ssid # None
  /\ connections[wifi_state.ssid] # None

StateDisconnected ==
  /\ Handled({"DISCONNECTED", "DISCONNECTED_NEW", "DISCONNECTED_REMOVED"})
  /\ LET what == inbox[First(3)].what IN
       IF KeepsOther(what) THEN PassedOver
       ELSE IF what = "DISCONNECTED_NEW" THEN StateKept ELSE SetConnecting(None)

StateDeactivating ==
  /\ Handled({"DEACTIVATING"})
  /\ IF wifi_state.status = "CONNECTED" THEN SetConnecting(None) ELSE StateKept

StateWrongPassword ==
  /\ Handled({"WRONG_PASSWORD"})
  /\ IF wifi_state.ssid = None THEN StateKept ELSE SetConnecting(None)

StatePrepare ==
  /\ Handled({"PREPARE"}) /\ wifi_state.ssid # None
  /\ MonitorWrites([wifi_state EXCEPT !.status = "CONNECTING"])

(* PREPARE of a network nobody chose, and ACTIVATED, ask for the connection. *)
StateAsks ==
  /\ Served(3)
  /\ LET what == inbox[First(3)].what IN
       /\ what = "ACTIVATED" \/ (what = "PREPARE" /\ wifi_state.ssid = None)
       /\ monitor' = [phase |-> 3, lookup |-> what, answered |-> FALSE, path |-> None, shown |-> wifi_state.ssid]
  /\ fresh' = fresh \cup {"monitor"}
  /\ UNCHANGED <<nmVars, wifi_state, kept, late, undone>> /\ UNCHANGED Rest

(* The answer comes with the signals that were sent before it.              *)
Answered ==
  /\ monitor.lookup # "none" /\ ~monitor.answered
  /\ monitor' = [monitor EXCEPT !.answered = TRUE, !.path = active]
  /\ inbox' = inbox \o wire /\ wire' = <<>>
  /\ UNCHANGED <<dev, active, why, want, saved, volatile, turns>> /\ StateKept
  /\ UNCHANGED Rest

Shown ==
  WifiState(IF monitor.path = None THEN monitor.shown ELSE Known(monitor.path),
            IF monitor.lookup = "PREPARE" THEN "CONNECTING" ELSE "CONNECTED")

(* Fault: the answer is written whatever the user did meanwhile.            *)
StateShown_Fault ==
  /\ monitor.answered
  /\ monitor' = [Resting EXCEPT !.phase = 3]
  /\ MonitorWrites(Shown)
  /\ IF monitor.lookup = "ACTIVATED" /\ monitor.path # None THEN Save(monitor.path)
     ELSE UNCHANGED nmVars
  /\ UNCHANGED inbox /\ UNCHANGED Rest

StateShown ==
  /\ monitor.answered
  /\ monitor' = [Resting EXCEPT !.phase = 3]
  /\ IF "monitor" \notin fresh
     THEN UNCHANGED nmVars /\ StateKept
     ELSE /\ MonitorWrites(Shown)
          /\ IF monitor.lookup = "ACTIVATED" /\ monitor.path # None THEN Save(monitor.path)
             ELSE UNCHANGED nmVars
  /\ UNCHANGED inbox /\ UNCHANGED Rest

MonitorStep ==
  /\ \/ Receive \/ ScanDone \/ QueuesEmpty \/ ConnectionRemoved \/ NewConnection
     \/ StateDisconnected \/ StateDeactivating \/ StateWrongPassword \/ StatePrepare
     \/ StateAsks \/ Answered \/ StateShown
  /\ NoChoice

-----------------------------------------------------------------------------
NetworkManagerMoves ==
  /\ NMStep /\ StateKept
  /\ UNCHANGED <<connections, monitor, inbox, work, taps>> /\ NoChoice

Next ==
  \/ \E w \in Workers : Tap(w) \/ WorkerStep(w)
  \/ MonitorStep
  \/ NetworkManagerMoves

Spec == Init /\ [][Next]_vars

-----------------------------------------------------------------------------
(* The screen names networks, _connections profiles of them (lines 35-48,  *)
(* 182-184): a path of D-Bus is never shown as a name.                      *)
TypeOK ==
  /\ wifi_state.ssid \in Ssids \cup {None}
  /\ wifi_state.status \in {"DISCONNECTED", "CONNECTING", "CONNECTED"}
  /\ connections \in [Ssids -> Profiles \cup {None}]
  /\ fresh \subseteq Workers \cup {"monitor"}
  /\ active \in Profiles \cup {None} /\ volatile \subseteq saved /\ saved \subseteq Profiles

Quiet ==
  /\ wire = <<>> /\ inbox = <<>> /\ monitor = Resting /\ want = None
  /\ dev \in {"disc", "act"} /\ \A w \in Workers : work[w] = Idle

Agrees ==
  IF dev = "act" THEN wifi_state.status = "CONNECTED" /\ wifi_state.ssid \in {SsidOf(active), None}
  ELSE wifi_state.status = "DISCONNECTED"

(* When every signal is handled and every worker has returned, what is      *)
(* shown is what the device is in, whatever the order of taps, signals and  *)
(* answers (wifi_manager.py:416-426), with two exceptions: the last word    *)
(* was a guard that kept the user's choice (lines 263-270 and 435-440), or  *)
(* an _init_wifi_state that had read the device before the monitor's last   *)
(* word, which advances no epoch.  A connection may show without its name   *)
(* when ACTIVATED was answered before the profile was noted (line 502).     *)
(* And every profile in _connections is one that NetworkManager has, though *)
(* a removal may be served before the addition it follows (lines 396-401).  *)
ShowsTheDevice ==
  Quiet => /\ ~kept /\ ~undone => Agrees
           /\ \A s \in Ssids : connections[s] \in saved \cup {None}

(* The thread has its answer, and goes on without waiting.                  *)
Concludes(t) == t \in Waiting /\ t \notin Waiting'

(* What NetworkManager is asked before a tap and answers before or after it *)
(* does not come on the screen: neither an old lookup of the monitor nor an *)
(* old reading of a worker writes over what the user has chosen, whichever  *)
(* network it found (lines 416-424, 260, 457, 496).  A signal that was sent *)
(* before the tap and is handled after it still may: no epoch is on it.     *)
NothingStale == [][\A t \in old : Concludes(t) => UNCHANGED wifi_state]_vars
=============================================================================
