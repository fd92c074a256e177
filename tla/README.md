# TLA+ models of lean-mici

lean-mici is a fork of openpilot / sunnypilot for the comma mici: a set of processes on
the device in the car that sample cameras and the CAN bus, decide whether and how to steer
and accelerate, and, in this fork, send pairs of camera pictures to a phone that runs a big
driving model and answers with its outputs. This directory holds TLA+ models of the parts
of that program where the order of steps matters, the TLC runs that check them on small
instances, and proofs that TLAPS checks for every value of the constants.

Paths below are relative to `openpilot/` of the repository unless they start elsewhere.

Contents: 1 inventory, 2 modules, 3 runs, 4 bounds, 5 fairness, 6 proofs, 7 where the code
and its words part, 8 what is not modelled, 9 plan, 10 how to run.

## 1. Inventory of the system

| Component | State it keeps | Operations | Talks to | Hard behaviour | What makes it correct |
|---|---|---|---|---|---|
| selfdrived (`selfdrive/selfdrived/`) | event list of the cycle, state machine, soft-disable timer, mismatch counters | `step` at 100 Hz: sample, events, stock machine, MADS, publish; `params_thread` at 10 Hz | card, pandad, modeld over messages; MADS in the process; params | two machines on one timer and one event list; parameters that change between calls | disengages when it must, gives the driver the warning time, never engages past an entry check |
| MADS (`sunnypilot/mads/`) | its own state machine, what the toggles said | `update_events`, `update`, `read_params` | rewrites selfdrived's events | event replaced by silent twins; pause and resume; ordering inside a cycle | only the driver turns steering on; brake and doors take it away |
| bigmodeld, pairing (`selfdrive/bigmodeld/pair_matcher.h`, `FrameIndexer`) | one waiting frame per camera, first start of frame | `push`, `on_pair` | two capture threads | one thread late by several frames; missed frames; jitter | the two halves of a pair are pictures of one moment |
| bigmodeld, uplink (`main.cc`, `uplink_sender`, `frame_scheduler`, `meta_cache.h`) | in-flight and queued frame, gate, epoch, contexts of frames in the encoders, requests for I frames | `submit`, `run_once`, `disconnect`, `close_head_gate`, callbacks of the encoders | encoders, TCP socket to the phone | five threads; reconnections while the encoders hold old frames; lost outputs | the phone gets a stream it can decode, on every connection |
| bigmodeld, replies (`main.cc`, `nav_outputs`, `msg_framer.h`) | session of the link, half messages, curve targets | reply thread, calib thread | phone, modeld, params | connection remade between any two calls of the reply thread | targets of a lost connection do not slow the car; nothing gets stuck |
| params (`common/params.cc`) | one file per key, a lock file, a queue | `put`, `remove`, `clearAll`, `readAll`, `putNonBlocking` | every process | kills, power loss, processes without a server | whole values, durable when reported so |
| updated and the launcher (`system/updated/updated.py`, `launch_chffrplus.sh`, `common/hardware/comma/agnos.py`) | overlay, copy, flags as files, AGNOS slots | `init_overlay`, `fetch_update`, `finalize_update`, flash, swap at boot | git server, boot loader, manager | stopped or without power at any step; local commits | a whole version to boot from; never a half one swapped in |
| modeld's use of the big model (`selfdrive/modeld/big_model.py`) | latest reply, warm-up count, frame given up, blend weight | `_on_reply`, `wait_for`, `select_frame`, `step` | bigmodeld | two threads; late, lost and overwritten replies against a deadline | the output of this frame from a warm phone, or the small model; each late reply counted once |
| manager (`system/manager/`) | process objects, last onroad state, exit reason | round over the list of processes: stop, wait, kill, start; clear parameters on transitions; clean up | every process, params, hardwared's messages | asynchronous stops, escalation to SIGKILL, waits of 5 s in the loop that serves all | what should run does, for this drive; what should not is soon gone; a shutdown ends |
| hardwared (`system/hardware/`) | thermal band, start conditions, battery estimate | hardware thread | manager, pandad, UI | hysteresis, timers, the user's switches | no start when hot; the shutdown of a parked car |
| card (`selfdrive/car/card.py`) at the start of a drive | where it is in the hand-over, what it has not written yet | ask for the OBD multiplexing, query the car, write CarParams and flags | pandad over params | an answer that does not say what it answers; a crash in between | the car of this drive is identified, over the right bus |
| pandad (`selfdrive/pandad/pandad.cc`, `panda_safety.cc`) | safety configured, what it read in the pass, panda's mode | a pass ten times a second | card and manager over params, hardwared | reads parameters one by one while they are cleared and written | the panda's safety mode is that of this car, once a drive |
| user interface, Wi-Fi (`system/ui/lib/wifi_manager.py`) | shown network and status, known profiles, an epoch | taps, signals of NetworkManager, worker threads | NetworkManager over D-Bus | three kinds of threads without a lock; calls that take time | shows the network the device is on, in the end; an old answer never undoes a newer tap |
| loggerd, deleter (`system/loggerd/`) | segments with lock files | rotate, delete | disk | directory that goes while it is looked at | keeps what is preserved or locked |
| bluetooth (`sunnypilot/system/bluetooth/`) | client, pairing, reconnection | a thread per request, maintenance loop, pairing worker | BlueZ | concurrent requests | one pairing at a time, no settings onroad |
| speed limit assist, ICBM, smart cruise (`sunnypilot/selfdrive/`) | small state machines with timers | one update per cycle | car state | confirmation, time-outs | no button without readiness |
| lane changes (`selfdrive/controls/lib/desire_helper.py`) | state, timer, direction | `update` | modeld | blinker, blind spot and torque in one frame | starts only when asked and clear |
| controlsd, planners, locationd, rest of the UI, messaging, sensors, lanlinkd, tools | see section 8 | | | | |

How the modelled parts meet:

- selfdrived calls MADS in its own thread; the two share the event lists and the timer.
- The capture threads of bigmodeld pair frames (`FramePairing`), the encoders turn pairs
  into segments, the sender writes them (`Bigmodeld`); the reply thread reads the same
  socket and may drop it (`ReplyLink`). A drop by the reply thread may come at any time in
  `Bigmodeld`; in `ReplyLink` the reasons for it are the subject.
- What the phone answers reaches modeld over a message; `BigReplyLatch` begins there, with a phone and a
  bigmodeld that may leave out replies.
- bigmodeld's curve targets and every toggle of selfdrived travel through params
  (`ParamStore`, `ParamQueue`).
- hardwared decides from pandad's ignition (and heat, time, switches) that a drive is on; manager and
  pandad hear it each in its own time. manager clears the parameters and starts card; card and
  pandad hand the car over to each other through parameters (`Onroad`).
- hardwared decides to shut down, manager does it (`Device`).
- updated is stopped by manager when the car starts, and its result is taken up by the
  launcher at the next boot; both sides are one module (`Updater`).

`PROJECT.json` lists every component with its status and the hazards of the code at their
lines, among them hazards of parts that no module covers yet.

## 2. Modules

### Engagement: `EngagementEvents`, `StateMachine`, `Mads`, `SelfdriveD`, `MCSelfdriveD`, `SelfdriveDProofs`

`EngagementEvents` gives the events and their types (`events.py`, sunnypilot `events.py`).
Both machines ask only whether a name or a type is present, so an event list is a set.
`commIssue` stands for every event of SOFT_DISABLE with NO_ENTRY, `canError` for every one of
IMMEDIATE_DISABLE with NO_ENTRY, `resumeBlocked` for NO_ENTRY alone; alerts are left out.

`StateMachine` has one action per state of `state.py`, each standing for the block of `update`
for that state. `Mads` has `update_events` as the composition of named pieces in the order of
`mads.py` (each rewrites the pair of lists), and its machine with one action per state.
`SelfdriveD` orders the calls of `step` by `pc`, one action per call: `data_sample`,
`update_events`, `state_machine`, `mads_events`, `mads_state_machine`, `publish`.
`ParamsThread` may change the parameters between any two of them, as the thread of
`selfdrived.py` does. What the car, the pandas and the other processes say is chosen anew in
every cycle. `initialized` becomes true in any cycle (its conditions are I/O).

### Uplink: `MetaCache`, `FrameScheduler`, `UplinkSender`, `FrameStream`, `Bigmodeld`, `MCBigmodeld`, `BigmodeldProofs`

`MetaCache` and `FrameScheduler` are the pure state of `meta_cache.h` and
`frame_scheduler.cpp`, as operators on records and as actions. `UplinkSender` has one action per
method that holds the sender's mutex; a slot is a set of at most one frame; a write that
blocks and stalls is a choice, not a clock. `Bigmodeld` composes them with the threads of
`main.cc`: the capture side drains the sender's events and submits pairs; each encoder's
callback takes its context, reports a gap in two steps (`CloseGate`, then `ReportGap`, as
the code takes one mutex after the other) and submits its segment; the writer connects,
writes, stalls, drops; the reply thread disconnects. Encoders, socket and phone are external:
an encoder returns outputs in order, makes an I frame when asked and every `Gop` frames, and
may swallow an output.

`FrameStream` is the abstract promise to the phone: on each connection, frames of this
connection, in order, one finished before the next, beginning with a pair of I frames.
`Bigmodeld` implements it under the mapping at its end (`ServerGetsAStream`). `MCBigmodeld` runs it in
behaviours of two kinds (`lossy`), which one run can hold where one with all of it could not: short ones
with losses, longer and deeper ones without. The properties that need healthy encoders (`DecodeChain`,
`GateIsServed`) are stated there.

### Replies: `ReplyLink`, `RepliesProofs`

The reply thread's loop in the steps in which it really takes the mutexes: read the epoch, ask
for the connection, read the socket, parse, fail. The phone's bytes are pieces that know the
socket they came from: HELLO is one piece, a REPLY a head and a tail, so that half a message
exists. The curve targets go from the reply thread through a slot to the calib thread and into
a parameter.

### The answer for a frame: `BigReplyLatch`, `RepliesProofs`

The reader thread takes a reply and its time of arrival (`Take`), then puts it into the latch under the
lock (`OnReply`). The main thread takes its picture, looks whether the link is alive, asks the latch (one
action per way out of `wait_for`; `Wait` and `Wake` are the condition variable) and blends. Time is the order of
the pictures and of their deadlines, and the moment of the look at the clock when the link is
dead. Replies carry a sequence of the phone and a position in it for the properties; the program sees the
flags only. The socket is a conflating one (`SubMaster`): a reply may be overwritten before it is
read.

### Pairing: `FramePairing`, `FramePairingProofs`

A trigger exposes both cameras; each may miss it and the wide one starts a little later. The
frames wait for `place_frame` in the order of their camera, each camera on its own thread, up
to `delay` triggers late. Times are in units of 5 ms. The model, not the code, knows the trigger
of a frame.

### Params: `AtomicParams`, `ParamStore`, `ParamQueue`, `ParamsProofs`

`ParamStore` has one action per system call of `params.cc` that others can see (write and sync
of the temporary file, lock, rename or unlink, sync of the directory, unlock), for any
number of threads that may be killed anywhere, and power losses. `AtomicParams` is what users of
the class rely on: single-step writes, of which only unsettled ones can be undone. `ParamQueue`
is the queue and the thread of `putNonBlocking` with the destructor; there a put is one step,
which `ParamStore` justifies, and may fail, which the thread does not notice.

### Updates: `Updater`, `MCUpdater`, `UpdaterProofs`

`Updater` follows one round of updated step by step (`pc`), the launcher's swap (`phase`), and the
files both work on (`fs`). The disk keeps the order of renames and unlinks, as a journal does, but
may lose the last of them before a sync, and with them the contents of files that were not
synced: `past` is the set of states a power loss may leave. `RoundFails` may come at any step,
`StopUpdated` (manager) too, `PowerLoss` at any step of anything. Directories are removed and
copied over several steps; the flag `.overlay_consistent` is a file of the copy.

### Drives and the device: `Manager`, `Onroad`, `Hardwared`, `Device`, `MCOnroad`, `MCDevice`, `ManagerProofs`

`Manager` has manager's loop as a walk over the list of processes (`manager.at` and the index): a
new message may clear parameters, then each process is stopped, waited for, killed or started as
`ensure_running` and `ManagerProcess` do, then the round ends, perhaps for good. A process is `none`,
`alive` or `dead` (gone, and not yet looked at), knows whether it was told to stop and the drive it was
started in; `Ends` is a process that goes, on its signal or by itself. That `join_process` gives up after
5 s is a choice of `Awaited` against `Kill`.

`Onroad` composes it with the hand-over of a drive: `card` has one action per parameter it writes or
waits for, `pandad` one per read of `fetchCarParams` and per decision of its pass. `CarParams` is the
number of the drive that it was written in, which is all that the safety mode may depend on.
hardwared is abstract there (any start with the ignition on, any stop); either of card and pandad may
crash. SIGINT ends card's main thread at its next step, while the thread of `putNonBlocking`
may still write.

`Hardwared` has a cycle that only looks at the ignition (`Look`) and one that moves the thermal band,
decides on the drive and on the shutdown (`Cycle`). The counts of frames and hours are classes (`off`,
`hour`) or small (`cycle`). `Device` composes it with `Manager`: its DoShutdown is manager's way to exit.

### Wi-Fi: `NetworkManager`, `WifiManager`, `WifiManagerProofs`

`NetworkManager` is the external service as `wifi_manager.py` uses it: saved profiles, an active
connection that goes through its states, and the signals of each change. `WifiManager` has one action
per stretch of a thread between two D-Bus calls: the taps, which write the state and start a worker,
the monitor with its queues per kind of signal, which are emptied by kind and not in order, and the
workers. `_user_epoch` is compared for equality with a copy only, so `fresh` holds the threads whose
copy is still the current one.

## 3. Runs

| Run | Question | Properties |
|---|---|---|
| `SelfdriveD_driver` | Does every pedal, button, door and switch do to the steering what its mode says, in any order and any cycle? | `DoorPausesSteering`, `BrakeStopsSteering`, `EntryChecked`, `DriverTurnsOn`, `SteeringOutlivesCruise` |
| `SelfdriveD_faults` | Do faults and a disagreeing panda end engagement, with the whole warning time for the driver? | `SoftDisableTimed`, `MismatchDisengages`, `SoftDisablingEnds` |
| `Bigmodeld_uplink` | With reconnections, lost outputs and refused segments: does the phone get a stream of its own connection, with the predicted I frames? With healthy encoders: is every frame decodable, is a closed gate always about to open? | `NoMixedConnections`, `MissIsStale`, `PredictionTrue`, `HeadIsDualIdr`, `ServerGetsAStream`, `DecodeChain`, `GateIsServed` |
| `BigReplyLatch_replies` | Does modeld drive with the reply of its frame, on time and of a warm phone, or with the small model, whatever order its threads take? | `AnswerIsSound`, `OneFate`, `HoldEnds` |
| `ReplyLink_link` | Do curve targets die with their connection, and is every connection served or dropped? | `OldPointsGo`, `ServedOrDropped` |
| `ParamStore_store` | Are values whole, durable and read at one moment, through kills and power losses? | `KeptOnDisk`, `ReadsAtOnce`, `Atomic` |
| `ParamQueue_queue` | Does the last value asked for win, whatever fails before it, and does a thread at work leave nothing behind? | `LastWins`, `ThreadTakesAll` |
| `FramePairing_threads` | Are pairs pictures of one moment, frames used once and numbered by time, and none lost while the threads keep up? | `SamePicture`, `OnceAndNoneLost`, `NearestSlot` |
| `Updater_swap` | Is there always a version to boot, and is what is swapped in complete, made from this BASEDIR and self-sufficient? | `Recoverable`, `SwapsItsBase`, `NeedsNoNetwork` |
| `Onroad_drive` | Do card and pandad of this drive agree on the safety mode of this drive's car, through crashes, stops and late messages? | `OfThisDrive`, `SafetyOfThisDrive`, `QueriedOverObd`, `DriveGetsItsMode` |
| `Device_power` | Do old processes go, drives begin cool, and shutdowns end, whatever the processes do? | `OverlapIsShort`, `StartsCool`, `ShutdownEnds` |
| `WifiManager_taps` | Does the screen show the device's network once all is quiet, and does nothing that was asked before a tap write over it? | `ShowsTheDevice`, `NothingStale` |

Every property of a passing run has a mutant in `PROJECT.json`: an operator with a plausible
bug (`X_Something`, next to the definition `X` it replaces, with a comment that begins
"Fault") under which TLC finds the property violated in the same run.

What single properties are for is said above each in its module. Some remarks:

- A module's `TypeOK` documents its variables and is in no run: TLAPS proves those of the modules that have
  proofs, where some say more than types (`Updater`: the flag stands beside a copy of something;
  `ParamStore`: a key is never torn).
- `AnswerIsSound` speaks of the sequences whose first reply came to the latch; section 7 says why.
- `BrakeStopsSteering`, `DriverTurnsOn`, `OldPointsGo` and `OnceAndNoneLost` have named parts, each about a
  stretch of the same story: the press and the hold of the brake; who asked, and unified
  engagement; decided and written targets; a frame used twice and one not used.
- `SoftDisablingEnds` includes MADS, whose timer has an exception; see section 7.
- `DriveGetsItsMode` is liveness with the ways out of it spelled out: a passive car, which never writes
  ControlsReady (`card.py:289`); a wait for the car's messages, for selfdrived or for the writing of ControlsReady
  that never ends, each an alternative of its own; and card that waits for ever for an answer of pandad,
  which comes about in three ways only (section 7).
- `EntryChecked` has one exception, of the code's own making: a paused MADS in Park, where a CAN time-out
  leaves no event (section 7).
- `LastWins` is about order, not about success: the value whose own put fails is lost. `ThreadTakesAll` is
  about the values that a thread still has to find, or that a call finds left behind; one that is left behind with no
  call after it stays (section 7).
- `NothingStale` is about answers of NetworkManager that were asked for before a tap. A signal that was sent before
  a tap and is handled after it carries no epoch, and the code lets it write.
- `SwapsItsBase` says that an update is installed over the commit it was made from and no other. It does not
  say that local work is kept, which section 7 is about.
- `SafetyOfThisDrive` leaves out passes that pandad made before manager had cleared the parameters
  (`early`); that these are real is an observation of section 7.
- `ShowsTheDevice` is stated for a quiet system and lists its exceptions as ghosts (`kept`, `undone`,
  a connection without a name); section 7 has the one a user sees.
- `DecodeChain` and `GateIsServed` are about behaviours in which the encoders lose nothing, so they say nothing
  of the gaps that the callbacks report; section 7 has what goes wrong there.
- `MissIsStale` is why `Bigmodeld` has no action for the branch `kGapMiss` of the callback: TLC
  shows that it is not reached.
- The second half of `OnceAndNoneLost` is stated for `delay = 1`: a matcher with one slot per camera must lose frames of a
  thread that is later than that. `SamePicture` and the first half hold for every delay.
- `Recoverable` allows, between the two `mv` of the launcher, a backup beside a whole new
  copy. There is no BASEDIR in this state, and nothing in the scripts repairs it: the data are
  there, the device does not boot by itself.

## 4. Bounds

Every bound is a constant. The sizes were chosen so that each action and disjunct fires and every
mutant dies.

- `SelfdriveD`: `CarStates` is a union of families, each of which varies one part of the car and
  keeps the rest in normal driving (pedals and cruise; doors, belts, gears; main switch and hands).
  Because a cycle compares with the last one and every sequence of families is possible, all pairs of
  situations occur. The driver run also has a CAN bus that times out, in Park and out of it, with a state of the
  car that is valid or not (7.8 million states). `SoftDisableTime` is 2 or 3 cycles for 300, `MismatchLimit` 2 samples for 200:
  what matters is the full, the running and the expired timer, and a counter below, at and reset.
  The proofs hold for every value.
- `Bigmodeld`: two connections, since all that is checked relates one connection to the one
  before; three pairs with losses and four without, so that the stream passes a key frame, a gap and a
  phase shift; `Gop` 3 for 20 and `WidePhase` within the first period (the code's 10 of 20); one and
  two frames inside an encoder. `LossyFrames` and `LossyDepth` bound the lossy kind, in which the last frame
  loses nothing, since no later frame could miss what was lost; `EncoderDepth`,
  `MaxFrames`, `MaxSkip` and `MaxConnections` (natural numbers, for the proofs) the other; they stop the run,
  so the deadlock check is off.
- `BigReplyLatch`: five pictures of which two pass in the warm-up of modeld, so that a frame is used, one
  missed and one late; a warm-up of two for 5 and a fade of two for 10; one new sequence, since a second only
  begins the count again. 7.5 million states.
- `ReplyLink`: three connections, because targets of the first may be overtaken by those of the second
  and reach the writer in the third; three unread pieces hold a HELLO and a whole REPLY.
- `ParamStore`: two keys, one of them flagged for `clearAll`, two values, two threads: mutual
  exclusion and lost updates are between two.
- `ParamQueue`: two keys, two values, three entries in the queue; every put may fail.
- `FramePairing`: four triggers with gaps of 10 or 13 units around the nominal 10, staggers 0 and 1,
  threads up to two triggers late. The tolerance of 2 units is the code's 10 ms. The gaps are a
  period at least (`GapsAssumption`), as `frame_scheduler.cpp:21` says of the sensor.
- `Updater`: three versions, of which the second needs another AGNOS and the third the first one's
  again, and one local commit.

- `Onroad`: two drives and one crash: what can be mixed up are this drive and the one before. The list
  of processes is card alone, so that a round is short; the proofs are for any list.
- `Device`: two processes, one for onroad and one for offroad, so that one starts while the other is
  waited for; temperatures that let a drive begin, in the overlap of the bands,
  and critical. `CycleFrames` is 1 for the code's frames of an onroad cycle.
- `WifiManager`: two networks, two workers besides the monitor, two taps, and one turn of the
  network by itself, so that the worker of the first tap may still wait for an answer at the second. The
  queues and the workers' calls do the rest: 5.3 million states. The proof is for any number of workers.

## 5. Fairness

Safety runs use none. The liveness properties assume:

- `SelfdriveD_faults`: weak fairness of `Step`. The control loop is real-time, waits for its messages
  with a time-out of 20 ms and has no lock that another process holds.
- `ReplyLink_link`: weak fairness of opening a socket, of the new connection, of the phone (it is
  healthy and keeps talking), of the reply thread and of the calib thread, each a loop of a thread
  that does nothing else and whose waits are bounded. That the link comes up at all is not claimed: a
  phone that closes every connection keeps it down.
- `ParamQueue_queue`: weak fairness of the call in progress and of the writing thread. Not of the next
  call: an owner may never write again, as card after ControlsReady.

- `Onroad_drive`: weak fairness of the clearing of the parameters, of manager's loop, of pandad's, and of what
  card does by itself (`CardGoesOn`: setting the request and writing parameters). card's other waits have no
  bound in the code, and none here: for the first CAN messages (`card.py:94-99`) and the answers of the
  firmware queries (opendbc), for selfdrived's initialization (`card.py:287`), for the thread that writes
  ControlsReady, which may have left it in the queue (`params.cc:232`), and for pandad in `obd_callback`
  (`card.py:42`). `DriveGetsItsMode` names each of them. That the processes of an earlier drive end is not
  assumed, manager kills them.
- `Device_power`: weak fairness of manager's loop only: it waits one second for a message and five for
  a process. hardwared and the processes may do anything or nothing.

The uplink has no liveness run. In place of "a closed gate opens" there is the safety property
`GateIsServed`: with nothing in flight, the gate is open or the next pair has been asked to be I
frames. It needs no assumption about cameras and phone.

## 6. Proofs

TLAPS proves, for all values of the constants that satisfy the ASSUMEs of the modules:

| Module | Theorem | Says |
|---|---|---|
| `SelfdriveDProofs` | `TypeCorrect`, `SoftDisableWindow`, `MismatchSafety`, `DoorSafety`, `EntrySafety`, `DriverDecides`, `BrakeSafety`, `SteeringStays` | types; `SoftDisableTimed`; `MismatchDisengages`; `DoorPausesSteering`; `EntryChecked`; `DriverTurnsOn`; `BrakeStopsSteering`; `SteeringOutlivesCruise` |
| `SelfdriveDProofs` | `WholeWindow`, `WindowRunsDown`, `MadsRunsDown` | `WindowIsWhole`, the first part of `SoftDisablingEnds`; the progress half of the other two |
| `BigmodeldProofs` | `TypeCorrect`, `ConnectionsApart`, `DualIdrFirst`, `StreamRefined`, `PredictionsHold`, `MissesAreStale` | types; `NoMixedConnections`; `HeadIsDualIdr`; the refinement of `FrameStream`; `PredictionTrue`; `MissIsStale` |
| `BigmodeldProofs` | `EveryFrameDecodes`, `ClosedGateIsServed` | with encoders that lose nothing: `DecodeChain`; `GateIsServed` |
| `RepliesProofs` | `LatchTypeCorrect`, `OutputIsSound`, `RepliesHaveOneFate`, `HoldIsBounded` | types; `AnswerIsSound`; `OneFate`; `HoldEnds` |
| `RepliesProofs` | `LinkTypeCorrect`, `DecidedTargetsAreOfNow`, `WrittenTargetsAreOfNow` | types; the two safety halves of `OldPointsGo` |
| `RepliesProofs` | `OldPointsFlowOut`, `GreetedConnectionServed` | what the liveness of `OldPointsGo` and `ServedOrDropped` rest on: points of a closed socket only move on; a connection whose HELLO was taken is reported as up |
| `ParamsProofs` | `TypeCorrect`, `Exclusion`, `Durability`, `Snapshots`, `Implements` | types; the lock is with the one thread inside a locked section, also after a kill; `KeptOnDisk`; `ReadsAtOnce`; the refinement of `AtomicParams` |
| `ParamsProofs` | `QueueTypeCorrect`, `LastAskedWins` | types of the queue and its thread; `LastWins` |
| `ParamsProofs` | `ValuesComeToHand` | the progress half of `ThreadTakesAll` |
| `FramePairingProofs` | `PairsMatch`, `FramesLeaveOnce`, `NumbersAreSlots`, `NoSlotTwice` | `SamePicture`; `OnceAndNoneLost`; `NearestSlot`; no index is given twice on a connection |
| `UpdaterProofs` | `TypeCorrect`, `AlwaysRecoverable`, `SwapIsOfItsBase`, `SwapNeedsNoNetwork` | types and the flag; `Recoverable`; `SwapsItsBase`; `NeedsNoNetwork` |
| `ManagerProofs` | `OnroadTypeCorrect`, `ProcessesAreOfThisDrive`, `SafetyIsOfThisDrive`, `QueryHasMultiplexing` | types; `OfThisDrive`; `SafetyOfThisDrive`; `QueriedOverObd` |
| `ManagerProofs` | `SafetyIsSetOnce`, `NoOtherWay` | the mode of the car is set once a drive and kept; the safety half of `DriveGetsItsMode`: card waits in vain in no way but those named |
| `ManagerProofs` | `DeviceTypeCorrect`, `OverlapStaysShort`, `DriveStartsCool` | types; `OverlapIsShort`; `StartsCool` |
| `ManagerProofs` | `NothingOutlivesManager`, `ShutdownComesNearer`, `ShutdownIsAskedParked` | the safety and the progress half of `ShutdownEnds`; no drive is on when hardwared asks for it |
| `WifiManagerProofs` | `WifiTypeCorrect`, `ScreenShowsTheDevice`, `NothingStaleComesUp` | types; `ShowsTheDevice`; `NothingStale` |

Each module defines an inductive invariant (`IInv`; `MInv`, `OInv` and `DInv` for manager, drive and
device; `LInv` and `LinkInv` for the latch and the reply link; `QueueInv`; `WInv`), shows that it holds
initially and that every action preserves it, one step per action, and derives the theorems from it.
Where one invariant rests on another (`CycleInv`, `SharedWindow`, `OrderInv`, `PredictInv`, `ChainInv`,
`ServedInv`, `OnceInv`, `IndexInv`, `ObdInv`, `TalkInv`, `LeavesNothing`) it is proved on top of the first.

- *Engagement.* `SoftDisableTimed` is not inductive alone: MADS writes the same timer and only while the
  stock machine is off, which the flags show (`FlagsFollowState`). `MismatchDisengages` needs what
  is on its way inside the cycle: between the sample that takes a counter to the limit and the machine
  that must act, the event is in the list (`MismatchPending`, `LateralMismatchPending`), and nothing is
  engaged before initialization (`OffUntilInitialized`). The promises of MADS are about one run of its
  machine and are proved from `CycleInv`, which says what the list of events tells at each point of the
  cycle: after the samples and the events of the car, an entry that must not happen has an event that
  forbids it (`EntryDenied`), an open door at rest and a pressed brake have theirs (`OpenAtRest`,
  `Braked`), and after MADS rewrote the list its silent twins stand for what it removed (`Rewritten`).
  That MADS finds a whole window is about two machines on one timer: between two runs of the stock machine a
  MADS that may still begin to soft disable leaves it no window under way, and when MADS acts beside a stock
  machine that is soft disabling, the event for it is in the list and the timer is full if MADS may begin
  (`SharedWindow`).
- *Uplink.* `HeadIsDualIdr` needs that when the gate is open and nothing has been sent, what is queued
  is a complete pair of I frames (`HeadReady`), and that a connection that is down has its
  gate closed (`ClosedWhenDown`). Types of the encoder side are needed because outputs flow into the
  sender. The refinement needs the order of the indices (`OrderInv`): contexts are made in this order, each
  encoder gives its outputs back in it, so a segment that is still to come belongs to a later frame
  than all that hold a segment of its stream (`SegmentsAhead`), and the capture threads are behind the
  sender in the connections they know (`EventsOrdered`). The predictions need `PredictInv`: a stream that
  is not asked for an I frame makes its next one where the scheduler expects it
  (`next_idr_seq + since_idr = seq_pos + Gop`), the contexts of an encoder are numbered without a hole up to
  the last frame, so a loss is told from a stale output, and a frame carries its prediction from the
  pair that was encoded to the wire.
- *Uplink, decoding.* The head gate compares a frame with the one before it only; that a frame which joins an
  open stream will be followed by all later ones is a matter of what is still inside the encoders.
  `ChainInv` speaks of the segments that are due on the connection: behind one that is due all later ones
  are (`DueToTheEnd`), numbers of the camera and indices of the connection are in one order
  (`MarksAgree`), a frame whose both segments are due was not dropped (`DroppedBehind`), and while the
  gate is open every segment after the newest frame is due (`Covered` in `SlotsChained`). `ServedInv`
  is about the way from a closed gate to the next request: the capture threads have an event before them that
  asks (`Asks`), or the request is made, or a whole pair is still to reach the gate (`PairComes`). The
  filter of repeated drops cannot swallow the event, because what is due or waits was never reported
  (`PairsUnreported`, `QueuedUnreported`, `ReportsBehind`). Both are for any number of frames and
  connections, and for encoders that lose nothing.
- *Latch.* The latch knows neither sequences nor positions, it counts the replies since the last flag.
  `LInv` compares the two: replies reach the latch in the order they were made (`InOrder`), so since the
  flag of a sequence came no more of them than the position of the last says (`Counted`), and when the
  flag was lost the sequence is not among those seen (`SeenBefore`).
- *Reply link.* `LinkInv` says what the thread has read, cached and decided only for the states in which the
  epoch it knows is that of the connection that is up (`OfNow`): all of it is then of this socket. Every
  step into such a state is a look at the epoch, which throws away the rest; the halves of two sockets
  that section 7 tells of are joined in the other states. `OnItsWay`: what was decided last is in the
  parameter, or the last on its way there. For a socket that is closed, `OldPointsFlowOut`
  is the order of the places on the way: framer, cache, decision, slot, calib thread, parameter; each gets its
  points from those before it only, and the framer gets none, because what is unread is of the open socket.
  That the parameter loses old points *in time* is liveness and stays with TLC.
- *Params.* What the invariants leave out is what each operation knows between its steps: a put waiting
  for the lock has synced its file; what was done under the lock so far cannot be undone by another
  thread, because of `LockMatches`. The refinement maps each step to a write, a settling or a
  stutter of `AtomicParams`. For the queue, what was asked last for a key is the last of its values on
  the way, or in the directory when none is (`Settled`); the value in the thread's hand is on the way too.
  A put that fails takes a value from this line without writing it: only when it was the last of its key
  does the key end with another (`unwritten`).
- *Pairing.* The matcher compares only times. `Apart` says that frames of two triggers that wait or are on
  their way differ by more than the tolerance; it follows from `SyncAssumption` (every gap between
  triggers exceeds the stagger and the tolerance together) and from `NotAhead`. `OnceInv` adds that what
  waits for a thread is behind all that was placed (`InTurn`) and that frames of one trigger are within
  the tolerance (`Near`), so that the second of two halves finds the first. `IndexInv` adds that
  road frames are numbered in the order of their triggers and each is a period later than all numbered
  before it (from `GapsAssumption`), so that the slot nearest to a frame is above the last one given and
  the guard of `frame_scheduler.cpp:22` never moves a frame off it.
- *Updates.* `Sound` and `Ready` speak of every state that a power loss may leave: the flag stands
  only beside a whole, synced copy; there is a BASEDIR or both halves of a swap; a copy beside a
  fresh `.overlay_init` was made from this BASEDIR; what the launcher would take has its packages
  and its AGNOS. `PlaceInv` and `StepInv` add what updated has made sure of at each step, and that from
  the first step that touches the copy to the last there is no flag.
- *Manager.* `MInv` is the types, `OfThisDrive`, and what manager has settled at each point of its round:
  `Walk` (behind the walk that stops, what should not run is signalled or gone, and gone when the round
  before had the same walk) and `Begins` (when a drive begins, nothing of the drive before is left
  unsignalled). `OverlapIsShort` is the last part of `Walk`.
- *Drive.* `SafetyOfThisDrive` relates a mode to a parameter that was read some steps before.
  `Behindhand` says that a drive manager has not seen begin has a higher number than its own,
  `CarParamsOfDrive` that from the clear on CarParams is empty or of manager's drive, `ReadsBegun` and
  `UsedBegun` that a pass that is not `early` reads, and has used, only what was written after that clear.
  The query of the firmware has `ObdInv` on top: as long as card is before the end of its query the
  request stands (`Requested`), a pandad that is set up for this drive (`Sync`) has answered it only after
  it switched (`Served`), and what card takes for an answer is this pandad's, or no pandad is in step with
  the drive (`AnswerIsOwn`, `Missed`). `TalkInv`, on top of it, is the other direction, that nobody waits
  in vain: card asks for what it has not got (`AsksForMore`), nobody calls the firmware done before card does
  (`Undone`), an answer that card has is one that pandad has given whole, the flag included (`GivenWhole`),
  and a request that card waits for is one that pandad has still to answer (`OpenIsAnswered`,
  `CloseIsAnswered`). `DoneOnce` is what `SafetyIsSetOnce` needs: a configured pandad is idle.
- *Device.* `Heat` adds to `StartsCool` that while it is hot the ok band is not reached. `LeavesNothing` says
  of each of the two walks of `manager_cleanup` what the processes it has passed are: signalled or gone, then
  gone.
- *Wi-Fi.* The signals that the monitor has not served stand in one line, what it has taken in before what
  is on the wire; it empties its queues by kind, but of the states in the line only the last matters. While
  there is one, the last agrees with a device that has settled (`LastWord`); when there is none, the screen
  agrees with the device, or the monitor still writes an answer that holds, or a worker has yet to write or
  to move the device (`Told`, `Responsible`). An answer that a worker holds holds too, unless it is no
  longer `fresh` (`ReadHolds`, `PathHolds`). `NothingStale` is from `OldInv`: whoever waits for an answer since before
  the user's last choice (`old`) is not `fresh`, so its answer is thrown away; a thread leaves `old` with its answer
  and is `fresh` again only by asking anew.

Of liveness TLAPS proves what is left when fairness is taken away, in the form of a measure in the natural
numbers that bounds how long it may still take, that no step raises, and that every step of the process in question
lowers: `CallsLeft` and `MadsCallsLeft` for soft disabling (the second has a term, `StockMayStart`, for
the windows that the stock machine may still start while MADS waits), `Left` for the shutdown, `StepsToHand` for a queued value. That
such steps are taken at all is fairness; the runs check the two together.

Only model-checked:

- The liveness properties themselves, which need fairness and ENABLED: `SoftDisablingEnds`, `OldPointsGo`,
  `ServedOrDropped`, `ThreadTakesAll`, `DriveGetsItsMode`, `ShutdownEnds`. For the last part of
  `DriveGetsItsMode` (pandad is configured in the end), for the loss of the points in `OldPointsGo` and for
  the way of a connection to its HELLO in `ServedOrDropped` there is no measure proved: they pass
  through loops (passes of pandad, reconnections) that nothing bounds but fairness.

Every safety property of every run is a theorem.

No module declares a RECURSIVE operator; sequences are handled by the community modules.
The proofs need no induction over data; that a set of numbers has a least one (`WFMin`) serves in two places.

## 7. Where the code and its words part

The repository's own words that the code does not keep, found while modelling; the models follow the
code:

1. `sunnypilot/mads/state.py:52` says that an immediate disable always has priority; with a pause
   request in the same cycle the block above wins and MADS pauses, to resume by itself.
2. `common/params.cc:103` asserts that the queue is empty when the thread has ended; a value pushed
   between the thread's last look and the end of its future stays. Without
   a destructor it stays too: for ControlsReady, which card puts once, the panda then never gets the mode
   of the car.
3. `selfdrive/bigmodeld/main.cc:395` says that half a message is thrown away on a new connection; the
   epoch is read before the socket, and a reconnection in between joins two halves.
4. `system/ui/lib/tests/test_handle_state_change.py:861` says that after a refused activation the
   worker finds A still connected and shows it, but its mock replaces the reading: the guard of
   `wifi_manager.py:263` keeps the user's "connecting" when the state is read again, and no signal
   comes that would end it. `ShowsTheDevice` has this as `kept`.
5. `launch_chffrplus.sh:63-65` and `system/updated/updated.py:152-156` say that local development work is
   not overwritten. A commit in BASEDIR only puts off the update that was ready: the next round of updated
   finds the overlay stale, rebuilds it from the committed BASEDIR, touches `.overlay_init` after the commit, and
   resets the overlay to the server's branch (`updated.py:364-366`); the boot after that swaps it
   in. The commit is then in the old directory only, until that is removed.

Further observations:

- `mads/state.py:47` and `:69`: "reset on entrance": MADS restarts the timer only while the stock
  machine is off. A stock machine in preEnabled ignores SOFT_DISABLE and starts no timer either, so
  MADS enters soft disabling with what is left of an older one (an exception in
  `SoftDisablingEnds`).
- `mads/mads.py:193-194` asks whether a type (`lkasEnable`) is among names, which is never so: in
  DISENGAGE mode the brake does not block the LKAS button of the same cycle.
- `mads/mads.py:43`: DisengageOnAccelerator is read once, while selfdrived refreshes it: after a
  change of the setting the gas pedal is taken for the brake. `BrakeStopsSteering` excludes cycles with
  a rising gas pedal for this.
- `selfdrived.py:368-371` and `:451-453`: a CAN time-out adds canBusMissing and not canError, and in Park, with
  MADS enabled, canBusMissing is removed. Nothing is then in the list that says that the car's state is not
  valid (commIssue is not raised beside a CAN time-out either), and a paused MADS resumes on it. The comment says
  that the event is muted for a MADS in Paused state.
- `params.cc:242`: the writing thread drops the result of `put`. A value that cannot be written is lost, and the
  caller of `putNonBlocking` is not told.
- `frame_scheduler.cpp:21` takes pictures to be 50 ms apart at least, `pair_matcher.h:8` has measured 49 ms. The
  rounding to the nearest slot bears this; `NearestSlot` is stated for a period at least.
- `wifi_manager.py:422-424`: the epoch is on the lookups, not on the signals. A signal sent before a tap and
  handled after it is taken for one of the new connection.
- `selfdrived.py:504` speaks of two samples; the counter of `:335` is cumulative up to 200.
- `uplink_sender.h:111`, `.cpp:269`: after a gap a pair of I frames from before the gap may reopen the
  gate, if an encoder loses an output meanwhile; what follows is not decodable until the next pair.
- `main.cc:1024`: the index of a drop on an old connection may hide one of the new; the gate then stays
  unserved for one frame.
- `big_model.py:141`, `:158`: a socket of `SubMaster` keeps the newest message only. When two replies come
  between two reads of the thread, the first is gone, and with it the flag that a new sequence began:
  the next replies are used though the phone has just lost its state, which the docstring of
  `wait_for` excludes. Only then; `AnswerIsSound` is about the sequences whose flag arrived.
- `main.cc:397`, `:469`: a HELLO read under the old epoch makes the session drop the connection as one
  whose first message was not HELLO; it recovers by reconnecting.
- `selfdrive/car/card.py:42`: ObdMultiplexingChanged says that there was a change, not which. A pandad
  that was started again during the query finds the multiplexing as it should be and never tells;
  so does one that took up the OBD request of the drive before, which it can read until manager
  has cleared it (`early`), or one that did not hear a short end of a drive (`configured` stays).
  card then waits for ever: the exceptions of `DriveGetsItsMode`.
- An ignition that goes off and on while hardwared ends and begins the drive may pass pandad unheard:
  it goes on with the mode it has, and closes the relay.
- The old card's ControlsReady, put without waiting, may land after manager's clear: pandad then reads an
  empty CarParams and dies of it.
- After a crash of card the parameters of the same drive are there, so pandad may be in the mode of
  the car while the next card queries it.
- A round of manager may take 5 s for each process that does not end; an onroad cycle of one second
  may fall into it and be missed.
- `power_monitoring.py`: VOLTAGE_SHUTDOWN_MIN_OFFROAD_TIME_S (60 s) has no effect beside the 300 s of
  DELAY_SHUTDOWN_TIME_S.
- `updated.py:474`: a signal that asks for an update during a round sets `user_request`, which the end of
  the round resets; the sleep then ends at once, but the next round does what it would have done
  unasked.

## 8. What is not modelled, and why

Inside the modelled parts:

- selfdrived: alerts and `current_alert_types`; the checks that raise one event of a class each
  (represented by the class); dashcam (`CP.passive`) and notCar; events of `car_events_sp` and of the
  longitudinal plan; repeated entries of a list. Cars without a main cruise button (`NoMainCruise`) are in
  the module but in no run.
- bigmodeld: search for the phone, byte layouts, warp, stage times. The cameras are given one frame
  counter.
- modeld: the network and its parsing, the values that are blended, stage times, the estimate of the frame
  delay, taking and clearing the count of late replies, BigmodelToggle off (nothing is asked), replies that
  are too short (the thread skips them).
- replies: contents of messages; the text of the link state; a failing write of the parameter.
- params: failing `flock`; a put that fails in `Onroad`, where all succeed (failures are the subject of `ParamStore`
  and `ParamQueue`); creation of the directory; temporary files left by kills; mixed
  blocking and non-blocking writes of one key.
- updated: the parameters it shows, waiting for requests, clock, metered connection and network (their
  decisions are the choice between `SkipFetch` and `FetchUpdate`); the marks in BASEDIR and copied
  into FINALIZED, because `git clean -xdff` of the checkout removes them; a wrong clock, which
  could make the comparison of file times in the launcher miss a commit; the boot loader's fallback.

- manager: processes that run neither with the drive nor without it (always, by a toggle, daemons that
  outlive manager), the map target, CLEAR_ON_IGNITION_ON, IsOffroad, a restart of manager itself. The round
  before its loop counts as a round.
- hardwared: fans, lights, modem, the offroad alerts, a restart of it, the estimate of the battery
  (whose result is the choice `drained`).
- card: the choice between a cached and a new query, recognition of the car, the loop of controls.
  CarParams and CarParamsSP count as one. pandad: SPI, several pandas, its state messages but the ignition.
- Wi-Fi: startup (`_init_connections`), tethering, scans, the list of networks, metered settings; an
  interruption of a thread between two D-Bus calls; the limit of 10 signals in each queue
  (`SIGNAL_QUEUE_SIZE`), behind which the oldest are dropped.
- uplink: decoding and the service of the gate when encoders lose outputs; what the callbacks then report in two
  steps is in the model, but no property is about it (hazard at `main.cc:1024`).
- `QueriedOverObd` is about the time before a crash of pandad or card; what a restarted pandad does to a query is
  in section 7.

Whole components:

- Control laws, estimators and networks (controlsd, planners, locationd, calibration, model parsing) compute
  over real numbers; there is little order of steps in them.
- Car ports and the panda firmware are submodules that are empty in this repository.
- Cameras, sensors, GPS and modem are device I/O; the rest of the UI, lanlinkd and tools show and edit what
  others decide.
- What is planned is in the next section.

## 9. Plan

The order is by what can hurt the driver or the device; done: engagement, uplink, replies, params,
pairing, updates, the hand-over of a drive, manager, hardwared, Wi-Fi, the latch of replies. Left:

1. `SpeedLimitAssist`, `IcbmButtons`, `LaneChange`: state machines with timers, with one run each or
   one together.
2. `Deleter` with loggerd's locks, `BluetoothDaemon`, the waiting of updated for requests, pandad's SPI
   retries, the set speed of `cruise.py`.
3. `BigReplyLatch` composed with the order of replies that `ReplyLink` allows.

Proofs: a new component brings its own; a measure for the hand-over of a drive, from the clear to a configured
pandad; `ParamQueue` over `ParamStore` instead of a put in one step; a
frame of the uplink whose encoders lose outputs, for which `DecodeChain` holds from the next pair of I
frames on.

Runs are few on purpose: a new component takes the place of a weaker question, or joins an existing
run.

## 10. How to run

    tlc -workers 2 -config Updater_swap.cfg MCUpdater     # any run: see "runs" of PROJECT.json
    tlapm UpdaterProofs.tla                               # any *Proofs module

On two cores the runs take from one second to three minutes (`SelfdriveD_driver`, `Bigmodeld_uplink`,
`BigReplyLatch_replies`, `Onroad_drive`, `WifiManager_taps` and `Device_power` are the long ones, the first three with 7.8, 1.2 and
7.5 million states); the proofs take a few minutes in all.
