-------------------------------- MODULE Bigmodeld --------------------------------
(***************************************************************************)
(* bigmodeld sends pairs of camera frames, encoded by two hardware         *)
(* encoders, to the phone that runs the big model (bigmodeld/main.cc).     *)
(*                                                                         *)
(* Five threads meet here.  The capture threads pair frames and submit     *)
(* them, under state_mtx, after they have drained the events of the sender;*)
(* they are one process.  Each encoder returns its outputs in order on a   *)
(* callback thread of its own, which looks the frame up, reports gaps and  *)
(* submits the segment, taking one mutex after the other.  The writer      *)
(* thread runs the sender; the reply thread disconnects it.                *)
(*                                                                         *)
(* Outside the code: the encoders (an I frame when asked and every Gop     *)
(* frames; an output may be swallowed), the socket and the phone.          *)
(***************************************************************************)
EXTENDS UplinkSender, MetaCache

CONSTANTS
  MaxFrames,       \* bound on the pairs of a behaviour
  MaxSkip,         \* bound on the time slots without a pair between two pairs
  EncoderDepth,    \* frames inside an encoder: the buffers of the pool
  Swallows,        \* may an encoder lose an output?
  LargeSegments    \* may a segment exceed the size the phone accepts?

ASSUME BigmodeldConstants ==
  /\ MaxFrames \in Nat
  /\ MaxSkip \in Nat
  /\ EncoderDepth \in Nat \ {0}
  /\ Swallows \in BOOLEAN
  /\ LargeSegments \in BOOLEAN

VARIABLES
  frames,       \* camera frame counter: pairs submitted so far
  draining,     \* is the lock holder inside drain_events_locked
  batch,        \* the events it swapped out of evs
  cur_epoch,    \* Bigmodeld.cur_epoch_
  frame_idx,    \* the next index of the FrameIndexer
  meta,         \* the MetaCache of each stream
  enc,          \* frames inside each encoder
  since_idr,    \* frames of each encoder since its last I frame
  out           \* the output each callback thread works on, if any

captureVars == <<frames, draining, batch, cur_epoch, frame_idx>>
encoderVars == <<enc, since_idr>>
vars == <<senderVars, evs, wire, schedVars, captureVars, meta, encoderVars, out>>

Init ==
  /\ SenderInit
  /\ SchedulerInit
  /\ frames = 0
  /\ draining = FALSE
  /\ batch = <<>>
  /\ cur_epoch = 0
  /\ frame_idx = 0
  /\ meta = [s \in Streams |-> EmptyMeta]
  /\ enc = [s \in Streams |-> <<>>]
  /\ since_idr = [s \in Streams |-> Gop]
  /\ out = [s \in Streams |-> {}]

-----------------------------------------------------------------------------
(* place_frame: drain the events, then pair and encode *)

PlaceFrame ==
  /\ ~draining
  /\ draining' = TRUE
  /\ batch' = evs
  /\ evs' = <<>>
  /\ UNCHANGED <<senderVars, wire, schedVars, frames, cur_epoch, frame_idx, meta,
                 encoderVars, out>>

DrainNewConnection(e) ==
  /\ e.ev = "kNewConnection"
  /\ cur_epoch' = e.epoch
  /\ frame_idx' = 0
  /\ meta' = [s \in Streams |-> MetaClear(meta[s])]
  /\ OnConnect

DrainDrop(e) ==
  /\ e.ev \in {"kDrop", "kHeadBarrier"}
  /\ OnFrameDropped(e.idx)
  /\ UNCHANGED <<cur_epoch, frame_idx, meta>>

DrainEvent ==
  /\ draining
  /\ batch # <<>>
  /\ batch' = Tail(batch)
  /\ \/ DrainNewConnection(Head(batch))
     \/ DrainDrop(Head(batch))
  /\ UNCHANGED <<senderVars, evs, wire, frames, draining, encoderVars, out>>

Context(idx) ==
  [frame_id |-> frames + 1, frame_idx |-> idx, conn_epoch |-> cur_epoch,
   pred |-> PredictedIdr]

(* The I frames the encoders will make of the next pair. *)
EncodedIdr == {s \in Streams : s \in Requested \/ since_idr[s] = Gop}

EncodePair ==
  /\ draining
  /\ batch = <<>>
  /\ frames < MaxFrames
  /\ \A s \in Streams : Len(enc[s]) < EncoderDepth
  /\ draining' = FALSE
  /\ frames' = frames + 1
  /\ \E skip \in 0..MaxSkip :
       /\ frame_idx' = frame_idx + skip + 1
       /\ meta' = [s \in Streams |-> MetaPush(meta[s], Context(frame_idx + skip))]
  /\ enc' = [s \in Streams |->
               Append(enc[s], [id |-> frames + 1, idr |-> s \in EncodedIdr])]
  /\ since_idr' = [s \in Streams |-> IF s \in EncodedIdr THEN 1 ELSE since_idr[s] + 1]
  /\ OnFrameSubmit
  /\ UNCHANGED <<senderVars, evs, wire, batch, cur_epoch, out>>

(* The frame waits for its other half, or replaces one that did. *)
NoPair ==
  /\ draining
  /\ batch = <<>>
  /\ draining' = FALSE
  /\ UNCHANGED <<senderVars, evs, wire, schedVars, frames, batch, cur_epoch, frame_idx,
                 meta, encoderVars, out>>

-----------------------------------------------------------------------------
(* on_encoded: the callback of an encoder *)

Swallow(s) ==
  /\ Swallows
  /\ enc[s] # <<>>
  /\ enc' = [enc EXCEPT ![s] = Tail(@)]
  /\ UNCHANGED <<senderVars, evs, wire, schedVars, captureVars, meta, since_idr, out>>

(* The events of the callbacks carry no epoch. *)
GapEvent(idx) == [ev |-> "kDrop", idx |-> idx, epoch |-> 0]

(* What is left to do for an output: gaps to report, then the segment.     *)
(* Nothing without a context; that a miss is never taken for a gap in the   *)
(* stream, which would be reported too, is the invariant MissIsStale.      *)
Output(s, o, large) ==
  IF TakeResult(meta[s], o.id) # "kHit" THEN {}
  ELSE LET om == Taken(meta[s], o.id)
           dead == DeadBefore(meta[s], o.id)
       IN {[om |-> om, idr |-> o.idr, submit |-> ~large, gate |-> FALSE,
            gaps |-> (IF dead = <<>> THEN <<>> ELSE <<GapEvent(Head(dead).frame_idx)>>)
                       \o (IF large THEN <<GapEvent(om.frame_idx)>> ELSE <<>>)]}

TakeContext(s) ==
  /\ enc[s] # <<>>
  /\ out[s] = {}
  /\ enc' = [enc EXCEPT ![s] = Tail(@)]
  /\ meta' = [meta EXCEPT ![s] = AfterTake(@, Head(enc[s]).id)]
  /\ \E large \in {FALSE, LargeSegments} :
       out' = [out EXCEPT ![s] = Output(s, Head(enc[s]), large)]
  /\ UNCHANGED <<senderVars, evs, wire, schedVars, captureVars, since_idr>>

(* A gap is reported in two steps: notify_stream_gap closes the gate, then  *)
(* the event goes to the capture threads.                                  *)
CloseGate(s) ==
  \E o \in out[s] :
    /\ o.gaps # <<>> /\ ~o.gate
    /\ NotifyStreamGap
    /\ out' = [out EXCEPT ![s] = {[o EXCEPT !.gate = TRUE]}]
    /\ UNCHANGED <<connected, conn_epoch, inflight, queued, sent, dropped, evs, wire,
                   schedVars, captureVars, meta, encoderVars>>

ReportGap(s) ==
  \E o \in out[s] :
    /\ o.gaps # <<>> /\ o.gate
    /\ evs' = Append(evs, Head(o.gaps))
    /\ out' = [out EXCEPT ![s] = IF Len(o.gaps) = 1 /\ ~o.submit THEN {}
                                 ELSE {[o EXCEPT !.gaps = Tail(@), !.gate = FALSE]}]
    /\ UNCHANGED <<senderVars, wire, schedVars, captureVars, meta, encoderVars>>

SubmitSegment(s) ==
  \E o \in out[s] :
    /\ o.gaps = <<>>
    /\ Submit(s, o.om, o.idr)
    /\ out' = [out EXCEPT ![s] = {}]
    /\ UNCHANGED <<wire, schedVars, captureVars, meta, encoderVars>>

Capture == PlaceFrame \/ DrainEvent \/ EncodePair \/ NoPair

Callback(s) == TakeContext(s) \/ CloseGate(s) \/ ReportGap(s) \/ SubmitSegment(s)

Writer ==
  /\ StepBlocked \/ StepSent \/ StepError \/ StepStall \/ Connect
  /\ UNCHANGED <<schedVars, captureVars, meta, encoderVars, out>>

Reply ==
  /\ NotifyDisconnect
  /\ UNCHANGED <<schedVars, captureVars, meta, encoderVars, out>>

Next ==
  \/ Capture
  \/ Writer
  \/ Reply
  \/ \E s \in Streams : Callback(s) \/ Swallow(s)

Spec == Init /\ [][Next]_vars

-----------------------------------------------------------------------------
(* Properties                                                              *)

Events   == {"kNewConnection", "kDrop", "kHeadBarrier"}
EventRec == [ev : Events, idx : Nat, epoch : Nat]
Contexts == [frame_id : Nat, frame_idx : Nat, conn_epoch : Nat, pred : SUBSET Streams]
Frames   == [idx : Nat, epoch : Nat, id : Nat, has : SUBSET Streams, idr : SUBSET Streams,
             pred : SUBSET Streams]
Caches   == [q : Seq(Contexts), pushed_since_clear : BOOLEAN, last_pushed_id : Nat]
GapRecs  == {e \in EventRec : e.ev = "kDrop"}
Outputs  == [om : Contexts, idr : BOOLEAN, submit : BOOLEAN, gate : BOOLEAN,
             gaps : Seq(GapRecs)]

SlotOK(slot) == slot \in SUBSET Frames /\ \A f, g \in slot : f = g

SenderOK ==
  /\ connected \in BOOLEAN /\ stream_open \in BOOLEAN /\ sent \in BOOLEAN
  /\ conn_epoch \in Nat
  /\ SlotOK(inflight) /\ SlotOK(queued) /\ SlotOK(wire)
  /\ dropped \in Seq(Nat)
  /\ evs \in Seq(EventRec)

CaptureOK ==
  /\ seq_pos \in Nat /\ recent_drop \in Seq(Nat)
  /\ pending_req \in SUBSET Streams /\ need_req \in SUBSET Streams
  /\ next_idr_seq \in [Streams -> Nat]
  /\ frames \in Nat /\ frame_idx \in Nat /\ cur_epoch \in Nat
  /\ draining \in BOOLEAN
  /\ batch \in Seq(EventRec)

EncodersOK ==
  /\ meta \in [Streams -> Caches]
  /\ enc \in [Streams -> Seq([id : Nat, idr : BOOLEAN])]
  /\ since_idr \in [Streams -> Nat]
  /\ out \in [Streams -> SUBSET Outputs]

(* The states of the uplink: every slot of the sender holds at most one    *)
(* frame, whatever order the callbacks and the writer take                 *)
(* (uplink_sender.cpp:25-45, 215-223).                                     *)
TypeOK == SenderOK /\ CaptureOK /\ EncodersOK

(* What the sender holds or the server got belongs to the connection of    *)
(* now, however late the outputs of an earlier one come: a frame of theirs *)
(* carries an index of another numbering (uplink_sender.cpp:85).           *)
NoMixedConnections ==
  \/ ~connected /\ inflight \cup queued = {}
  \/ connected /\ \A f \in inflight \cup queued \cup wire : f.epoch = conn_epoch

(* The first frame of a connection is a pair of I frames, in the stream    *)
(* and by its flags; the decoders of the server start on it                *)
(* (uplink_sender.cpp:60-74, 215-223).                                     *)
HeadIsDualIdr ==
  [][\A f \in wire' : wire = {} => Complete(f) /\ DualIdr(f)]_vars

(* A frame that reaches the server is an I frame or follows the last one.  *)
ChainKept ==
  \A f \in wire' \ wire : DualIdr(f) \/ \E g \in wire : g.id + 1 = f.id

(* The flags of a frame tell its I frames before both were encoded: what   *)
(* the scheduler predicts from its requests is what the encoders make, over *)
(* reconnections, drops and the phase shift (frame_scheduler.cpp:49-74).   *)
PredictionTrue == \A f \in wire : f.pred = f.idr

(* An output without a context is never taken for a gap in the stream: the *)
(* contexts of other frames are gone only with those of older ones         *)
(* (meta_cache.h:58-80).                                                   *)
MissIsStale ==
  \A s \in Streams : enc[s] # <<>> => TakeResult(meta[s], Head(enc[s]).id) # "kGapMiss"

Quiet ==
  /\ evs = <<>> /\ batch = <<>>
  /\ queued = {} /\ inflight = {}
  /\ \A s \in Streams : enc[s] = <<>> /\ out[s] = {} /\ meta[s].q = <<>>

GateServed == connected /\ ~stream_open /\ Quiet => need_req = Streams

(* On every connection the server gets a stream of whole frames, in order, *)
(* of this connection, from a pair of I frames on.                         *)
Stream == INSTANCE FrameStream WITH
  Indices <- 0..(MaxFrames * (MaxSkip + 1)),
  up      <- connected,
  epoch   <- conn_epoch,
  begun   <- IF sent THEN {f.idx : f \in inflight} ELSE {},
  got     <- {[idx |-> f.idx, epoch |-> f.epoch, dual |-> DualIdr(f)] : f \in wire}

ServerGetsAStream == Stream!StreamSpec
===============================================================================
