----------------------------- MODULE BigmodeldProofs -----------------------------
(***************************************************************************)
(* For any number of frames and connections and any period of I frames:    *)
(*   - no frame of an earlier connection is ever held or sent, and the     *)
(*     first frame of a connection is a pair of I frames (IInv);           *)
(*   - the server receives a stream of whole frames in the order of their  *)
(*     indices: Bigmodeld implements FrameStream (OrderInv);               *)
(*   - what the scheduler predicts of a frame is what the encoders make of *)
(*     it, and an output without a context is no gap (PredictInv);         *)
(*   - while no encoder loses an output, every frame the server gets can   *)
(*     be decoded (ChainInv), and a closed head gate has somebody who will *)
(*     open it (ServedInv).                                                *)
(***************************************************************************)
EXTENDS MCBigmodeld, SequenceTheorems, WellFoundedInduction, TLAPS

(* While the server has nothing, what is in flight is a pair of I frames,  *)
(* and an open gate has such a pair waiting.                               *)
HeadReady ==
  wire = {} =>
    /\ \A f \in inflight : Complete(f) /\ DualIdr(f)
    /\ stream_open /\ inflight = {} =>
         /\ queued # {}
         /\ \A f \in queued : Complete(f) /\ DualIdr(f)

ClosedWhenDown == ~connected => ~stream_open

SenderInv == SenderOK /\ NoMixedConnections /\ ClosedWhenDown /\ HeadReady

IInv == SenderInv /\ CaptureOK /\ EncodersOK

-----------------------------------------------------------------------------
(* The operators of the sender                                             *)

(* Remember keeps a window of indices (frame_scheduler.cpp:77-93).         *)
LEMMA RememberType ==
  ASSUME NEW window \in Seq(Nat), NEW idx \in Nat
  PROVE  Remember(window, idx) \in Seq(Nat)
<1>1. Append(window, idx) \in Seq(Nat) /\ Append(window, idx) # <<>>
  BY AppendProperties
<1>2. Tail(Append(window, idx)) \in Seq(Nat)
  BY <1>1, HeadTailProperties
<1> QED  BY <1>1, <1>2 DEF Remember

(* A segment changes neither the connection nor the index of its frame, and *)
(* leaves a set of streams.                                                *)
LEMMA SegmentType ==
  ASSUME NEW f \in Frames, NEW s \in Streams, NEW om \in Contexts, NEW idr \in BOOLEAN
  PROVE  /\ WithSegment(f, s, om, idr) \in Frames
         /\ WithSegment(f, s, om, idr).epoch = f.epoch
         /\ WithSegment(f, s, om, idr).has = f.has \cup {s}
  BY DEF WithSegment, Frames, Contexts, Streams

LEMMA NewFrameType ==
  ASSUME NEW om \in Contexts
  PROVE  /\ NewFrame(om) \in Frames
         /\ NewFrame(om).epoch = om.conn_epoch
         /\ NewFrame(om).has = {}
  BY DEF NewFrame, Frames, Contexts, Streams

(* A report of dropped frames keeps the types.                             *)
LEMMA ReportType ==
  ASSUME SenderOK, NEW q, q \subseteq Frames, NEW kind \in Events,
         ReportDropped(q, kind)
  PROVE  dropped' \in Seq(Nat) /\ evs' \in Seq(EventRec)
<1>1. CASE q = {} /\ UNCHANGED <<dropped, evs>>
  BY <1>1 DEF SenderOK
<1>2. CASE \E f \in q : /\ dropped' = Remember(dropped, f.idx)
                        /\ evs' = Append(evs, Event(kind, f.idx))
  <2>1. PICK f \in q : /\ dropped' = Remember(dropped, f.idx)
                       /\ evs' = Append(evs, Event(kind, f.idx))
    BY <1>2
  <2>2. f.idx \in Nat
    BY DEF Frames
  <2>3. Event(kind, f.idx) \in EventRec
    BY <2>2 DEF Event, EventRec, SenderOK
  <2>4. dropped' \in Seq(Nat)
    BY <2>1, <2>2, RememberType DEF SenderOK
  <2>5. evs' \in Seq(EventRec)
    BY <2>1, <2>3, AppendProperties DEF SenderOK
  <2> QED  BY <2>4, <2>5
<1> QED  BY <1>1, <1>2 DEF ReportDropped

(* The gate decides on a queue of at most one frame (uplink_sender.cpp:60-74). *)
LEMMA HeadGateInv ==
  ASSUME SenderInv, connected, UNCHANGED <<connected, conn_epoch, sent, wire>>,
         NEW q, SlotOK(q), \A f \in q : f.epoch = conn_epoch,
         SlotOK(inflight'), \A f \in inflight' : f.epoch = conn_epoch,
         inflight' = {} <=> inflight = {},
         wire = {} => \A f \in inflight' : Complete(f) /\ DualIdr(f),
         wire = {} /\ stream_open /\ inflight = {} =>
           q # {} /\ \A f \in q : Complete(f) /\ DualIdr(f),
         HeadGate(q)
  PROVE  SenderInv'
<1>1. q \ Refused(q) \subseteq q /\ Refused(q) \subseteq Frames
  BY DEF Refused, SlotOK
<1>2. SenderOK'
  <2>1. SlotOK(queued') /\ SlotOK(wire')
    BY <1>1 DEF HeadGate, SlotOK, SenderInv, SenderOK
  <2>2. dropped' \in Seq(Nat) /\ evs' \in Seq(EventRec)
    BY <1>1, ReportType DEF HeadGate, SenderInv, Events
  <2>3. stream_open' \in BOOLEAN
    BY DEF HeadGate, Opened, SenderInv, SenderOK
  <2> QED  BY <2>1, <2>2, <2>3 DEF SenderInv, SenderOK
<1>3. NoMixedConnections'
  BY <1>1 DEF NoMixedConnections, HeadGate, SenderInv
<1>4. HeadReady'
  <2> SUFFICES ASSUME wire = {}, stream_open', inflight = {}
               PROVE  queued' # {} /\ \A f \in queued' : Complete(f) /\ DualIdr(f)
    BY DEF HeadReady
  <2>1. CASE stream_open
    BY <2>1 DEF HeadGate, Refused
  <2>2. CASE ~stream_open
    <3>1. PICK g \in q : Complete(g) /\ DualIdr(g)
      BY <2>2 DEF HeadGate, Opened, Opens
    <3>2. \A f \in q : f = g
      BY DEF SlotOK
    <3>3. queued' = q
      BY <3>1, <3>2 DEF HeadGate, Refused, Opens
    <3> QED  BY <3>1, <3>2, <3>3
  <2> QED  BY <2>1, <2>2
<1> QED  BY <1>2, <1>3, <1>4 DEF SenderInv, ClosedWhenDown

-----------------------------------------------------------------------------
(* The operations of the sender                                            *)

LEMMA SubmitInv ==
  ASSUME SenderInv, NEW s \in Streams, NEW om \in Contexts, NEW idr \in BOOLEAN,
         Submit(s, om, idr), UNCHANGED wire
  PROVE  SenderInv'
<1> DEFINE idx == om.frame_idx
<1>1. CASE UNCHANGED <<senderVars, evs>>
  BY <1>1 DEF SenderInv, SenderOK, SlotOK, NoMixedConnections, ClosedWhenDown, HeadReady,
              senderVars
<1>2. ASSUME NEW f \in inflight, ~Stale(om), s \notin f.has,
             inflight' = {WithSegment(f, s, om, idr)},
             HeadGate(queued),
             UNCHANGED <<connected, conn_epoch, sent>>
      PROVE  SenderInv'
  <2>1. f \in Frames /\ connected /\ f.epoch = conn_epoch
    BY <1>2 DEF SenderInv, SenderOK, SlotOK, Stale, NoMixedConnections
  <2>2. ~Complete(f)
    BY <1>2 DEF Complete
  <2>3. SlotOK(inflight') /\ \A g \in inflight' : g.epoch = conn_epoch
    BY <1>2, <2>1, SegmentType DEF SlotOK
  <2>4. SlotOK(queued) /\ \A g \in queued : g.epoch = conn_epoch
    BY <2>1 DEF SenderInv, SenderOK, NoMixedConnections
  <2>5. wire # {}
    BY <1>2, <2>2 DEF SenderInv, HeadReady
  <2> QED  BY <1>2, <2>1, <2>3, <2>4, <2>5, HeadGateInv
<1>3. ASSUME NEW f \in queued, ~Stale(om), s \notin f.has,
             HeadGate({WithSegment(f, s, om, idr)}),
             UNCHANGED <<connected, conn_epoch, inflight, sent>>
      PROVE  SenderInv'
  <2>1. f \in Frames /\ connected /\ f.epoch = conn_epoch
    BY <1>3 DEF SenderInv, SenderOK, SlotOK, Stale, NoMixedConnections
  <2>2. ~Complete(f)
    BY <1>3 DEF Complete
  <2> DEFINE q == {WithSegment(f, s, om, idr)}
  <2>3. SlotOK(q) /\ \A g \in q : g.epoch = conn_epoch
    BY <1>3, <2>1, SegmentType DEF SlotOK
  <2>4. SlotOK(inflight') /\ \A g \in inflight' : g.epoch = conn_epoch
    BY <1>3, <2>1 DEF SenderInv, SenderOK, NoMixedConnections
  <2>5. ~(wire = {} /\ stream_open /\ inflight = {})
    BY <1>3, <2>2 DEF SenderInv, HeadReady
  <2>6. wire = {} => \A g \in inflight' : Complete(g) /\ DualIdr(g)
    BY <1>3 DEF SenderInv, HeadReady
  <2>7. UNCHANGED <<connected, conn_epoch, sent, wire>> /\ (inflight' = {} <=> inflight = {})
    BY <1>3
  <2> HIDE DEF q
  <2>8. HeadGate(q)
    BY <1>3 DEF q
  <2> QED  BY <2>1, <2>3, <2>4, <2>5, <2>6, <2>7, <2>8, HeadGateInv
<1>4. ASSUME ~Stale(om), Overwrite(s, om, idr),
             UNCHANGED <<connected, conn_epoch, inflight, sent>>
      PROVE  SenderInv'
  <2> DEFINE f == WithSegment(NewFrame(om), s, om, idr)
  <2>1. f \in Frames /\ f.epoch = conn_epoch /\ connected
    BY <1>4, NewFrameType, SegmentType DEF Stale
  <2> HIDE DEF f
  <2>2. queued' = {f}
    BY <1>4 DEF Overwrite, f
  <2>3. SenderOK'
    <3>1. dropped' \in Seq(Nat) /\ evs' \in Seq(EventRec)
      BY <1>4, ReportType DEF Overwrite, OverwriteEvent, SenderInv, SenderOK, SlotOK, Events
    <3>2. stream_open' \in BOOLEAN
      BY <1>4 DEF Overwrite, SenderInv, SenderOK
    <3> QED  BY <1>4, <2>1, <2>2, <3>1, <3>2 DEF SenderInv, SenderOK, SlotOK
  <2>4. NoMixedConnections'
    BY <1>4, <2>1, <2>2 DEF NoMixedConnections, SenderInv
  <2>5. stream_open' => stream_open /\ queued = {}
    BY <1>4 DEF Overwrite
  <2>6. HeadReady' /\ ClosedWhenDown'
    BY <1>4, <2>1, <2>5 DEF HeadReady, SenderInv, ClosedWhenDown
  <2> QED  BY <2>3, <2>4, <2>6 DEF SenderInv
<1> QED  BY <1>1, <1>2, <1>3, <1>4 DEF Submit

(* What step finds in flight once the gate and the queue are served: the   *)
(* frame that was there, or the one that moved up (uplink_sender.cpp:201-215). *)
LEMMA ServeQueueInv ==
  ASSUME SenderInv, connected, ServeQueue
  PROVE  /\ SlotOK(Flying) /\ SlotOK(queued')
         /\ \A f \in Flying \cup queued' : f.epoch = conn_epoch
         /\ wire = {} => \A f \in Flying : Complete(f) => DualIdr(f)
         /\ wire = {} => \A f \in Flying : Complete(f)
         /\ wire = {} /\ stream_open' => Flying # {}
         /\ dropped' \in Seq(Nat) /\ evs' \in Seq(EventRec) /\ stream_open' \in BOOLEAN
<1>1. SlotOK(inflight) /\ SlotOK(queued) /\ (Launched # {} => inflight = {})
  BY DEF SenderInv, SenderOK, Launched
<1>2. Launched \subseteq queued /\ queued' \subseteq queued
  BY DEF Launched, ServeQueue
<1>3. SlotOK(Flying) /\ SlotOK(queued')
  BY <1>1, <1>2 DEF SlotOK, Flying
<1>4. \A f \in Flying \cup queued' : f.epoch = conn_epoch
  BY <1>2 DEF Flying, SenderInv, NoMixedConnections
<1>5. ASSUME wire = {}, NEW f \in Launched
      PROVE  Complete(f) /\ DualIdr(f)
  <2>1. f \in queued /\ inflight = {} /\ Opened(queued)
    BY <1>5 DEF Launched
  <2>2. CASE stream_open
    BY <1>5, <2>1, <2>2 DEF SenderInv, HeadReady
  <2>3. CASE ~stream_open
    BY <1>1, <2>1, <2>3 DEF Opened, Opens, SlotOK
  <2> QED  BY <2>2, <2>3
<1>6. wire = {} => \A f \in Flying : Complete(f) /\ DualIdr(f)
  BY <1>5 DEF Flying, SenderInv, HeadReady
<1>7. ASSUME wire = {}, stream_open', inflight = {}
      PROVE  Launched # {}
  <2>1. Opened(queued)
    BY <1>7 DEF ServeQueue
  <2>2. PICK f \in queued : Complete(f) /\ DualIdr(f)
    BY <1>7, <2>1 DEF Opened, Opens, SenderInv, HeadReady
  <2>3. f \in queued \ Refused(queued) /\ "road" \in f.has
    BY <2>2 DEF Refused, Opens, Complete, Streams
  <2> QED  BY <1>7, <2>1, <2>3 DEF Launched
<1>8. dropped' \in Seq(Nat) /\ evs' \in Seq(EventRec)
  BY <1>1, ReportType DEF ServeQueue, SlotOK, Refused, SenderInv, Events
<1>9. stream_open' \in BOOLEAN
  BY DEF ServeQueue, Opened, SenderInv, SenderOK
<1> QED  BY <1>3, <1>4, <1>6, <1>7, <1>8, <1>9 DEF Flying

LEMMA StepBlockedInv ==
  ASSUME SenderInv, StepBlocked
  PROVE  SenderInv'
<1>1. connected /\ ServeQueue
  BY DEF StepBlocked
<1>2. SenderOK'
  <2>1. sent' \in BOOLEAN
    BY DEF StepBlocked, SenderInv, SenderOK
  <2> QED  BY <1>1, <2>1, ServeQueueInv DEF StepBlocked, SenderInv, SenderOK, SlotOK
<1>3. NoMixedConnections'
  BY <1>1, ServeQueueInv DEF StepBlocked, SenderInv, NoMixedConnections
<1>4. HeadReady'
  BY <1>1, ServeQueueInv DEF StepBlocked, HeadReady
<1> QED  BY <1>1, <1>2, <1>3, <1>4 DEF StepBlocked, SenderInv, ClosedWhenDown

(* A frame goes out whole, and the first one as a pair of I frames.        *)
LEMMA StepSentInv ==
  ASSUME SenderInv, StepSent
  PROVE  SenderInv' /\ \A f \in wire' : wire = {} => Complete(f) /\ DualIdr(f)
<1>1. connected /\ ServeQueue
  BY DEF StepSent
<1>2. PICK f \in Flying : Complete(f) /\ wire' = {f}
  BY DEF StepSent
<1>3. SenderOK'
  BY <1>1, <1>2, ServeQueueInv DEF StepSent, SenderInv, SenderOK, SlotOK
<1>4. NoMixedConnections'
  BY <1>1, <1>2, ServeQueueInv DEF StepSent, SenderInv, NoMixedConnections
<1>5. HeadReady' /\ ClosedWhenDown'
  BY <1>1, <1>2 DEF StepSent, HeadReady, ClosedWhenDown
<1> QED  BY <1>1, <1>2, <1>3, <1>4, <1>5, ServeQueueInv DEF SenderInv

(* The ways to lose a connection: nothing is held any more.                *)
LEMMA DropConnectionInv ==
  ASSUME SenderInv, DropConnection, SlotOK(wire'),
         dropped' \in Seq(Nat), evs' \in Seq(EventRec)
  PROVE  SenderInv'
<1>1. SenderOK'
  BY DEF DropConnection, SenderInv, SenderOK, SlotOK
<1>2. NoMixedConnections' /\ ClosedWhenDown'
  BY DEF DropConnection, NoMixedConnections, ClosedWhenDown
<1>3. HeadReady'
  BY DEF DropConnection, HeadReady
<1> QED  BY <1>1, <1>2, <1>3 DEF SenderInv

LEMMA StepErrorInv ==
  ASSUME SenderInv, StepError
  PROVE  SenderInv'
<1>1. dropped' \in Seq(Nat) /\ evs' \in Seq(EventRec)
  BY ReportType DEF StepError, SenderInv, SenderOK, SlotOK, Refused, Events
<1>2. SlotOK(wire')
  BY DEF StepError, SenderInv, SenderOK, SlotOK
<1> QED  BY <1>1, <1>2, DropConnectionInv DEF StepError

LEMMA StepStallInv ==
  ASSUME SenderInv, StepStall
  PROVE  SenderInv' /\ \A f \in wire' : wire = {} => Complete(f) /\ DualIdr(f)
<1>1. dropped' \in Seq(Nat) /\ evs' \in Seq(EventRec)
  BY ReportType DEF StepStall, SenderInv, SenderOK, SlotOK, Refused, Events
<1>2. UNCHANGED wire \/ \E f \in inflight : wire' = {f}
  BY DEF StepStall
<1>3. SlotOK(wire')
  BY <1>2 DEF SenderInv, SenderOK, SlotOK
<1>4. \A f \in wire' : wire = {} => Complete(f) /\ DualIdr(f)
  BY <1>2 DEF SenderInv, HeadReady
<1> QED  BY <1>1, <1>3, <1>4, DropConnectionInv DEF StepStall

LEMMA ConnectInv ==
  ASSUME SenderInv, Connect
  PROVE  SenderInv'
<1>1. inflight = {} /\ queued = {}
  BY DEF SenderInv, NoMixedConnections, Connect
<1>2. evs' \in Seq(EventRec)
  <2>1. [ev |-> "kNewConnection", idx |-> 0, epoch |-> conn_epoch + 1] \in EventRec
    BY DEF EventRec, Events, SenderInv, SenderOK
  <2> QED  BY <2>1, AppendProperties DEF Connect, SenderInv, SenderOK
<1>3. SenderOK'
  <2>1. dropped' \in Seq(Nat)
    BY EmptySeq DEF Connect
  <2>2. SlotOK(wire') /\ conn_epoch' \in Nat
    BY DEF Connect, SlotOK, SenderInv, SenderOK
  <2>3. connected' \in BOOLEAN /\ stream_open' \in BOOLEAN
    BY DEF Connect
  <2> QED  BY <1>2, <2>1, <2>2, <2>3 DEF Connect, SenderInv, SenderOK, SlotOK
<1>4. NoMixedConnections' /\ HeadReady' /\ ClosedWhenDown'
  BY <1>1 DEF Connect, NoMixedConnections, HeadReady, ClosedWhenDown
<1> QED  BY <1>3, <1>4 DEF SenderInv

LEMMA NotifyDisconnectInv ==
  ASSUME SenderInv, NotifyDisconnect
  PROVE  SenderInv'
<1>1. dropped' \in Seq(Nat) /\ evs' \in Seq(EventRec) /\ SlotOK(wire')
  BY DEF NotifyDisconnect, SenderInv, SenderOK, SlotOK
<1> QED  BY <1>1, DropConnectionInv DEF NotifyDisconnect

(* A gap only closes the gate (uplink_sender.cpp:269-274).                 *)
LEMMA NotifyStreamGapInv ==
  ASSUME SenderInv, NotifyStreamGap,
         UNCHANGED <<connected, conn_epoch, inflight, queued, sent, dropped, evs, wire>>
  PROVE  SenderInv'
BY DEF NotifyStreamGap, SenderInv, SenderOK, SlotOK, NoMixedConnections, ClosedWhenDown,
       HeadReady

(* The capture threads and the callbacks touch the queue of events only.   *)
LEMMA SenderUnchanged ==
  ASSUME SenderInv, UNCHANGED <<senderVars, wire>>, evs' \in Seq(EventRec)
  PROVE  SenderInv'
BY DEF senderVars, SenderInv, SenderOK, SlotOK, NoMixedConnections, ClosedWhenDown, HeadReady

-----------------------------------------------------------------------------
(* The scheduler and the contexts                                          *)

SchedulerOK ==
  /\ seq_pos \in Nat /\ recent_drop \in Seq(Nat)
  /\ pending_req \in SUBSET Streams /\ need_req \in SUBSET Streams
  /\ next_idr_seq \in [Streams -> Nat]

LEMMA SchedulerType ==
  ASSUME SchedulerOK, NEW idx \in Nat,
         OnConnect \/ OnFrameDropped(idx) \/ OnFrameSubmit \/ UNCHANGED schedVars
  PROVE  SchedulerOK'
<1>1. CASE OnConnect
  BY <1>1, EmptySeq DEF OnConnect, StartNewSequence, SchedulerOK
<1>2. CASE OnFrameDropped(idx)
  <2>1. CASE UNCHANGED schedVars
    BY <2>1 DEF schedVars, SchedulerOK
  <2>2. CASE StartNewSequence /\ recent_drop' = Remember(recent_drop, idx)
    <3>1. recent_drop' \in Seq(Nat)
      BY <2>2, RememberType DEF SchedulerOK
    <3> QED  BY <2>2, <3>1 DEF StartNewSequence, SchedulerOK
  <2> QED  BY <1>2, <2>1, <2>2 DEF OnFrameDropped
<1>3. CASE OnFrameSubmit
  <2>1. seq_pos' \in Nat /\ need_req' \in SUBSET Streams /\ recent_drop' \in Seq(Nat)
    BY <1>3 DEF OnFrameSubmit, SchedulerOK
  <2>2. pending_req' \in SUBSET Streams
    BY <1>3 DEF OnFrameSubmit, SchedulerOK, PhaseShift, Streams
  <2>3. next_idr_seq' \in [Streams -> Nat]
    BY <1>3, SchedulerConstants DEF OnFrameSubmit, SchedulerOK
  <2> QED  BY <2>1, <2>2, <2>3 DEF SchedulerOK
<1>4. CASE UNCHANGED schedVars
  BY <1>4 DEF schedVars, SchedulerOK
<1> QED  BY <1>1, <1>2, <1>3, <1>4

LEMMA EmptyMetaType == EmptyMeta \in Caches
BY EmptySeq DEF EmptyMeta, Caches

LEMMA MetaPushType ==
  ASSUME NEW c \in Caches, NEW om \in Contexts
  PROVE  MetaPush(c, om) \in Caches
<1>1. c.q \in Seq(Contexts) /\ om.frame_id \in Nat
  BY DEF Caches, Contexts
<1>2. Append(c.q, om) \in Seq(Contexts)
  BY <1>1, AppendProperties
<1> QED  BY <1>1, <1>2 DEF MetaPush, Caches

(* A hit is a position of the queue (meta_cache.h:58-68). *)
LEMMA HitPosition ==
  ASSUME NEW c \in Caches, NEW id \in Nat, TakeResult(c, id) = "kHit"
  PROVE  /\ Hit(c, id) \in 1..Len(c.q) /\ c.q \in Seq(Contexts)
         /\ Hit(c, id) \in Positions(c, id)
<1>1. c.q \in Seq(Contexts)
  BY DEF Caches
<1>2. Positions(c, id) # {} /\ Positions(c, id) \subseteq 1..Len(c.q)
  BY <1>1, LenProperties DEF TakeResult, MissOf, Positions
<1>3. Hit(c, id) \in Positions(c, id)
  <2>1. \E i \in Positions(c, id) : \A j \in Positions(c, id) : i <= j
    <3>1. Positions(c, id) \subseteq Nat /\ Positions(c, id) # {}
      BY <1>1, <1>2, LenProperties
    <3>2. PICK i \in Positions(c, id) : \A j \in Positions(c, id) : <<j, i>> \notin OpToRel(<, Nat)
      BY <3>1, NatLessThanWellFounded, WFMin
    <3>3. \A j \in Positions(c, id) : ~(j < i)
      BY <3>1, <3>2 DEF OpToRel
    <3> QED  BY <3>1, <3>3
  <2> QED  BY <2>1 DEF Hit
<1> QED  BY <1>1, <1>2, <1>3

(* A hit is a context of the queue, and what is dead before it and what    *)
(* remains are contexts of the queue too (meta_cache.h:58-68).             *)
LEMMA HitType ==
  ASSUME NEW c \in Caches, NEW id \in Nat, TakeResult(c, id) = "kHit"
  PROVE  /\ Taken(c, id) \in Contexts
         /\ DeadBefore(c, id) \in Seq(Contexts)
         /\ AfterTake(c, id) \in Caches
<1>1. c.q \in Seq(Contexts)
  BY DEF Caches
<1>2. Hit(c, id) \in 1..Len(c.q)
  BY HitPosition
<1>3. Taken(c, id) \in Contexts
  BY <1>1, <1>2, ElementOfSeq DEF Taken
<1>4. DeadBefore(c, id) \in Seq(Contexts)
  <2>1. \A i \in 1..Hit(c, id) - 1 : c.q[i] \in Contexts
    BY <1>1, <1>2, ElementOfSeq, LenProperties
  <2> QED  BY <1>1, <1>2, <2>1, LenProperties, SubSeqProperties DEF DeadBefore
<1>5. SubSeq(c.q, Hit(c, id) + 1, Len(c.q)) \in Seq(Contexts)
  <2>1. \A i \in Hit(c, id) + 1..Len(c.q) : c.q[i] \in Contexts
    BY <1>1, <1>2, ElementOfSeq, LenProperties
  <2> QED  BY <1>1, <1>2, <2>1, LenProperties, SubSeqProperties
<1>6. AfterTake(c, id) \in Caches
  BY <1>5 DEF AfterTake, Caches
<1> QED  BY <1>3, <1>4, <1>6

Encoded == [id : Nat, idr : BOOLEAN]

(* What a callback is left with has a context of the queue and gaps to tell. *)
LEMMA OutputType ==
  ASSUME EncodersOK, NEW s \in Streams, NEW o \in Encoded, NEW large \in BOOLEAN
  PROVE  Output(s, o, large) \in SUBSET Outputs
<1>1. CASE TakeResult(meta[s], o.id) # "kHit"
  BY <1>1 DEF Output
<1>2. CASE TakeResult(meta[s], o.id) = "kHit"
  <2> DEFINE om == Taken(meta[s], o.id)
             dead == DeadBefore(meta[s], o.id)
             first == IF dead = <<>> THEN <<>> ELSE <<GapEvent(Head(dead).frame_idx)>>
             second == IF large THEN <<GapEvent(om.frame_idx)>> ELSE <<>>
  <2>1. om \in Contexts /\ dead \in Seq(Contexts)
    BY <1>2, HitType DEF EncodersOK, Encoded
  <2>2. \A idx \in Nat : GapEvent(idx) \in GapRecs
    BY DEF GapEvent, GapRecs, EventRec, Events
  <2>3. first \in Seq(GapRecs)
    <3>1. CASE dead = <<>>
      BY <3>1, EmptySeq
    <3>2. CASE dead # <<>>
      <4>1. Head(dead) \in Contexts
        BY <2>1, <3>2, HeadTailProperties
      <4>2. GapEvent(Head(dead).frame_idx) \in GapRecs
        BY <2>2, <4>1 DEF Contexts
      <4> QED  BY <3>2, <4>2
    <3> QED  BY <3>1, <3>2
  <2>4. second \in Seq(GapRecs)
    <3>1. GapEvent(om.frame_idx) \in GapRecs
      BY <2>1, <2>2 DEF Contexts
    <3> QED  BY <3>1, EmptySeq
  <2>5. first \o second \in Seq(GapRecs)
    BY <2>3, <2>4, ConcatProperties
  <2>6. Output(s, o, large) =
          {[om |-> om, idr |-> o.idr, submit |-> ~large, gate |-> FALSE,
            gaps |-> first \o second]}
    BY <1>2 DEF Output
  <2> HIDE DEF om, first, second, dead
  <2>7. o.idr \in BOOLEAN /\ (~large) \in BOOLEAN
    BY DEF Encoded
  <2>8. [om |-> om, idr |-> o.idr, submit |-> ~large, gate |-> FALSE,
         gaps |-> first \o second] \in Outputs
    BY <2>1, <2>5, <2>7 DEF Outputs
  <2> QED  BY <2>6, <2>8
<1> QED  BY <1>1, <1>2

-----------------------------------------------------------------------------
(* The steps of the threads                                                *)

LEMMA PlaceFrameInv ==
  ASSUME IInv, PlaceFrame
  PROVE  IInv'
<1>1. SenderInv'
  BY EmptySeq, SenderUnchanged DEF IInv, PlaceFrame
<1>2. CaptureOK'
  BY DEF IInv, PlaceFrame, CaptureOK, SenderInv, SenderOK, schedVars
<1>3. EncodersOK'
  BY DEF IInv, PlaceFrame, EncodersOK, encoderVars
<1> QED  BY <1>1, <1>2, <1>3 DEF IInv

LEMMA DrainEventInv ==
  ASSUME IInv, DrainEvent
  PROVE  IInv'
<1>1. SenderInv'
  BY SenderUnchanged DEF IInv, DrainEvent, SenderInv, SenderOK
<1> DEFINE e == Head(batch)
<1>2. e \in EventRec /\ batch' \in Seq(EventRec)
  BY HeadTailProperties DEF IInv, CaptureOK, DrainEvent
<1>3. e.idx \in Nat /\ e.epoch \in Nat
  BY <1>2 DEF EventRec
<1> HIDE DEF e
<1>4. DrainNewConnection(e) \/ DrainDrop(e)
  BY DEF DrainEvent, e
<1>5. SchedulerOK'
  BY <1>3, <1>4, SchedulerType
     DEF IInv, CaptureOK, SchedulerOK, DrainNewConnection, DrainDrop
<1>6. /\ cur_epoch' \in Nat /\ frame_idx' \in Nat
      /\ meta' \in [Streams -> Caches]
  BY <1>3, <1>4, EmptyMetaType
     DEF IInv, CaptureOK, EncodersOK, DrainNewConnection, DrainDrop, MetaClear
<1>7. CaptureOK'
  BY <1>2, <1>5, <1>6 DEF IInv, CaptureOK, SchedulerOK, DrainEvent
<1>8. EncodersOK'
  BY <1>6 DEF IInv, EncodersOK, DrainEvent, encoderVars
<1> QED  BY <1>1, <1>7, <1>8 DEF IInv

LEMMA EncodePairInv ==
  ASSUME IInv, EncodePair
  PROVE  IInv'
<1>1. SenderInv'
  BY SenderUnchanged DEF IInv, EncodePair, SenderInv, SenderOK
<1>2. PICK skip \in 0..MaxSkip :
        /\ frame_idx' = frame_idx + skip + 1
        /\ meta' = [s \in Streams |-> MetaPush(meta[s], Context(frame_idx + skip))]
  BY DEF EncodePair
<1>3. skip \in Nat
  BY BigmodeldConstants
<1>4. frames \in Nat /\ frame_idx \in Nat /\ cur_epoch \in Nat
  BY DEF IInv, CaptureOK
<1>5. Context(frame_idx + skip) \in Contexts
  BY <1>3, <1>4 DEF Context, Contexts, PredictedIdr
<1>6. meta' \in [Streams -> Caches]
  BY <1>2, <1>5, MetaPushType DEF IInv, EncodersOK
<1>7. SchedulerOK'
  BY <1>4, SchedulerType DEF IInv, CaptureOK, SchedulerOK, EncodePair
<1>8. CaptureOK'
  <2>1. frames' \in Nat /\ frame_idx' \in Nat
    BY <1>2, <1>3, <1>4 DEF EncodePair
  <2>2. draining' \in BOOLEAN /\ cur_epoch' \in Nat /\ batch' \in Seq(EventRec)
    BY DEF EncodePair, IInv, CaptureOK
  <2> QED  BY <1>7, <2>1, <2>2 DEF CaptureOK, SchedulerOK
<1>9. enc' \in [Streams -> Seq(Encoded)]
  <2>1. \A s \in Streams : [id |-> frames + 1, idr |-> s \in EncodedIdr] \in Encoded
    BY <1>4 DEF Encoded
  <2>2. \A s \in Streams : enc[s] \in Seq(Encoded)
    BY DEF IInv, EncodersOK, Encoded
  <2>3. \A s \in Streams :
          Append(enc[s], [id |-> frames + 1, idr |-> s \in EncodedIdr]) \in Seq(Encoded)
    BY <2>1, <2>2, AppendProperties
  <2> QED  BY <2>3 DEF EncodePair
<1>10. since_idr' \in [Streams -> Nat]
  BY DEF IInv, EncodersOK, EncodePair
<1>11. EncodersOK'
  BY <1>6, <1>9, <1>10 DEF IInv, EncodersOK, EncodePair, Encoded
<1> QED  BY <1>1, <1>8, <1>11 DEF IInv

LEMMA NoPairInv ==
  ASSUME IInv, NoPair
  PROVE  IInv'
<1>1. SenderInv'
  BY SenderUnchanged DEF IInv, NoPair, SenderInv, SenderOK
<1>2. CaptureOK' /\ EncodersOK'
  BY DEF IInv, NoPair, CaptureOK, EncodersOK, encoderVars, schedVars
<1> QED  BY <1>1, <1>2 DEF IInv

LEMMA SwallowInv ==
  ASSUME IInv, NEW s \in Streams, Swallow(s)
  PROVE  IInv'
<1>1. SenderInv'
  BY SenderUnchanged DEF IInv, Swallow, SenderInv, SenderOK
<1>2. CaptureOK'
  BY DEF IInv, Swallow, CaptureOK, captureVars, schedVars
<1>3. Tail(enc[s]) \in Seq(Encoded)
  BY HeadTailProperties DEF IInv, EncodersOK, Swallow, Encoded
<1>4. EncodersOK'
  BY <1>3 DEF IInv, Swallow, EncodersOK, Encoded
<1> QED  BY <1>1, <1>2, <1>4 DEF IInv

LEMMA TakeContextInv ==
  ASSUME IInv, NEW s \in Streams, TakeContext(s)
  PROVE  IInv'
<1>1. SenderInv'
  BY SenderUnchanged DEF IInv, TakeContext, SenderInv, SenderOK
<1>2. CaptureOK'
  BY DEF IInv, TakeContext, CaptureOK, captureVars, schedVars
<1>3. Head(enc[s]) \in Encoded /\ Tail(enc[s]) \in Seq(Encoded)
  BY HeadTailProperties DEF IInv, EncodersOK, TakeContext, Encoded
<1>4. enc' \in [Streams -> Seq(Encoded)]
  BY <1>3 DEF IInv, EncodersOK, TakeContext, Encoded
<1>5. meta' \in [Streams -> Caches]
  <2>1. Head(enc[s]).id \in Nat /\ meta[s] \in Caches
    BY <1>3 DEF IInv, EncodersOK, Encoded
  <2>2. AfterTake(meta[s], Head(enc[s]).id) \in Caches
    BY <2>1, HitType DEF AfterTake
  <2> QED  BY <2>2 DEF IInv, EncodersOK, TakeContext
<1>6. out' \in [Streams -> SUBSET Outputs]
  <2>1. PICK large \in BOOLEAN :
          out' = [out EXCEPT ![s] = Output(s, Head(enc[s]), large)]
    BY BigmodeldConstants DEF TakeContext
  <2>2. Output(s, Head(enc[s]), large) \in SUBSET Outputs
    BY <1>3, OutputType DEF IInv
  <2> QED  BY <2>1, <2>2 DEF IInv, EncodersOK
<1>7. EncodersOK'
  BY <1>4, <1>5, <1>6 DEF IInv, EncodersOK, TakeContext, Encoded
<1> QED  BY <1>1, <1>2, <1>7 DEF IInv

LEMMA CloseGateInv ==
  ASSUME IInv, NEW s \in Streams, CloseGate(s)
  PROVE  IInv'
<1>1. PICK o \in out[s] : /\ NotifyStreamGap
                          /\ out' = [out EXCEPT ![s] = {[o EXCEPT !.gate = TRUE]}]
  BY DEF CloseGate
<1>2. SenderInv'
  BY <1>1, NotifyStreamGapInv DEF IInv, CloseGate
<1>3. [o EXCEPT !.gate = TRUE] \in Outputs
  <2>1. o \in Outputs
    BY DEF IInv, EncodersOK
  <2> QED  BY <2>1 DEF Outputs
<1>4. EncodersOK'
  BY <1>1, <1>3, ZenonT(40) DEF IInv, CloseGate, EncodersOK, encoderVars
<1>5. CaptureOK'
  BY DEF IInv, CloseGate, CaptureOK, captureVars, schedVars
<1> QED  BY <1>2, <1>4, <1>5 DEF IInv

LEMMA ReportGapInv ==
  ASSUME IInv, NEW s \in Streams, ReportGap(s)
  PROVE  IInv'
<1>1. PICK o \in out[s] :
        /\ o.gaps # <<>>
        /\ evs' = Append(evs, Head(o.gaps))
        /\ out' = [out EXCEPT ![s] = IF Len(o.gaps) = 1 /\ ~o.submit THEN {}
                                     ELSE {[o EXCEPT !.gaps = Tail(@), !.gate = FALSE]}]
  BY DEF ReportGap
<1>2. o \in Outputs /\ o.gaps \in Seq(GapRecs)
  BY DEF IInv, EncodersOK, Outputs
<1>3. Head(o.gaps) \in GapRecs /\ Tail(o.gaps) \in Seq(GapRecs)
  BY <1>1, <1>2, HeadTailProperties
<1>4. evs' \in Seq(EventRec)
  BY <1>1, <1>3, AppendProperties DEF IInv, SenderInv, SenderOK, GapRecs
<1>5. SenderInv'
  BY <1>4, SenderUnchanged DEF IInv, ReportGap
<1>6. [o EXCEPT !.gaps = Tail(@), !.gate = FALSE] \in Outputs
  BY <1>2, <1>3 DEF Outputs
<1>7. EncodersOK'
  BY <1>1, <1>6, ZenonT(40) DEF IInv, ReportGap, EncodersOK, encoderVars
<1>8. CaptureOK'
  BY DEF IInv, ReportGap, CaptureOK, captureVars, schedVars
<1> QED  BY <1>5, <1>7, <1>8 DEF IInv

LEMMA SubmitSegmentInv ==
  ASSUME IInv, NEW s \in Streams, SubmitSegment(s)
  PROVE  IInv'
<1>1. PICK o \in out[s] : Submit(s, o.om, o.idr) /\ out' = [out EXCEPT ![s] = {}]
  BY DEF SubmitSegment
<1>2. o.om \in Contexts /\ o.idr \in BOOLEAN
  BY DEF IInv, EncodersOK, Outputs
<1>3. SenderInv'
  BY <1>1, <1>2, SubmitInv DEF IInv, SubmitSegment
<1>4. EncodersOK'
  BY <1>1 DEF IInv, SubmitSegment, EncodersOK, encoderVars
<1>5. CaptureOK'
  BY DEF IInv, SubmitSegment, CaptureOK, captureVars, schedVars
<1> QED  BY <1>3, <1>4, <1>5 DEF IInv

(* The writer and the reply thread leave the pipeline before the sender    *)
(* alone.                                                                  *)
LEMMA PipelineUnchanged ==
  ASSUME IInv, UNCHANGED <<schedVars, captureVars, meta, encoderVars, out>>
  PROVE  CaptureOK' /\ EncodersOK'
BY DEF IInv, CaptureOK, EncodersOK, schedVars, captureVars, encoderVars

LEMMA WriterInv ==
  ASSUME IInv, Writer
  PROVE  IInv'
<1>1. SenderInv'
  BY StepBlockedInv, StepSentInv, StepErrorInv, StepStallInv, ConnectInv DEF IInv, Writer
<1> QED  BY <1>1, PipelineUnchanged DEF IInv, Writer

LEMMA ReplyInv ==
  ASSUME IInv, Reply
  PROVE  IInv'
<1>1. SenderInv'
  BY NotifyDisconnectInv DEF IInv, Reply
<1> QED  BY <1>1, PipelineUnchanged DEF IInv, Reply

LEMMA StutterInv ==
  ASSUME IInv, UNCHANGED vars
  PROVE  IInv'
<1>1. SenderInv'
  BY SenderUnchanged DEF vars, IInv, SenderInv, SenderOK
<1>2. UNCHANGED <<schedVars, captureVars, meta, encoderVars, out>>
  BY DEF vars
<1> QED  BY <1>1, <1>2, PipelineUnchanged DEF IInv

LEMMA InitInv == Init => IInv
<1> SUFFICES ASSUME Init PROVE IInv
  OBVIOUS
<1>1. SenderInv
  BY EmptySeq DEF Init, SenderInit, SenderInv, SenderOK, SlotOK, NoMixedConnections,
                  ClosedWhenDown, HeadReady
<1>2. CaptureOK
  BY EmptySeq DEF Init, SchedulerInit, CaptureOK
<1>3. EncodersOK
  BY EmptySeq, EmptyMetaType, SchedulerConstants DEF Init, EncodersOK
<1> QED  BY <1>1, <1>2, <1>3 DEF IInv

LEMMA NextInv == IInv /\ [Next]_vars => IInv'
<1> SUFFICES ASSUME IInv, [Next]_vars PROVE IInv'
  OBVIOUS
<1>1. CASE Capture
  BY <1>1, PlaceFrameInv, DrainEventInv, EncodePairInv, NoPairInv DEF Capture
<1>2. CASE Writer
  BY <1>2, WriterInv
<1>3. CASE Reply
  BY <1>3, ReplyInv
<1>4. ASSUME NEW s \in Streams, Callback(s) \/ Swallow(s)
      PROVE  IInv'
  BY <1>4, TakeContextInv, CloseGateInv, ReportGapInv, SubmitSegmentInv, SwallowInv
     DEF Callback
<1>5. CASE UNCHANGED vars
  BY <1>5, StutterInv
<1> QED  BY <1>1, <1>2, <1>3, <1>4, <1>5 DEF Next

(* The invariant: what the sender holds belongs to the connection of now,  *)
(* a closed connection holds nothing, and until the server has its first   *)
(* frame only a pair of I frames is in flight or waits behind an open gate. *)
THEOREM Invariant == Spec => []IInv
BY InitInv, NextInv, PTL DEF Spec

(* Every slot of the sender holds at most one frame, in every state.       *)
THEOREM TypeCorrect == Spec => []TypeOK
<1>1. IInv => TypeOK
  BY DEF IInv, SenderInv, TypeOK
<1> QED  BY <1>1, Invariant, PTL

(* However late the outputs of an earlier connection come, none of them is *)
(* ever held or sent on a later one.                                       *)
THEOREM ConnectionsApart == Spec => []NoMixedConnections
<1>1. IInv => NoMixedConnections
  BY DEF IInv, SenderInv
<1> QED  BY <1>1, Invariant, PTL

(* The first frame that the server gets on a connection is a whole pair of *)
(* I frames, predicted as such.                                            *)
THEOREM DualIdrFirst == Spec => HeadIsDualIdr
<1>1. ASSUME IInv, [Next]_vars
      PROVE  [\A f \in wire' : wire = {} => Complete(f) /\ DualIdr(f)]_vars
  <2> SUFFICES ASSUME Next, NEW f \in wire', wire = {}
               PROVE  Complete(f) /\ DualIdr(f)
    BY <1>1
  <2>1. wire' # wire
    OBVIOUS
  <2>2. Writer
    BY <2>1 DEF Next, Capture, PlaceFrame, DrainEvent, EncodePair, NoPair, Reply,
                NotifyDisconnect, Callback, TakeContext, CloseGate, ReportGap,
                SubmitSegment, Swallow
  <2>3. CASE StepSent
    BY <1>1, <2>3, StepSentInv DEF IInv
  <2>4. CASE StepStall
    BY <1>1, <2>4, StepStallInv DEF IInv
  <2>5. CASE StepBlocked \/ StepError \/ Connect
    BY <2>1, <2>5 DEF StepBlocked, StepError, Connect
  <2> QED  BY <2>2, <2>3, <2>4, <2>5 DEF Writer
<1> QED  BY <1>1, Invariant, PTL DEF Spec, HeadIsDualIdr
-----------------------------------------------------------------------------
(* The uplink implements FrameStream: the order of the indices.  Contexts   *)
(* are made in the order of their indices, each encoder gives its outputs   *)
(* back in that order, so a segment that still is to come belongs to a      *)
(* later frame than all that hold a segment of its stream already.          *)

IsNew(e) == e.ev = "kNewConnection"

(* The connections a list of events announces come in order. *)
Rising(b) ==
  \A i, j \in 1..Len(b) : i < j /\ IsNew(b[i]) /\ IsNew(b[j]) => b[i].epoch < b[j].epoch

Within(b, low, high) ==
  \A i \in 1..Len(b) : IsNew(b[i]) => low < b[i].epoch /\ b[i].epoch <= high

(* The capture threads are behind the sender, never before it. *)
EventsOrdered ==
  /\ cur_epoch <= conn_epoch
  /\ Rising(batch) /\ Rising(evs)
  /\ Within(batch, cur_epoch, conn_epoch) /\ Within(evs, cur_epoch, conn_epoch)
  /\ \A i \in 1..Len(batch), j \in 1..Len(evs) :
       IsNew(batch[i]) /\ IsNew(evs[j]) => batch[i].epoch < evs[j].epoch

Waits(s) == {meta[s].q[i] : i \in 1..Len(meta[s].q)}

ContextsOrdered ==
  \A s \in Streams :
    /\ \A i, j \in 1..Len(meta[s].q) : i < j => meta[s].q[i].frame_idx < meta[s].q[j].frame_idx
    /\ \A c \in Waits(s) : c.conn_epoch = cur_epoch /\ c.frame_idx < frame_idx
    /\ \A o \in out[s] :
         /\ o.om.conn_epoch <= cur_epoch
         /\ o.om.conn_epoch = cur_epoch =>
              /\ o.om.frame_idx < frame_idx
              /\ \A c \in Waits(s) : o.om.frame_idx < c.frame_idx

Held == inflight \cup queued \cup wire

(* No segment comes for a frame that the stream has passed. *)
SegmentsAhead ==
  connected => \A f \in Held :
    /\ cur_epoch = conn_epoch
    /\ f.idx < frame_idx
    /\ \A s \in f.has :
         /\ \A c \in Waits(s) : f.idx < c.frame_idx
         /\ \A o \in out[s] : o.om.conn_epoch = conn_epoch => f.idx < o.om.frame_idx

SlotsOrdered ==
  connected =>
    /\ \A w \in wire, f \in inflight \cup queued : w.idx < f.idx
    /\ \A f \in inflight, g \in queued : f.idx < g.idx

(* The bounds of a behaviour bound the indices. *)
IndicesBounded ==
  /\ frames <= MaxFrames
  /\ frame_idx <= frames * (MaxSkip + 1)

SentWhole == connected => \A f \in wire : Complete(f)

PipelineOrdered == ContextsOrdered /\ SegmentsAhead
SlotsInOrder    == SlotsOrdered /\ SentWhole

OrderInv == EventsOrdered /\ PipelineOrdered /\ SlotsInOrder /\ IndicesBounded

(* Lists of events: one more, or the first one gone.                       *)
LEMMA EventAppended ==
  ASSUME NEW b \in Seq(EventRec), NEW e \in EventRec, NEW low \in Nat, NEW high \in Nat,
         NEW top \in Nat, high <= top,
         Rising(b), Within(b, low, high),
         IsNew(e) => high < e.epoch /\ e.epoch <= top /\ low < e.epoch
  PROVE  /\ Rising(Append(b, e))
         /\ Within(Append(b, e), low, top)
         /\ \A i \in 1..Len(Append(b, e)) : (i \in 1..Len(b) /\ Append(b, e)[i] = b[i])
                                           \/ Append(b, e)[i] = e
<1> DEFINE c == Append(b, e)
<1>1. /\ Len(b) \in Nat /\ Len(c) = Len(b) + 1
      /\ \A i \in 1..Len(b) : c[i] = b[i] /\ b[i] \in EventRec
      /\ c[Len(b) + 1] = e
  BY AppendProperties, ElementOfSeq, LenProperties
<1> HIDE DEF c
<1>2. \A i \in 1..Len(c) : (i \in 1..Len(b) /\ c[i] = b[i]) \/ (i = Len(b) + 1 /\ c[i] = e)
  BY <1>1
<1>3. ASSUME NEW i \in 1..Len(c), NEW j \in 1..Len(c), i < j, IsNew(c[i]), IsNew(c[j])
      PROVE  c[i].epoch < c[j].epoch
  <2>1. i \in 1..Len(b) /\ c[i] = b[i]
    BY <1>1, <1>2, <1>3
  <2>2. b[i].epoch \in Nat /\ b[i].epoch <= high
    BY <1>1, <1>3, <2>1 DEF Within, EventRec
  <2>3. CASE j \in 1..Len(b) /\ c[j] = b[j]
    BY <1>3, <2>1, <2>3 DEF Rising
  <2>4. CASE c[j] = e
    <3>1. e.epoch \in Nat /\ high < e.epoch
      BY <1>3, <2>4 DEF EventRec
    <3> QED  BY <2>1, <2>2, <2>4, <3>1
  <2> QED  BY <1>2, <2>3, <2>4
<1>4. ASSUME NEW i \in 1..Len(c), IsNew(c[i])
      PROVE  low < c[i].epoch /\ c[i].epoch <= top
  <2>1. CASE i \in 1..Len(b) /\ c[i] = b[i]
    <3>1. b[i].epoch \in Nat /\ low < b[i].epoch /\ b[i].epoch <= high
      BY <1>1, <1>4, <2>1 DEF Within, EventRec
    <3> QED  BY <2>1, <3>1
  <2>2. CASE c[i] = e
    BY <1>4, <2>2
  <2> QED  BY <1>2, <2>1, <2>2
<1>5. Rising(c) /\ Within(c, low, top)
  BY <1>3, <1>4 DEF Rising, Within
<1> QED  BY <1>2, <1>5 DEF c

(* What the sender tells the capture threads while it keeps its connection, *)
(* and what a callback tells them, is never a new connection.              *)
TellsNoConnection ==
  \/ UNCHANGED evs
  \/ \E e \in EventRec : ~IsNew(e) /\ evs' = Append(evs, e)

LEMMA ReportTells ==
  ASSUME SenderOK, NEW q, q \subseteq Frames, NEW kind \in {"kDrop", "kHeadBarrier"},
         ReportDropped(q, kind)
  PROVE  TellsNoConnection
<1>1. CASE q = {} /\ UNCHANGED <<dropped, evs>>
  BY <1>1 DEF TellsNoConnection
<1>2. ASSUME NEW f \in q, evs' = Append(evs, Event(kind, f.idx))
      PROVE  TellsNoConnection
  <2>1. Event(kind, f.idx) \in EventRec /\ ~IsNew(Event(kind, f.idx))
    BY DEF Event, EventRec, Events, SenderOK, Frames, IsNew
  <2> QED  BY <1>2, <2>1 DEF TellsNoConnection
<1> QED  BY <1>1, <1>2 DEF ReportDropped

LEMMA EventsKept ==
  ASSUME IInv, EventsOrdered, TellsNoConnection,
         UNCHANGED <<conn_epoch, cur_epoch, batch>>
  PROVE  EventsOrdered'
<1>1. CASE UNCHANGED evs
  BY <1>1 DEF EventsOrdered, Rising, Within
<1>2. ASSUME NEW e \in EventRec, ~IsNew(e), evs' = Append(evs, e)
      PROVE  EventsOrdered'
  <2>1. evs \in Seq(EventRec) /\ cur_epoch \in Nat /\ conn_epoch \in Nat
    BY DEF IInv, SenderInv, SenderOK, CaptureOK
  <2>2. /\ Rising(Append(evs, e)) /\ Within(Append(evs, e), cur_epoch, conn_epoch)
        /\ \A j \in 1..Len(Append(evs, e)) : (j \in 1..Len(evs) /\ Append(evs, e)[j] = evs[j])
                                            \/ Append(evs, e)[j] = e
    BY <1>2, <2>1, EventAppended DEF EventsOrdered
  <2>3. /\ cur_epoch' <= conn_epoch'
        /\ Rising(batch)' /\ Rising(evs)'
        /\ Within(batch, cur_epoch, conn_epoch)' /\ Within(evs, cur_epoch, conn_epoch)'
    BY <1>2, <2>2 DEF EventsOrdered, Rising, Within
  <2>4. \A i \in 1..Len(batch'), j \in 1..Len(evs') :
          IsNew(batch'[i]) /\ IsNew(evs'[j]) => batch'[i].epoch < evs'[j].epoch
    BY <1>2, <2>2 DEF EventsOrdered
  <2> QED  BY <2>3, <2>4 DEF EventsOrdered, IsNew
<1> QED  BY <1>1, <1>2 DEF TellsNoConnection

(* A new connection is announced after all the earlier ones. *)
LEMMA ConnectEvents ==
  ASSUME IInv, EventsOrdered, Connect, UNCHANGED <<cur_epoch, batch>>
  PROVE  EventsOrdered'
<1> DEFINE e == [ev |-> "kNewConnection", idx |-> 0, epoch |-> conn_epoch + 1]
<1>1. /\ evs \in Seq(EventRec) /\ batch \in Seq(EventRec)
      /\ cur_epoch \in Nat /\ conn_epoch \in Nat
      /\ conn_epoch' = conn_epoch + 1 /\ evs' = Append(evs, e)
  BY DEF IInv, SenderInv, SenderOK, CaptureOK, Connect
<1>2. cur_epoch <= conn_epoch /\ cur_epoch < conn_epoch + 1
  BY <1>1 DEF EventsOrdered
<1>3. e \in EventRec /\ e.epoch = conn_epoch + 1
  BY <1>1 DEF EventRec, Events
<1> HIDE DEF e
<1>4. /\ Rising(Append(evs, e)) /\ Within(Append(evs, e), cur_epoch, conn_epoch + 1)
      /\ \A j \in 1..Len(Append(evs, e)) : (j \in 1..Len(evs) /\ Append(evs, e)[j] = evs[j])
                                          \/ Append(evs, e)[j] = e
  BY <1>1, <1>2, <1>3, EventAppended, SMTT(30) DEF EventsOrdered
<1>5. \A i \in 1..Len(batch) : batch[i].epoch \in Nat
  <2>1. \A i \in 1..Len(batch) : batch[i] \in EventRec
    BY <1>1, ElementOfSeq
  <2> QED  BY <2>1 DEF EventRec
<1>6. Rising(batch)' /\ Within(batch, cur_epoch, conn_epoch)'
  BY <1>1, <1>5 DEF EventsOrdered, Rising, Within, IsNew
<1>7. ASSUME NEW i \in 1..Len(batch), NEW j \in 1..Len(evs'), IsNew(batch[i]), IsNew(evs'[j])
      PROVE  batch[i].epoch < evs'[j].epoch
  <2>1. batch[i].epoch <= conn_epoch
    BY <1>7 DEF EventsOrdered, Within
  <2>2. CASE j \in 1..Len(evs) /\ evs'[j] = evs[j]
    BY <1>7, <2>2 DEF EventsOrdered
  <2>3. CASE evs'[j] = e
    BY <1>1, <1>3, <1>5, <2>1, <2>3
  <2> QED  BY <1>1, <1>4, <2>2, <2>3
<1>8. Rising(evs)' /\ Within(evs, cur_epoch, conn_epoch)' /\ cur_epoch' <= conn_epoch'
  BY <1>1, <1>2, <1>4 DEF Rising, Within, IsNew
<1> QED  BY <1>6, <1>7, <1>8 DEF EventsOrdered, IsNew

(* The capture threads take the whole list. *)
LEMMA PlaceFrameEvents ==
  ASSUME IInv, EventsOrdered, PlaceFrame
  PROVE  EventsOrdered'
<1>1. batch' = evs /\ evs' = <<>> /\ UNCHANGED <<cur_epoch, conn_epoch>>
  BY DEF PlaceFrame, senderVars
<1>2. Len(evs') = 0
  BY <1>1
<1> QED  BY <1>1, <1>2 DEF EventsOrdered, Rising, Within

(* And answer one event after the other: the connection they come to is     *)
(* later than the one they leave.                                          *)
LEMMA DrainEvents ==
  ASSUME IInv, EventsOrdered, DrainEvent
  PROVE  /\ EventsOrdered'
         /\ DrainNewConnection(Head(batch)) =>
              cur_epoch < cur_epoch' /\ cur_epoch' <= conn_epoch
<1> DEFINE e == Head(batch)
<1>1. batch \in Seq(EventRec) /\ batch # <<>> /\ batch' = Tail(batch)
  BY DEF IInv, CaptureOK, DrainEvent
<1>2. cur_epoch \in Nat /\ conn_epoch \in Nat /\ UNCHANGED <<evs, conn_epoch>>
  BY DEF IInv, SenderInv, SenderOK, CaptureOK, DrainEvent, senderVars
<1>3. /\ Len(batch) \in Nat /\ 1 \in 1..Len(batch) /\ e = batch[1]
      /\ \A i \in 1..Len(batch') : i + 1 \in 1..Len(batch) /\ batch'[i] = batch[i + 1]
      /\ \A i \in 1..Len(batch) : batch[i].epoch \in Nat
  <2>1. \A i \in 1..Len(batch) : batch[i] \in EventRec
    BY <1>1, ElementOfSeq
  <2>2. \A i \in 1..Len(batch) : batch[i].epoch \in Nat
    BY <2>1 DEF EventRec
  <2>3. /\ Len(batch) \in Nat /\ 1 \in 1..Len(batch) /\ e = batch[1]
        /\ \A i \in 1..Len(batch') : i + 1 \in 1..Len(batch) /\ batch'[i] = batch[i + 1]
    BY <1>1, HeadTailProperties, LenProperties
  <2> QED  BY <2>2, <2>3
<1>6. Rising(batch')
  <2> SUFFICES ASSUME NEW i \in 1..Len(batch'), NEW j \in 1..Len(batch'), i < j,
                      IsNew(batch'[i]), IsNew(batch'[j])
               PROVE  batch'[i].epoch < batch'[j].epoch
    BY DEF Rising
  <2>1. i + 1 \in 1..Len(batch) /\ j + 1 \in 1..Len(batch) /\ i + 1 < j + 1
    BY <1>3
  <2>2. batch'[i] = batch[i + 1] /\ batch'[j] = batch[j + 1]
    BY <1>3
  <2>3. Rising(batch)
    BY DEF EventsOrdered
  <2> QED  BY <2>1, <2>2, <2>3 DEF Rising
<1>4. CASE ~IsNew(e)
  <2>1. cur_epoch' = cur_epoch
    BY <1>4 DEF DrainEvent, DrainNewConnection, DrainDrop, IsNew
  <2>2. Rising(batch)' /\ Within(batch, cur_epoch, conn_epoch)'
    <3>1. Rising(batch)'
      BY <1>6 DEF Rising, IsNew
    <3>2. Within(batch, cur_epoch, conn_epoch)'
      BY <1>2, <1>3, <2>1 DEF EventsOrdered, Within
    <3> QED  BY <3>1, <3>2
  <2>3. Rising(evs)' /\ Within(evs, cur_epoch, conn_epoch)' /\ cur_epoch' <= conn_epoch'
    BY <1>2, <2>1 DEF EventsOrdered, Rising, Within
  <2>4. \A i \in 1..Len(batch'), j \in 1..Len(evs') :
          IsNew(batch'[i]) /\ IsNew(evs'[j]) => batch'[i].epoch < evs'[j].epoch
    BY <1>2, <1>3 DEF EventsOrdered
  <2> QED  BY <1>4, <2>2, <2>3, <2>4 DEF EventsOrdered, IsNew, DrainNewConnection
<1>5. CASE IsNew(e)
  <2>1. cur_epoch' = e.epoch
    BY <1>5 DEF DrainEvent, DrainNewConnection, DrainDrop, IsNew
  <2>2. cur_epoch < e.epoch /\ e.epoch <= conn_epoch
    BY <1>3, <1>5 DEF EventsOrdered, Within
  <2>3. \A i \in 1..Len(batch') :
          IsNew(batch'[i]) => e.epoch < batch'[i].epoch /\ batch'[i].epoch <= conn_epoch
    <3> SUFFICES ASSUME NEW i \in 1..Len(batch'), IsNew(batch'[i])
                 PROVE  e.epoch < batch'[i].epoch /\ batch'[i].epoch <= conn_epoch
      OBVIOUS
    <3>1. i + 1 \in 1..Len(batch) /\ 1 < i + 1 /\ batch'[i] = batch[i + 1]
      BY <1>3
    <3>2. Rising(batch) /\ Within(batch, cur_epoch, conn_epoch)
      BY DEF EventsOrdered
    <3> QED  BY <1>3, <1>5, <3>1, <3>2 DEF Rising, Within
  <2>4. Rising(batch)' /\ Within(batch, cur_epoch, conn_epoch)'
    <3>1. Rising(batch)'
      BY <1>6 DEF Rising, IsNew
    <3> QED  BY <1>2, <2>1, <2>3, <3>1 DEF Within, IsNew
  <2>5. Rising(evs)' /\ Within(evs, cur_epoch, conn_epoch)' /\ cur_epoch' <= conn_epoch'
    <3>1. \A j \in 1..Len(evs) : IsNew(evs[j]) => e.epoch < evs[j].epoch
      BY <1>3, <1>5 DEF EventsOrdered
    <3> QED  BY <1>2, <2>1, <2>2, <3>1 DEF EventsOrdered, Rising, Within, IsNew
  <2>6. \A i \in 1..Len(batch'), j \in 1..Len(evs') :
          IsNew(batch'[i]) /\ IsNew(evs'[j]) => batch'[i].epoch < evs'[j].epoch
    BY <1>2, <1>3 DEF EventsOrdered
  <2> QED  BY <2>1, <2>2, <2>4, <2>5, <2>6 DEF EventsOrdered, IsNew
<1> QED  BY <1>4, <1>5

(* The steps of the sender but Connect tell of no connection. *)
LEMMA SenderTells ==
  ASSUME SenderInv,
         \/ \E s \in Streams, om \in Contexts, idr \in BOOLEAN : Submit(s, om, idr)
         \/ StepBlocked \/ StepSent \/ StepError \/ StepStall \/ NotifyDisconnect
  PROVE  TellsNoConnection /\ conn_epoch' = conn_epoch
<1> DEFINE Kinds == {"kDrop", "kHeadBarrier"}
<1>1. SenderOK /\ Refused(queued) \subseteq Frames /\ queued \subseteq Frames
  BY DEF SenderInv, SenderOK, SlotOK, Refused
<1>2. ASSUME NEW s \in Streams, NEW om \in Contexts, NEW idr \in BOOLEAN, Submit(s, om, idr)
      PROVE  TellsNoConnection /\ conn_epoch' = conn_epoch
  <2>1. CASE UNCHANGED <<senderVars, evs>>
    BY <2>1 DEF senderVars, TellsNoConnection
  <2>2. ASSUME HeadGate(queued)
        PROVE  TellsNoConnection
    BY <1>1, <2>2, ReportTells DEF HeadGate
  <2>3. ASSUME NEW f \in queued, HeadGate({WithSegment(f, s, om, idr)})
        PROVE  TellsNoConnection
    <3>1. Refused({WithSegment(f, s, om, idr)}) \subseteq Frames
      BY <1>1, SegmentType DEF Refused
    <3> QED  BY <1>1, <2>3, <3>1, ReportTells DEF HeadGate
  <2>4. ASSUME Overwrite(s, om, idr)
        PROVE  TellsNoConnection
    BY <1>1, <2>4, ReportTells DEF Overwrite, OverwriteEvent
  <2> QED  BY <1>2, <2>1, <2>2, <2>3, <2>4 DEF Submit, senderVars
<1>3. ASSUME ReportDropped(Refused(queued), "kHeadBarrier")
      PROVE  TellsNoConnection
  BY <1>1, <1>3, ReportTells
<1>4. CASE StepBlocked \/ StepSent
  BY <1>3, <1>4 DEF StepBlocked, StepSent, ServeQueue
<1>5. CASE StepError \/ StepStall
  BY <1>3, <1>5 DEF StepError, StepStall, DropConnection
<1>6. CASE NotifyDisconnect
  BY <1>6 DEF NotifyDisconnect, DropConnection, TellsNoConnection
<1> QED  BY <1>2, <1>4, <1>5, <1>6

(* What a hit leaves in the queue are the contexts behind it.              *)
LEMMA BehindHit ==
  ASSUME NEW c \in Caches, NEW id \in Nat, TakeResult(c, id) = "kHit"
  PROVE  /\ Hit(c, id) \in 1..Len(c.q)
         /\ Taken(c, id) = c.q[Hit(c, id)]
         /\ \A i \in 1..Len(AfterTake(c, id).q) :
              /\ Hit(c, id) + i \in 1..Len(c.q)
              /\ AfterTake(c, id).q[i] = c.q[Hit(c, id) + i]
<1> DEFINE h == Hit(c, id)
<1>1. h \in 1..Len(c.q) /\ c.q \in Seq(Contexts) /\ Len(c.q) \in Nat
  BY HitPosition, LenProperties
<1>2. AfterTake(c, id).q = SubSeq(c.q, h + 1, Len(c.q))
  BY DEF AfterTake, Caches
<1>3. \A i \in h + 1..Len(c.q) : c.q[i] \in Contexts
  BY <1>1, ElementOfSeq
<1> HIDE DEF h
<1>4. \A i \in 1..Len(AfterTake(c, id).q) :
        h + i \in 1..Len(c.q) /\ AfterTake(c, id).q[i] = c.q[h + i]
  BY <1>1, <1>2, <1>3, SubSeqProperties
<1> QED  BY <1>1, <1>4 DEF Taken, h

(* The numbers and epochs that are compared. *)
LEMMA PipelineTypes ==
  ASSUME IInv
  PROVE  /\ cur_epoch \in Nat /\ conn_epoch \in Nat /\ frame_idx \in Nat /\ frames \in Nat
         /\ \A s \in Streams :
              /\ meta[s] \in Caches /\ meta[s].q \in Seq(Contexts) /\ Len(meta[s].q) \in Nat
              /\ \A i \in 1..Len(meta[s].q) : meta[s].q[i] \in Contexts
              /\ Waits(s) \subseteq Contexts
              /\ \A o \in out[s] : o.om \in Contexts
         /\ Held \subseteq Frames
<1>1. cur_epoch \in Nat /\ conn_epoch \in Nat /\ frame_idx \in Nat /\ frames \in Nat
  BY DEF IInv, CaptureOK, SenderInv, SenderOK
<1>2. ASSUME NEW s \in Streams
      PROVE  /\ meta[s] \in Caches /\ meta[s].q \in Seq(Contexts) /\ Len(meta[s].q) \in Nat
             /\ \A i \in 1..Len(meta[s].q) : meta[s].q[i] \in Contexts
             /\ \A o \in out[s] : o.om \in Contexts
  <2>1. meta[s] \in Caches /\ meta[s].q \in Seq(Contexts)
    BY DEF IInv, EncodersOK, Caches
  <2>2. \A i \in 1..Len(meta[s].q) : meta[s].q[i] \in Contexts
    BY <2>1, ElementOfSeq
  <2>3. \A o \in out[s] : o.om \in Contexts
    BY DEF IInv, EncodersOK, Outputs
  <2> QED  BY <2>1, <2>2, <2>3, LenProperties
<1>3. Held \subseteq Frames
  BY DEF IInv, SenderInv, SenderOK, SlotOK, Held
<1> QED  BY <1>1, <1>2, <1>3 DEF Waits

(* A callback that goes on with its output, or drops it, changes no order;  *)
(* nor does a thread that leaves the pipeline alone and holds no new frame. *)
LEMMA OrderKept ==
  ASSUME IInv, PipelineOrdered,
         UNCHANGED <<meta, cur_epoch, frame_idx, conn_epoch>>,
         \A t \in Streams : \A o2 \in out'[t] : \E o \in out[t] : o2.om = o.om,
         connected' => connected /\ Held' \subseteq Held
  PROVE  PipelineOrdered'
<1>1. \A t \in Streams : Waits(t)' = Waits(t)
  BY DEF Waits
<1>2. ContextsOrdered'
  BY <1>1 DEF PipelineOrdered, ContextsOrdered
<1>3. SegmentsAhead'
  <2> SUFFICES ASSUME connected', NEW f \in Held'
               PROVE  /\ cur_epoch' = conn_epoch'
                      /\ f.idx < frame_idx'
                      /\ \A s \in f.has :
                           /\ \A c \in Waits(s)' : f.idx < c.frame_idx
                           /\ \A o \in out'[s] :
                                o.om.conn_epoch = conn_epoch' => f.idx < o.om.frame_idx
    BY DEF SegmentsAhead
  <2>1. /\ cur_epoch = conn_epoch /\ f.idx < frame_idx
        /\ \A s \in f.has :
             /\ \A c \in Waits(s) : f.idx < c.frame_idx
             /\ \A o \in out[s] : o.om.conn_epoch = conn_epoch => f.idx < o.om.frame_idx
    BY DEF PipelineOrdered, SegmentsAhead
  <2>2. f.has \subseteq Streams
    BY PipelineTypes DEF Frames
  <2> QED  BY <1>1, <2>1, <2>2
<1> QED  BY <1>2, <1>3 DEF PipelineOrdered

(* A new connection starts with no context; what a callback still holds is  *)
(* of an earlier one.                                                      *)
LEMMA DrainOrder ==
  ASSUME IInv, EventsOrdered, PipelineOrdered, DrainEvent
  PROVE  PipelineOrdered'
<1>1. UNCHANGED <<out, connected, conn_epoch, Held>>
  BY DEF DrainEvent, senderVars, encoderVars, Held
<1>2. CASE DrainDrop(Head(batch))
  <2>1. UNCHANGED <<meta, cur_epoch, frame_idx>>
    BY <1>2 DEF DrainDrop
  <2> QED  BY <1>1, <2>1, OrderKept
<1>3. CASE DrainNewConnection(Head(batch))
  <2>1. cur_epoch < cur_epoch' /\ cur_epoch' <= conn_epoch
    BY <1>3, DrainEvents
  <2>2. \A s \in Streams : Len(meta'[s].q) = 0 /\ Waits(s)' = {}
    BY <1>3 DEF DrainNewConnection, MetaClear, EmptyMeta, Waits
  <2>3. \A s \in Streams : \A o \in out[s] : o.om.conn_epoch \in Nat /\ o.om.conn_epoch <= cur_epoch
    BY PipelineTypes DEF PipelineOrdered, ContextsOrdered, Contexts
  <2>4. cur_epoch \in Nat /\ cur_epoch' \in Nat /\ conn_epoch \in Nat
    BY PipelineTypes, DrainEventInv DEF IInv, CaptureOK
  <2>5. \A s \in Streams : \A o \in out[s] : o.om.conn_epoch < cur_epoch'
    BY <2>1, <2>3, <2>4
  <2>6. ContextsOrdered'
    BY <1>1, <2>2, <2>3, <2>4, <2>5 DEF ContextsOrdered
  <2>7. connected => Held = {}
    BY <2>1, <2>4 DEF PipelineOrdered, SegmentsAhead
  <2>8. SegmentsAhead'
    BY <1>1, <2>7 DEF SegmentsAhead
  <2> QED  BY <2>6, <2>8 DEF PipelineOrdered
<1> QED  BY <1>2, <1>3 DEF DrainEvent

(* The context of a new pair is behind all the others.                     *)
LEMMA EncodeOrder ==
  ASSUME IInv, PipelineOrdered, EncodePair
  PROVE  PipelineOrdered'
<1>1. UNCHANGED <<out, connected, conn_epoch, cur_epoch, Held>>
  BY DEF EncodePair, senderVars, Held
<1>2. PICK skip \in 0..MaxSkip :
        /\ frame_idx' = frame_idx + skip + 1
        /\ meta' = [s \in Streams |-> MetaPush(meta[s], Context(frame_idx + skip))]
  BY DEF EncodePair
<1> DEFINE om == Context(frame_idx + skip)
<1>3. skip \in Nat /\ frame_idx \in Nat /\ frames \in Nat /\ cur_epoch \in Nat
  BY PipelineTypes, BigmodeldConstants
<1>4. /\ om.frame_idx = frame_idx + skip /\ om.conn_epoch = cur_epoch
      /\ om \in Contexts
  BY <1>3 DEF Context, Contexts, PredictedIdr
<1> HIDE DEF om
<1>5. ASSUME NEW s \in Streams
      PROVE  /\ Len(meta'[s].q) = Len(meta[s].q) + 1
             /\ \A i \in 1..Len(meta[s].q) : meta'[s].q[i] = meta[s].q[i]
             /\ meta'[s].q[Len(meta[s].q) + 1] = om
             /\ Len(meta[s].q) \in Nat
             /\ \A i \in 1..Len(meta'[s].q) : i \in 1..Len(meta[s].q) \/ i = Len(meta[s].q) + 1
  <2>1. meta'[s].q = Append(meta[s].q, om)
    BY <1>2 DEF MetaPush, om
  <2>2. meta[s].q \in Seq(Contexts) /\ Len(meta[s].q) \in Nat
    BY PipelineTypes
  <2>3. /\ Len(meta'[s].q) = Len(meta[s].q) + 1
        /\ \A i \in 1..Len(meta[s].q) : meta'[s].q[i] = meta[s].q[i]
        /\ meta'[s].q[Len(meta[s].q) + 1] = om
    BY <1>4, <2>1, <2>2, AppendProperties
  <2> QED  BY <2>2, <2>3
<1>6. ASSUME NEW s \in Streams
      PROVE  Waits(s)' \subseteq Waits(s) \cup {om}
  <2> SUFFICES ASSUME NEW i \in 1..Len(meta'[s].q)
               PROVE  meta'[s].q[i] \in Waits(s) \cup {om}
    BY DEF Waits
  <2> QED  BY <1>5 DEF Waits
<1>7. \A s \in Streams : \A c \in Waits(s) :
        c.frame_idx \in Nat /\ c.conn_epoch = cur_epoch /\ c.frame_idx < frame_idx
  BY PipelineTypes DEF PipelineOrdered, ContextsOrdered, Contexts
<1>8. ContextsOrdered'
  <2> SUFFICES ASSUME NEW s \in Streams
               PROVE  /\ \A i, j \in 1..Len(meta'[s].q) :
                           i < j => meta'[s].q[i].frame_idx < meta'[s].q[j].frame_idx
                      /\ \A c \in Waits(s)' : c.conn_epoch = cur_epoch /\ c.frame_idx < frame_idx'
                      /\ \A o \in out[s] :
                           /\ o.om.conn_epoch <= cur_epoch
                           /\ o.om.conn_epoch = cur_epoch =>
                                /\ o.om.frame_idx < frame_idx'
                                /\ \A c \in Waits(s)' : o.om.frame_idx < c.frame_idx
    BY <1>1 DEF ContextsOrdered
  <2>1. ASSUME NEW i \in 1..Len(meta'[s].q), NEW j \in 1..Len(meta'[s].q), i < j
        PROVE  meta'[s].q[i].frame_idx < meta'[s].q[j].frame_idx
    <3>1. i \in 1..Len(meta[s].q) /\ meta'[s].q[i] = meta[s].q[i]
      BY <1>5, <2>1
    <3>2. meta[s].q[i] \in Waits(s)
      BY <3>1 DEF Waits
    <3>3. CASE j \in 1..Len(meta[s].q)
      BY <1>5, <2>1, <3>1, <3>3 DEF PipelineOrdered, ContextsOrdered
    <3>4. CASE j = Len(meta[s].q) + 1
      <4>1. meta[s].q[i].frame_idx \in Nat /\ meta[s].q[i].frame_idx < frame_idx
        BY <1>7, <3>2
      <4>2. meta'[s].q[j] = om
        BY <1>5, <3>4
      <4> QED  BY <1>3, <1>4, <3>1, <4>1, <4>2
    <3> QED  BY <1>5, <3>3, <3>4
  <2>2. \A c \in Waits(s)' : c.conn_epoch = cur_epoch /\ c.frame_idx < frame_idx'
    BY <1>2, <1>3, <1>4, <1>6, <1>7
  <2>3. ASSUME NEW o \in out[s]
        PROVE  /\ o.om.conn_epoch <= cur_epoch
               /\ o.om.conn_epoch = cur_epoch =>
                    /\ o.om.frame_idx < frame_idx'
                    /\ \A c \in Waits(s)' : o.om.frame_idx < c.frame_idx
    <3>1. /\ o.om.conn_epoch <= cur_epoch
          /\ o.om.conn_epoch = cur_epoch =>
               o.om.frame_idx < frame_idx /\ \A c \in Waits(s) : o.om.frame_idx < c.frame_idx
      BY <2>3 DEF PipelineOrdered, ContextsOrdered
    <3>2. o.om.frame_idx \in Nat
      BY <2>3, PipelineTypes DEF Contexts
    <3> QED  BY <1>2, <1>3, <1>4, <1>6, <3>1, <3>2
  <2> QED  BY <2>1, <2>2, <2>3
<1>9. SegmentsAhead'
  <2> SUFFICES ASSUME connected, NEW f \in Held
               PROVE  /\ cur_epoch = conn_epoch /\ f.idx < frame_idx'
                      /\ \A s \in f.has :
                           /\ \A c \in Waits(s)' : f.idx < c.frame_idx
                           /\ \A o \in out[s] :
                                o.om.conn_epoch = conn_epoch => f.idx < o.om.frame_idx
    BY <1>1 DEF SegmentsAhead
  <2>1. f.idx \in Nat /\ f.has \subseteq Streams
    BY PipelineTypes DEF Frames
  <2>2. /\ cur_epoch = conn_epoch /\ f.idx < frame_idx
        /\ \A s \in f.has :
             /\ \A c \in Waits(s) : f.idx < c.frame_idx
             /\ \A o \in out[s] : o.om.conn_epoch = conn_epoch => f.idx < o.om.frame_idx
    BY DEF PipelineOrdered, SegmentsAhead
  <2>3. f.idx < om.frame_idx /\ f.idx < frame_idx'
    BY <1>2, <1>3, <1>4, <2>1, <2>2
  <2> QED  BY <1>6, <2>1, <2>2, <2>3
<1> QED  BY <1>8, <1>9 DEF PipelineOrdered
(* A callback takes the context of its output and forgets those before it. *)
LEMMA TakeOrder ==
  ASSUME IInv, PipelineOrdered, NEW s \in Streams, TakeContext(s)
  PROVE  PipelineOrdered'
<1> DEFINE id == Head(enc[s]).id
           h  == Hit(meta[s], id)
<1>1. UNCHANGED <<connected, conn_epoch, cur_epoch, frame_idx, Held>>
  BY DEF TakeContext, senderVars, captureVars, Held
<1>2. PICK large \in BOOLEAN : /\ meta' = [meta EXCEPT ![s] = AfterTake(@, id)]
                               /\ out' = [out EXCEPT ![s] = Output(s, Head(enc[s]), large)]
  BY BigmodeldConstants DEF TakeContext
<1>3. id \in Nat
  <2>1. enc[s] \in Seq(Encoded) /\ enc[s] # <<>>
    BY DEF IInv, EncodersOK, TakeContext, Encoded
  <2>2. Head(enc[s]) \in Encoded
    BY <2>1, HeadTailProperties
  <2> QED  BY <2>2 DEF Encoded
<1>4. CASE TakeResult(meta[s], id) # "kHit"
  <2>1. meta' = meta
    BY <1>2, <1>4 DEF AfterTake, IInv, EncodersOK
  <2>2. \A t \in Streams : \A o2 \in out'[t] : \E o \in out[t] : o2.om = o.om
    BY <1>2, <1>4 DEF Output, IInv, EncodersOK
  <2> QED  BY <1>1, <2>1, <2>2, OrderKept
<1>5. CASE TakeResult(meta[s], id) = "kHit"
  <2>1. /\ h \in 1..Len(meta[s].q)
        /\ Taken(meta[s], id) = meta[s].q[h]
        /\ \A i \in 1..Len(meta'[s].q) :
             h + i \in 1..Len(meta[s].q) /\ meta'[s].q[i] = meta[s].q[h + i]
    BY <1>2, <1>3, <1>5, BehindHit, PipelineTypes DEF IInv, EncodersOK
  <2>2. \A o \in out'[s] : o.om = meta[s].q[h]
    BY <1>2, <1>5, <2>1 DEF Output, IInv, EncodersOK
  <2>3. \A t \in Streams : t # s => meta'[t] = meta[t] /\ out'[t] = out[t] /\ Waits(t)' = Waits(t)
    BY <1>2 DEF IInv, EncodersOK, Waits
  <2> HIDE DEF h, id
  <2>4. h \in Nat /\ meta[s].q[h] \in Waits(s) /\ Waits(s)' \subseteq Waits(s)
    <3>1. h \in Nat
      BY <2>1, PipelineTypes
    <3>2. meta[s].q[h] \in Waits(s)
      BY <2>1 DEF Waits
    <3>3. \A i \in 1..Len(meta'[s].q) : meta'[s].q[i] \in Waits(s)
      BY <2>1 DEF Waits
    <3>4. Waits(s)' \subseteq Waits(s)
      BY <3>3 DEF Waits
    <3> QED  BY <3>1, <3>2, <3>4
  <2>5. \A c \in Waits(s)' : meta[s].q[h].frame_idx < c.frame_idx
    <3> SUFFICES ASSUME NEW i \in 1..Len(meta'[s].q)
                 PROVE  meta[s].q[h].frame_idx < meta'[s].q[i].frame_idx
      BY DEF Waits
    <3>1. h + i \in 1..Len(meta[s].q) /\ h < h + i /\ meta'[s].q[i] = meta[s].q[h + i]
      BY <2>1, <2>4, PipelineTypes
    <3> QED  BY <2>1, <3>1 DEF PipelineOrdered, ContextsOrdered
  <2>6. \A i, j \in 1..Len(meta'[s].q) :
          i < j => meta'[s].q[i].frame_idx < meta'[s].q[j].frame_idx
    <3> SUFFICES ASSUME NEW i \in 1..Len(meta'[s].q), NEW j \in 1..Len(meta'[s].q), i < j
                 PROVE  meta'[s].q[i].frame_idx < meta'[s].q[j].frame_idx
      OBVIOUS
    <3>1. /\ h + i \in 1..Len(meta[s].q) /\ h + j \in 1..Len(meta[s].q)
          /\ meta'[s].q[i] = meta[s].q[h + i] /\ meta'[s].q[j] = meta[s].q[h + j]
          /\ h + i < h + j
      BY <2>1, <2>4, PipelineTypes
    <3> QED  BY <3>1 DEF PipelineOrdered, ContextsOrdered
  <2>7. /\ meta[s].q[h].conn_epoch = cur_epoch /\ cur_epoch \in Nat
        /\ meta[s].q[h].frame_idx < frame_idx
        /\ \A c \in Waits(s)' : c.conn_epoch = cur_epoch /\ c.frame_idx < frame_idx
    BY <2>4, PipelineTypes DEF PipelineOrdered, ContextsOrdered
  <2>8. ContextsOrdered'
    <3> SUFFICES ASSUME NEW t \in Streams
                 PROVE  /\ \A i, j \in 1..Len(meta'[t].q) :
                             i < j => meta'[t].q[i].frame_idx < meta'[t].q[j].frame_idx
                        /\ \A c \in Waits(t)' : c.conn_epoch = cur_epoch /\ c.frame_idx < frame_idx
                        /\ \A o \in out'[t] :
                             /\ o.om.conn_epoch <= cur_epoch
                             /\ o.om.conn_epoch = cur_epoch =>
                                  /\ o.om.frame_idx < frame_idx
                                  /\ \A c \in Waits(t)' : o.om.frame_idx < c.frame_idx
      BY <1>1 DEF ContextsOrdered
    <3>1. CASE t # s
      BY <2>3, <3>1 DEF PipelineOrdered, ContextsOrdered
    <3>2. CASE t = s
      BY <2>2, <2>5, <2>6, <2>7, <3>2
    <3> QED  BY <3>1, <3>2
  <2>9. SegmentsAhead'
    <3> SUFFICES ASSUME connected, NEW f \in Held
                 PROVE  /\ cur_epoch = conn_epoch /\ f.idx < frame_idx
                        /\ \A t \in f.has :
                             /\ \A c \in Waits(t)' : f.idx < c.frame_idx
                             /\ \A o \in out'[t] :
                                  o.om.conn_epoch = conn_epoch => f.idx < o.om.frame_idx
      BY <1>1 DEF SegmentsAhead
    <3>1. /\ cur_epoch = conn_epoch /\ f.idx < frame_idx
          /\ \A t \in f.has :
               /\ \A c \in Waits(t) : f.idx < c.frame_idx
               /\ \A o \in out[t] : o.om.conn_epoch = conn_epoch => f.idx < o.om.frame_idx
      BY DEF PipelineOrdered, SegmentsAhead
    <3>2. f.has \subseteq Streams
      BY PipelineTypes DEF Frames
    <3>3. ASSUME NEW t \in f.has
          PROVE  /\ \A c \in Waits(t)' : f.idx < c.frame_idx
                 /\ \A o \in out'[t] :
                      o.om.conn_epoch = conn_epoch => f.idx < o.om.frame_idx
      <4>1. CASE t # s
        BY <2>3, <3>1, <3>2, <4>1
      <4>2. CASE t = s
        BY <2>2, <2>4, <3>1, <4>2
      <4> QED  BY <4>1, <4>2
    <3> QED  BY <3>1, <3>3
  <2> QED  BY <2>8, <2>9 DEF PipelineOrdered
<1> QED  BY <1>4, <1>5

-----------------------------------------------------------------------------
(* The slots of the sender                                                 *)

(* A segment goes to a frame that is held and has its place, or to a new    *)
(* one behind all the others.                                              *)
LEMMA SubmitSlots ==
  ASSUME SenderInv, NEW s \in Streams, NEW om \in Contexts, NEW idr \in BOOLEAN,
         Submit(s, om, idr), UNCHANGED wire
  PROVE  \/ UNCHANGED <<senderVars, evs>>
         \/ /\ ~Stale(om) /\ UNCHANGED <<connected, sent>>
            /\ \/ \E f \in inflight : /\ f.idx = om.frame_idx
                                      /\ inflight' = {WithSegment(f, s, om, idr)}
                                      /\ queued' \subseteq queued
               \/ \E f \in queued : /\ f.idx = om.frame_idx
                                    /\ inflight' = inflight
                                    /\ queued' \subseteq {WithSegment(f, s, om, idr)}
               \/ /\ inflight' = inflight
                  /\ \A f \in inflight : f.idx < om.frame_idx
                  /\ queued' = {WithSegment(NewFrame(om), s, om, idr)}
<1>1. CASE ~Stale(om) /\ ~Holds(inflight, om.frame_idx) /\ ~Late(om.frame_idx)
           /\ Overwrite(s, om, idr) /\ UNCHANGED <<connected, inflight, sent>>
  <2>1. \A f \in inflight : f.idx \in Nat /\ om.frame_idx \in Nat
    BY DEF SenderInv, SenderOK, SlotOK, Frames, Contexts
  <2>2. \A f \in inflight : f.idx < om.frame_idx
    BY <1>1, <2>1 DEF Late, Holds
  <2> QED  BY <1>1, <2>2 DEF Overwrite
<1>2. ASSUME ~Stale(om), UNCHANGED <<connected, sent>>,
             NEW f \in inflight, f.idx = om.frame_idx,
             inflight' = {WithSegment(f, s, om, idr)}, HeadGate(queued)
      PROVE  queued' \subseteq queued
  BY <1>2 DEF HeadGate
<1>3. ASSUME NEW f \in queued, HeadGate({WithSegment(f, s, om, idr)})
      PROVE  queued' \subseteq {WithSegment(f, s, om, idr)}
  BY <1>3 DEF HeadGate
<1> QED  BY <1>1, <1>2, <1>3 DEF Submit

(* What the writer does to the order of what it holds.                     *)
LEMMA ServedOrder ==
  ASSUME SenderInv, SlotsInOrder, connected, ServeQueue
  PROVE  /\ Flying \cup queued' \subseteq inflight \cup queued
         /\ \A f \in Flying, g \in queued' : f.idx < g.idx
<1>1. Launched \subseteq queued /\ queued' = queued \ (Refused(queued) \cup Launched)
  BY DEF Launched, ServeQueue
<1>2. SlotOK(queued)
  BY DEF SenderInv, SenderOK
<1>3. \A f \in Launched : queued' = {}
  BY <1>1, <1>2 DEF SlotOK
<1> QED  BY <1>1, <1>3 DEF Flying, SlotsInOrder, SlotsOrdered

LEMMA WriterOrder ==
  ASSUME SenderInv, SlotsInOrder,
         StepBlocked \/ StepSent \/ StepError \/ StepStall \/ Connect \/ NotifyDisconnect
  PROVE  /\ SlotsInOrder'
         /\ connected' /\ ~Connect => connected /\ Held' \subseteq Held
         /\ Connect => Held' = {}
<1>1. CASE StepBlocked
  <2>1. /\ connected /\ ServeQueue /\ wire' = wire /\ inflight' = Flying
        /\ ~Connect
    BY <1>1 DEF StepBlocked, Connect
  <2> QED  BY <2>1, ServedOrder DEF SlotsInOrder, SlotsOrdered, SentWhole, Held
<1>2. CASE StepSent
  <2>1. connected /\ ServeQueue /\ inflight' = {} /\ ~Connect
    BY <1>2 DEF StepSent, Connect
  <2>2. PICK f \in Flying : Complete(f) /\ wire' = {f}
    BY <1>2 DEF StepSent
  <2> QED  BY <2>1, <2>2, ServedOrder DEF SlotsInOrder, SlotsOrdered, SentWhole, Held
<1>3. CASE StepError \/ StepStall \/ NotifyDisconnect
  <2>1. ~connected' /\ ~Connect
    BY <1>3 DEF StepError, StepStall, NotifyDisconnect, DropConnection, Connect
  <2> QED  BY <2>1 DEF SlotsInOrder, SlotsOrdered, SentWhole
<1>4. CASE Connect
  <2>1. inflight' = {} /\ queued' = {} /\ wire' = {}
    BY <1>4 DEF Connect, SenderInv, NoMixedConnections
  <2> QED  BY <1>4, <2>1 DEF SlotsInOrder, SlotsOrdered, SentWhole, Held
<1> QED  BY <1>1, <1>2, <1>3, <1>4

(* The frame of a segment takes a place behind the frames that are there.  *)
LEMMA SubmitOrder ==
  ASSUME IInv, EventsOrdered, PipelineOrdered, SlotsInOrder,
         NEW s \in Streams, SubmitSegment(s)
  PROVE  PipelineOrdered' /\ SlotsInOrder'
<1>1. PICK o \in out[s] : Submit(s, o.om, o.idr) /\ out' = [out EXCEPT ![s] = {}]
  BY DEF SubmitSegment
<1> DEFINE om == o.om
<1>2. om \in Contexts /\ o.idr \in BOOLEAN
  BY DEF IInv, EncodersOK, Outputs
<1>3. UNCHANGED <<wire, meta, cur_epoch, frame_idx>> /\ conn_epoch' = conn_epoch
  BY <1>1, <1>2, SenderTells DEF SubmitSegment, captureVars, IInv
<1>4. /\ out'[s] = {}
      /\ \A t \in Streams : out'[t] \subseteq out[t] /\ Waits(t)' = Waits(t)
  BY <1>1, <1>3 DEF IInv, EncodersOK, Waits
<1>5. CASE UNCHANGED <<senderVars, evs>>
  <2>1. UNCHANGED <<connected, inflight, queued, Held>>
    BY <1>3, <1>5 DEF senderVars, Held
  <2>2. PipelineOrdered'
    BY <1>3, <1>4, <2>1, OrderKept
  <2> QED  BY <1>3, <2>1, <2>2 DEF SlotsInOrder, SlotsOrdered, SentWhole
<1>6. CASE ~Stale(om) /\ UNCHANGED <<connected, sent>>
           /\ \/ \E f \in inflight : /\ f.idx = om.frame_idx
                                     /\ inflight' = {WithSegment(f, s, om, o.idr)}
                                     /\ queued' \subseteq queued
              \/ \E f \in queued : /\ f.idx = om.frame_idx
                                   /\ inflight' = inflight
                                   /\ queued' \subseteq {WithSegment(f, s, om, o.idr)}
              \/ /\ inflight' = inflight
                 /\ \A f \in inflight : f.idx < om.frame_idx
                 /\ queued' = {WithSegment(NewFrame(om), s, om, o.idr)}
  <2>1. connected /\ connected' /\ om.conn_epoch = conn_epoch
    BY <1>6 DEF Stale
  <2>2. /\ cur_epoch = conn_epoch /\ om.frame_idx < frame_idx
        /\ \A c \in Waits(s) : om.frame_idx < c.frame_idx
    BY <2>1, PipelineTypes DEF EventsOrdered, PipelineOrdered, ContextsOrdered
  <2>3. ASSUME NEW f \in inflight \cup queued
        PROVE  LET g == WithSegment(f, s, om, o.idr)
               IN g.idx = f.idx /\ g.has = f.has \cup {s}
    <3>1. f \in Frames
      BY DEF IInv, SenderInv, SenderOK, SlotOK
    <3> QED  BY <3>1 DEF WithSegment, Frames
  <2>4. LET g == WithSegment(NewFrame(om), s, om, o.idr)
        IN g.idx = om.frame_idx /\ g.has = {s}
    BY DEF WithSegment, NewFrame
  <2>5. \A f \in Held' :
          \/ f \in Held
          \/ /\ f.idx = om.frame_idx
             /\ f.has = {s} \/ (\E g \in Held : g.idx = f.idx /\ f.has = g.has \cup {s})
    BY <1>3, <1>6, <2>3, <2>4 DEF Held
  <2>6. SegmentsAhead'
    <3>0. \A f \in Held' : f.has \subseteq Streams
      <4>1. SenderOK'
        BY SubmitSegmentInv DEF IInv, SenderInv
      <4> QED  BY <4>1 DEF SenderOK, SlotOK, Frames, Held
    <3> SUFFICES ASSUME NEW f \in Held'
                 PROVE  /\ cur_epoch = conn_epoch /\ f.idx < frame_idx
                        /\ \A t \in f.has :
                             /\ \A c \in Waits(t) : f.idx < c.frame_idx
                             /\ \A p \in out'[t] :
                                  p.om.conn_epoch = conn_epoch => f.idx < p.om.frame_idx
      BY <1>3, <1>4, <3>0 DEF SegmentsAhead
    <3>1. \A g \in Held : /\ g.has \subseteq Streams
                          /\ g.idx < frame_idx
                          /\ \A t \in g.has :
                               /\ \A c \in Waits(t) : g.idx < c.frame_idx
                               /\ \A p \in out[t] :
                                    p.om.conn_epoch = conn_epoch => g.idx < p.om.frame_idx
      BY <2>1, PipelineTypes DEF PipelineOrdered, SegmentsAhead, Frames
    <3>2. CASE f \in Held
      BY <1>4, <2>2, <3>1, <3>2
    <3>3. CASE f.idx = om.frame_idx /\ f.has = {s}
      BY <1>4, <2>2, <3>3
    <3>4. ASSUME NEW g \in Held, f.idx = om.frame_idx, g.idx = f.idx, f.has = g.has \cup {s}
          PROVE  \A t \in f.has :
                   /\ \A c \in Waits(t) : f.idx < c.frame_idx
                   /\ \A p \in out'[t] :
                        p.om.conn_epoch = conn_epoch => f.idx < p.om.frame_idx
      <4>1. ASSUME NEW t \in g.has
            PROVE  /\ \A c \in Waits(t) : f.idx < c.frame_idx
                   /\ \A p \in out'[t] :
                        p.om.conn_epoch = conn_epoch => f.idx < p.om.frame_idx
        BY <1>4, <3>1, <3>4
      <4>2. /\ \A c \in Waits(s) : f.idx < c.frame_idx
            /\ out'[s] = {}
        BY <1>4, <2>2, <3>4
      <4> QED  BY <3>4, <4>1, <4>2
    <3> QED  BY <2>2, <2>5, <3>2, <3>3, <3>4
  <2>7. ContextsOrdered'
    BY <1>3, <1>4 DEF PipelineOrdered, ContextsOrdered
  <2>8. SlotsInOrder'
    <3>1. \A w \in wire : "road" \in w.has /\ "wide" \in w.has
      BY <2>1 DEF SlotsInOrder, SentWhole, Complete, Streams
    <3>2. \A w \in wire : w.idx < om.frame_idx
      BY <2>1, <3>1 DEF PipelineOrdered, SegmentsAhead, Held, Streams
    <3>3. /\ \A w \in wire, f \in inflight \cup queued : w.idx < f.idx
          /\ \A f \in inflight, g \in queued : f.idx < g.idx
      BY <2>1 DEF SlotsInOrder, SlotsOrdered
    <3> DEFINE InOrder == /\ \A w \in wire, f \in inflight' \cup queued' : w.idx < f.idx
                          /\ \A f \in inflight', g \in queued' : f.idx < g.idx
    <3>4. InOrder
      <4>1. ASSUME NEW f \in inflight, f.idx = om.frame_idx,
                   inflight' = {WithSegment(f, s, om, o.idr)}, queued' \subseteq queued
            PROVE  InOrder
        BY <2>3, <3>2, <3>3, <4>1
      <4>2. ASSUME NEW f \in queued, f.idx = om.frame_idx, inflight' = inflight,
                   queued' \subseteq {WithSegment(f, s, om, o.idr)}
            PROVE  InOrder
        BY <2>3, <3>2, <3>3, <4>2
      <4>3. ASSUME inflight' = inflight, \A f \in inflight : f.idx < om.frame_idx,
                   queued' = {WithSegment(NewFrame(om), s, om, o.idr)}
            PROVE  InOrder
        BY <2>4, <3>2, <3>3, <4>3
      <4> QED  BY <1>6, <4>1, <4>2, <4>3
    <3> QED  BY <1>3, <2>1, <3>4 DEF SlotsInOrder, SlotsOrdered, SentWhole
  <2> QED  BY <2>6, <2>7, <2>8 DEF PipelineOrdered
<1> QED  BY <1>1, <1>2, <1>3, <1>5, <1>6, SubmitSlots DEF IInv
-----------------------------------------------------------------------------
(* The second invariant                                                    *)

(* A product of the bounds, as the prover needs it. *)
LEMMA Products ==
  ASSUME NEW a \in Nat, NEW k \in Nat
  PROVE  /\ a * k \in Nat
         /\ (a + 1) * k = a * k + k
         /\ \A b \in Nat : a <= b => a * k <= b * k
BY SMT

LEMMA SlotsKept ==
  ASSUME SlotsInOrder, UNCHANGED <<connected, inflight, queued, wire>>
  PROVE  SlotsInOrder'
BY DEF SlotsInOrder, SlotsOrdered, SentWhole

LEMMA InitOrder == Init => OrderInv
<1> SUFFICES ASSUME Init PROVE OrderInv
  OBVIOUS
<1>1. Len(evs) = 0 /\ Len(batch) = 0
  BY DEF Init, SenderInit
<1>2. EventsOrdered
  BY <1>1 DEF Init, SenderInit, EventsOrdered, Rising, Within
<1>3. \A s \in Streams : Len(meta[s].q) = 0 /\ Waits(s) = {} /\ out[s] = {}
  BY DEF Init, EmptyMeta, Waits
<1>4. PipelineOrdered
  BY <1>3 DEF Init, SenderInit, PipelineOrdered, ContextsOrdered, SegmentsAhead
<1>5. SlotsInOrder
  BY DEF Init, SenderInit, SlotsInOrder, SlotsOrdered, SentWhole
<1>6. IndicesBounded
  BY Products, BigmodeldConstants DEF Init, IndicesBounded
<1> QED  BY <1>2, <1>4, <1>5, <1>6 DEF OrderInv

LEMMA CaptureOrder ==
  ASSUME IInv, OrderInv, Capture
  PROVE  OrderInv'
<1> USE DEF OrderInv
<1>1. frames \in Nat /\ frame_idx \in Nat /\ MaxSkip + 1 \in Nat
  BY PipelineTypes, BigmodeldConstants
<1>2. SlotsInOrder'
  BY SlotsKept DEF Capture, PlaceFrame, DrainEvent, EncodePair, NoPair, senderVars
<1>3. CASE PlaceFrame
  <2>1. UNCHANGED <<meta, out, cur_epoch, frame_idx, frames, conn_epoch, connected, Held>>
    BY <1>3 DEF PlaceFrame, senderVars, Held
  <2> QED  BY <1>2, <1>3, <2>1, OrderKept, PlaceFrameEvents DEF IndicesBounded
<1>4. CASE DrainEvent
  <2>1. IndicesBounded'
    <3>1. frames' = frames /\ frame_idx' \in {0, frame_idx}
      BY <1>4 DEF DrainEvent, DrainNewConnection, DrainDrop
    <3>2. 0 <= frames * (MaxSkip + 1)
      BY <1>1, Products
    <3> QED  BY <3>1, <3>2 DEF IndicesBounded
  <2> QED  BY <1>2, <1>4, <2>1, DrainEvents, DrainOrder
<1>5. CASE EncodePair
  <2>1. EventsOrdered'
    <3>1. UNCHANGED <<evs, conn_epoch, cur_epoch, batch>>
      BY <1>5 DEF EncodePair, senderVars
    <3> QED  BY <3>1, EventsKept DEF TellsNoConnection
  <2>2. IndicesBounded'
    <3>1. PICK skip \in 0..MaxSkip : frame_idx' = frame_idx + skip + 1
      BY <1>5 DEF EncodePair
    <3>2. frames' = frames + 1 /\ frames < MaxFrames
      BY <1>5 DEF EncodePair
    <3> DEFINE k == MaxSkip + 1
    <3>3. skip + 1 <= k /\ skip \in Nat /\ k \in Nat
      BY BigmodeldConstants
    <3>4. (frames + 1) * k = frames * k + k /\ frames * k \in Nat
      BY <1>1, Products
    <3>5. frame_idx <= frames * k
      BY DEF IndicesBounded
    <3> HIDE DEF k
    <3>6. frame_idx' <= (frames + 1) * k
      BY <1>1, <3>1, <3>3, <3>4, <3>5
    <3>7. frames' <= MaxFrames
      BY <1>1, <3>2, BigmodeldConstants
    <3> QED  BY <3>2, <3>6, <3>7 DEF IndicesBounded, k
  <2> QED  BY <1>2, <1>5, <2>1, <2>2, EncodeOrder
<1>6. CASE NoPair
  <2>1. UNCHANGED <<meta, out, cur_epoch, frame_idx, frames, conn_epoch, connected, Held, evs,
                    batch>>
    BY <1>6 DEF NoPair, senderVars, Held
  <2>2. EventsOrdered'
    BY <2>1, EventsKept DEF TellsNoConnection
  <2> QED  BY <1>2, <2>1, <2>2, OrderKept DEF IndicesBounded
<1> QED  BY <1>3, <1>4, <1>5, <1>6 DEF Capture

(* Reporting a gap leaves the segment of the output as it is. *)
LEMMA OutputsKept ==
  ASSUME IInv, NEW s \in Streams, CloseGate(s) \/ ReportGap(s) \/ Swallow(s)
  PROVE  \A t \in Streams : \A o2 \in out'[t] : \E o \in out[t] :
           o2.om = o.om /\ o2.idr = o.idr
<1>1. /\ \A o \in out[s] : o \in Outputs
      /\ out \in [Streams -> SUBSET Outputs]
  BY DEF IInv, EncodersOK
<1>2. CASE Swallow(s)
  BY <1>2 DEF Swallow
<1>3. CASE CloseGate(s)
  <2>1. PICK o \in out[s] : out' = [out EXCEPT ![s] = {[o EXCEPT !.gate = TRUE]}]
    BY <1>3 DEF CloseGate
  <2> DEFINE p == [o EXCEPT !.gate = TRUE]
  <2>2. p.om = o.om /\ p.idr = o.idr
    BY <1>1 DEF Outputs
  <2>3. out' = [out EXCEPT ![s] = {p}]
    BY <2>1
  <2> HIDE DEF p
  <2> QED  BY <1>1, <2>2, <2>3
<1>4. CASE ReportGap(s)
  <2>1. PICK o \in out[s] :
          out' = [out EXCEPT ![s] = IF Len(o.gaps) = 1 /\ ~o.submit THEN {}
                                    ELSE {[o EXCEPT !.gaps = Tail(@), !.gate = FALSE]}]
    BY <1>4 DEF ReportGap
  <2> DEFINE p == [o EXCEPT !.gaps = Tail(@), !.gate = FALSE]
  <2>2. p.om = o.om /\ p.idr = o.idr
    BY <1>1 DEF Outputs
  <2>3. out' = [out EXCEPT ![s] = {p}] \/ out' = [out EXCEPT ![s] = {}]
    BY <2>1
  <2> HIDE DEF p
  <2> QED  BY <1>1, <2>2, <2>3
<1> QED  BY <1>2, <1>3, <1>4

LEMMA CallbackOrder ==
  ASSUME IInv, OrderInv, NEW s \in Streams, Callback(s) \/ Swallow(s)
  PROVE  OrderInv'
<1> USE DEF OrderInv
<1>1. UNCHANGED <<cur_epoch, batch, frames, frame_idx, wire>> /\ IndicesBounded'
  BY DEF Callback, TakeContext, CloseGate, ReportGap, SubmitSegment, Swallow, captureVars,
         IndicesBounded
<1>2. CASE SubmitSegment(s)
  <2>1. PICK o \in out[s] : Submit(s, o.om, o.idr)
    BY <1>2 DEF SubmitSegment
  <2>2. TellsNoConnection /\ conn_epoch' = conn_epoch
    BY <2>1, SenderTells DEF IInv, EncodersOK, Outputs
  <2> QED  BY <1>1, <1>2, <2>2, EventsKept, SubmitOrder
<1>3. CASE TakeContext(s)
  <2>1. TellsNoConnection /\ UNCHANGED <<conn_epoch, connected, inflight, queued>>
    BY <1>3 DEF TakeContext, senderVars, TellsNoConnection
  <2> QED  BY <1>1, <1>3, <2>1, EventsKept, TakeOrder, SlotsKept
<1>4. CASE CloseGate(s) \/ ReportGap(s) \/ Swallow(s)
  <2>1. UNCHANGED <<conn_epoch, connected, inflight, queued, meta>>
    BY <1>4 DEF CloseGate, ReportGap, Swallow, senderVars
  <2>2. TellsNoConnection
    <3>1. CASE UNCHANGED evs
      BY <3>1 DEF TellsNoConnection
    <3>2. ASSUME NEW o \in out[s], o.gaps # <<>>, evs' = Append(evs, Head(o.gaps)), ReportGap(s)
          PROVE  TellsNoConnection
      <4>1. o.gaps \in Seq(GapRecs)
        BY <3>2 DEF IInv, EncodersOK, Outputs
      <4>2. Head(o.gaps) \in GapRecs
        BY <3>2, <4>1, HeadTailProperties
      <4>3. Head(o.gaps) \in EventRec /\ ~IsNew(Head(o.gaps))
        BY <4>2 DEF GapRecs, IsNew
      <4> QED  BY <3>2, <4>3 DEF TellsNoConnection
    <3> QED  BY <1>4, <3>1, <3>2 DEF CloseGate, ReportGap, Swallow
  <2>3. \A t \in Streams : \A o2 \in out'[t] : \E o \in out[t] : o2.om = o.om
    BY <1>4, OutputsKept
  <2>4. Held' = Held
    BY <1>1, <2>1 DEF Held
  <2> QED  BY <1>1, <2>1, <2>2, <2>3, <2>4, EventsKept, OrderKept, SlotsKept
<1> QED  BY <1>2, <1>3, <1>4 DEF Callback

(* The writer and the reply thread move what the sender holds. *)
LEMMA SenderOrder ==
  ASSUME IInv, OrderInv, Writer \/ Reply
  PROVE  OrderInv'
<1> USE DEF OrderInv
<1>1. /\ UNCHANGED <<cur_epoch, batch, frames, frame_idx, meta, out>> /\ IndicesBounded'
      /\ StepBlocked \/ StepSent \/ StepError \/ StepStall \/ Connect \/ NotifyDisconnect
  BY DEF Writer, Reply, captureVars, IndicesBounded
<1>2. /\ SlotsInOrder'
      /\ connected' /\ ~Connect => connected /\ Held' \subseteq Held
      /\ Connect => Held' = {}
  BY <1>1, WriterOrder DEF IInv
<1>3. CASE Connect
  <2>1. EventsOrdered'
    BY <1>1, <1>3, ConnectEvents
  <2>2. ContextsOrdered'
    BY <1>1 DEF PipelineOrdered, ContextsOrdered, Waits
  <2>3. SegmentsAhead'
    BY <1>2, <1>3 DEF SegmentsAhead
  <2> QED  BY <1>1, <1>2, <2>1, <2>2, <2>3 DEF PipelineOrdered
<1>4. CASE ~Connect
  <2>1. TellsNoConnection /\ conn_epoch' = conn_epoch
    BY <1>1, <1>4, SenderTells DEF IInv
  <2>2. EventsOrdered'
    BY <1>1, <2>1, EventsKept
  <2>3. PipelineOrdered'
    BY <1>1, <1>2, <1>4, <2>1, OrderKept
  <2> QED  BY <1>1, <1>2, <2>2, <2>3
<1> QED  BY <1>3, <1>4

LEMMA NextOrder == IInv /\ OrderInv /\ [Next]_vars => OrderInv'
<1> SUFFICES ASSUME IInv, OrderInv, [Next]_vars
             PROVE  OrderInv'
  OBVIOUS
<1>1. CASE UNCHANGED vars
  <2>1. /\ UNCHANGED <<cur_epoch, conn_epoch, batch, frames, frame_idx, meta, out, connected>>
        /\ UNCHANGED <<evs, inflight, queued, wire, Held>>
    BY <1>1 DEF vars, senderVars, captureVars, encoderVars, Held
  <2>2. EventsOrdered'
    BY <2>1, EventsKept DEF OrderInv, TellsNoConnection
  <2>3. PipelineOrdered'
    BY <2>1, OrderKept DEF OrderInv
  <2> QED  BY <2>1, <2>2, <2>3, SlotsKept DEF OrderInv, IndicesBounded
<1> QED  BY <1>1, CaptureOrder, CallbackOrder, SenderOrder DEF Next

(* Contexts, segments and slots stay in the order of the indices, whatever  *)
(* the threads do (meta_cache.h:58-80, uplink_sender.cpp:76-132).          *)
THEOREM OrderInvariant == Spec => []OrderInv
<1> QED  BY InitOrder, NextOrder, Invariant, PTL DEF Spec

-----------------------------------------------------------------------------
(* The refinement                                                          *)

LEMMA InitRefines == Init => Stream!StreamInit
BY DEF Init, SenderInit, Stream!StreamInit

LEMMA HeldIndex ==
  ASSUME IInv, OrderInv, connected, NEW f \in Held
  PROVE  f.idx \in 0..(MaxFrames * (MaxSkip + 1))
<1> DEFINE k == MaxSkip + 1
<1>1. frames \in Nat /\ frame_idx \in Nat /\ k \in Nat /\ MaxFrames \in Nat /\ f.idx \in Nat
  BY PipelineTypes, BigmodeldConstants DEF Frames
<1>2. f.idx < frame_idx /\ frame_idx <= frames * k /\ frames <= MaxFrames
  BY DEF OrderInv, PipelineOrdered, SegmentsAhead, IndicesBounded
<1> HIDE DEF k
<1>3. frames * k <= MaxFrames * k /\ frames * k \in Nat /\ MaxFrames * k \in Nat
  BY <1>1, <1>2, Products
<1>4. f.idx \in 0..(MaxFrames * k)
  BY <1>1, <1>2, <1>3
<1> QED  BY <1>4 DEF k

(* The server sees nothing of a step that leaves the wire and the frame in  *)
(* flight alone.                                                           *)
LEMMA Unseen ==
  ASSUME UNCHANGED <<connected, conn_epoch, sent, wire>>,
         {f.idx : f \in inflight'} = {f.idx : f \in inflight}
  PROVE  UNCHANGED Stream!streamVars
BY DEF Stream!streamVars, DualIdr

LEMMA BlockedRefines ==
  ASSUME IInv, OrderInv, StepBlocked
  PROVE  [Stream!StreamNext]_(Stream!streamVars)
<1>1. /\ connected /\ ServeQueue /\ inflight' = Flying /\ sent' \in {sent, Flying # {}}
      /\ UNCHANGED <<connected, conn_epoch, wire>>
  BY DEF StepBlocked
<1>2. SlotOK(Flying)
  BY <1>1, ServeQueueInv DEF IInv
<1>3. Flying \subseteq inflight \cup queued
  BY <1>1, ServedOrder DEF IInv, OrderInv
<1>4. inflight # {} => Flying = inflight
  BY DEF Flying, Launched
<1>5. ASSUME ~(sent /\ inflight # {}), sent', NEW f \in Flying
      PROVE  Stream!StreamNext
  <2>1. f.idx \in 0..(MaxFrames * (MaxSkip + 1))
    BY <1>1, <1>3, <1>5, HeldIndex DEF Held
  <2>2. Flying = {f}
    BY <1>2, <1>5 DEF SlotOK
  <2>3. \A w \in wire : w.idx < f.idx
    BY <1>1, <1>3, <1>5 DEF OrderInv, SlotsInOrder, SlotsOrdered
  <2>4. Stream!Begin(f.idx)
    BY <1>1, <1>5, <2>2, <2>3 DEF Stream!Begin, Stream!Comes, DualIdr
  <2> QED  BY <2>1, <2>4 DEF Stream!StreamNext
<1>6. ASSUME sent, inflight # {}
      PROVE  UNCHANGED Stream!streamVars
  <2>1. inflight' = inflight /\ sent' = sent
    BY <1>1, <1>4, <1>6
  <2> QED  BY <1>1, <2>1, Unseen
<1>7. ASSUME ~(sent /\ inflight # {}), ~(sent' /\ Flying # {})
      PROVE  UNCHANGED Stream!streamVars
  BY <1>1, <1>7 DEF Stream!streamVars, DualIdr
<1> QED  BY <1>5, <1>6, <1>7

(* A frame that arrives whole, seen from the server.                       *)
LEMMA Arrives ==
  ASSUME NEW f, wire' = {f}, inflight' = {}, ~sent', UNCHANGED conn_epoch,
         f.epoch = conn_epoch, wire = {} => DualIdr(f),
         \A w \in wire : w.idx < f.idx, \A g \in inflight : g.idx = f.idx
  PROVE  Stream!GetFrame(f.idx, DualIdr(f))
<1> DEFINE Got(w) == {[idx |-> g.idx, epoch |-> g.epoch, dual |-> DualIdr(g)] : g \in w}
           Begun(b, i) == IF b THEN {g.idx : g \in i} ELSE {}
<1>1. Begun(sent, inflight) \subseteq {f.idx} /\ Begun(sent', inflight') = {}
  OBVIOUS
<1>2. Got(wire') = {[idx |-> f.idx, epoch |-> conn_epoch, dual |-> DualIdr(f)]}
  OBVIOUS
<1>3. \A g \in Got(wire) : g.idx < f.idx
  OBVIOUS
<1>4. Got(wire) = {} => DualIdr(f)
  OBVIOUS
<1> QED  BY <1>1, <1>2, <1>3, <1>4 DEF Stream!GetFrame, Stream!Comes

LEMMA SentRefines ==
  ASSUME IInv, OrderInv, StepSent
  PROVE  Stream!StreamNext
<1>1. /\ connected /\ ServeQueue /\ inflight' = {} /\ sent' = FALSE
      /\ UNCHANGED <<connected, conn_epoch>>
  BY DEF StepSent
<1>2. PICK f \in Flying : Complete(f) /\ wire' = {f}
  BY DEF StepSent
<1>3. SlotOK(Flying) /\ Flying \subseteq inflight \cup queued /\ inflight \subseteq Flying
  BY <1>1, ServeQueueInv, ServedOrder DEF IInv, OrderInv, Flying
<1>4. f.idx \in 0..(MaxFrames * (MaxSkip + 1))
  BY <1>1, <1>3, HeldIndex DEF Held
<1>5. f.epoch = conn_epoch
  BY <1>1, <1>3 DEF IInv, SenderInv, NoMixedConnections
<1>6. wire = {} => DualIdr(f)
  BY <1>2, StepSentInv DEF IInv
<1>7. \A w \in wire : w.idx < f.idx
  BY <1>1, <1>3 DEF OrderInv, SlotsInOrder, SlotsOrdered
<1>8. \A g \in inflight : g.idx = f.idx
  BY <1>3 DEF SlotOK
<1>9. DualIdr(f) \in BOOLEAN
  BY DEF DualIdr
<1>10. Stream!GetFrame(f.idx, DualIdr(f))
  BY <1>1, <1>2, <1>5, <1>6, <1>7, <1>8, Arrives
<1>11. Stream!Finish(f.idx, DualIdr(f))
  BY <1>1, <1>10 DEF Stream!Finish
<1> QED  BY <1>4, <1>9, <1>11 DEF Stream!StreamNext

(* A last attempt before the reconnection may still finish the frame.      *)
LEMMA LossRefines ==
  ASSUME IInv, OrderInv, StepError \/ StepStall \/ NotifyDisconnect
  PROVE  Stream!StreamNext
<1>1. connected /\ ~connected' /\ inflight' = {} /\ ~sent' /\ conn_epoch' = conn_epoch
  BY DEF StepError, StepStall, NotifyDisconnect, DropConnection
<1>2. CASE UNCHANGED wire
  BY <1>1, <1>2 DEF Stream!StreamNext, Stream!Disconnect, DualIdr
<1>3. ASSUME StepStall, NEW f \in inflight, wire' = {f}
      PROVE  Stream!StreamNext
  <2>1. f.idx \in 0..(MaxFrames * (MaxSkip + 1))
    BY <1>1, HeldIndex DEF Held
  <2>2. f.epoch = conn_epoch
    BY <1>1 DEF IInv, SenderInv, NoMixedConnections
  <2>3. wire = {} => DualIdr(f)
    BY <1>3, StepStallInv DEF IInv
  <2>4. \A w \in wire : w.idx < f.idx
    BY <1>1 DEF OrderInv, SlotsInOrder, SlotsOrdered
  <2>5. \A g \in inflight : g.idx = f.idx
    BY DEF IInv, SenderInv, SenderOK, SlotOK
  <2>6. DualIdr(f) \in BOOLEAN
    BY DEF DualIdr
  <2>7. Stream!GetFrame(f.idx, DualIdr(f))
    BY <1>1, <1>3, <2>2, <2>3, <2>4, <2>5, Arrives
  <2> QED  BY <1>1, <2>1, <2>6, <2>7 DEF Stream!StreamNext, Stream!Disconnect
<1> QED  BY <1>2, <1>3 DEF StepError, StepStall, NotifyDisconnect

LEMMA ConnectRefines ==
  ASSUME IInv, Connect
  PROVE  Stream!StreamNext
<1>1. inflight = {} /\ wire' = {} /\ ~connected /\ connected' /\ conn_epoch' = conn_epoch + 1
      /\ inflight' = inflight
  BY DEF Connect, IInv, SenderInv, NoMixedConnections
<1> QED  BY <1>1 DEF Stream!StreamNext, Stream!Connect

LEMMA SubmitRefines ==
  ASSUME IInv, NEW s \in Streams, SubmitSegment(s)
  PROVE  UNCHANGED Stream!streamVars
<1>1. PICK o \in out[s] : Submit(s, o.om, o.idr)
  BY DEF SubmitSegment
<1>2. o.om \in Contexts /\ o.idr \in BOOLEAN /\ UNCHANGED wire
  BY DEF IInv, EncodersOK, Outputs, SubmitSegment
<1>3. UNCHANGED conn_epoch
  BY <1>1, <1>2, SenderTells DEF IInv
<1>4. CASE UNCHANGED inflight /\ UNCHANGED <<connected, sent>>
  BY <1>2, <1>3, <1>4, Unseen
<1>5. ASSUME UNCHANGED <<connected, sent>>, NEW f \in inflight,
             inflight' = {WithSegment(f, s, o.om, o.idr)}
      PROVE  UNCHANGED Stream!streamVars
  <2>1. f \in Frames /\ inflight = {f}
    BY <1>5 DEF IInv, SenderInv, SenderOK, SlotOK
  <2>2. WithSegment(f, s, o.om, o.idr).idx = f.idx
    BY <2>1 DEF WithSegment, Frames
  <2> QED  BY <1>2, <1>3, <1>5, <2>1, <2>2, Unseen
<1>6. CASE UNCHANGED <<senderVars, evs>>
  BY <1>4, <1>6 DEF senderVars
<1> QED  BY <1>1, <1>2, <1>4, <1>5, <1>6, SubmitSlots DEF IInv

LEMMA StepRefines ==
  IInv /\ OrderInv /\ [Next]_vars => [Stream!StreamNext]_(Stream!streamVars)
<1> SUFFICES ASSUME IInv, OrderInv, [Next]_vars
             PROVE  [Stream!StreamNext]_(Stream!streamVars)
  OBVIOUS
<1>1. CASE UNCHANGED <<connected, conn_epoch, sent, wire, inflight>>
  BY <1>1, Unseen
<1>2. CASE Capture \/ UNCHANGED vars
  BY <1>1, <1>2 DEF Capture, PlaceFrame, DrainEvent, EncodePair, NoPair, senderVars, vars
<1>3. CASE Writer
  BY <1>3, BlockedRefines, SentRefines, LossRefines, ConnectRefines DEF Writer
<1>4. CASE Reply
  BY <1>4, LossRefines DEF Reply
<1>5. ASSUME NEW s \in Streams, Callback(s) \/ Swallow(s)
      PROVE  [Stream!StreamNext]_(Stream!streamVars)
  BY <1>1, <1>5, SubmitRefines
     DEF Callback, TakeContext, CloseGate, ReportGap, Swallow, senderVars
<1> QED  BY <1>2, <1>3, <1>4, <1>5 DEF Next

(* On every connection the server gets a stream of whole frames of this     *)
(* connection, in the order of their indices, one finished before the next  *)
(* is begun, from a pair of I frames on; for any number of frames, skipped  *)
(* slots and connections, any depth of the encoders, and outputs lost or    *)
(* too large (uplink_sender.cpp:76-132, 150-300, main.cc:967-1035).        *)
THEOREM StreamRefined == Spec => ServerGetsAStream
<1> QED  BY InitRefines, StepRefines, Invariant, OrderInvariant, PTL
         DEF Spec, ServerGetsAStream, Stream!StreamSpec
-----------------------------------------------------------------------------
(* The predictions: what the scheduler counts is what the encoders count,   *)
(* and a frame carries it from the pair that was encoded to the wire.       *)

(* A stream that is not asked for an I frame makes its next one where the   *)
(* scheduler expects it.                                                   *)
RequestsMet ==
  /\ need_req = pending_req
  /\ \A s \in Streams \ need_req : next_idr_seq[s] + since_idr[s] = seq_pos + Gop

(* The contexts of an encoder are those of the last frames, without a hole. *)
FramesNumbered ==
  \A s \in Streams :
    /\ \A i \in 1..Len(enc[s]) : enc[s][i].id <= frames
    /\ \A i \in 1..Len(meta[s].q) : meta[s].q[i].frame_id + Len(meta[s].q) = frames + i
    /\ meta[s].pushed_since_clear => meta[s].last_pushed_id = frames

EncodersAsPredicted ==
  \A s \in Streams :
    /\ \A i \in 1..Len(enc[s]) : \A c \in Waits(s) :
         c.frame_id = enc[s][i].id => (enc[s][i].idr <=> s \in c.pred)
    /\ \A o \in out[s] : o.idr <=> s \in o.om.pred

Ahead == UNION {Waits(s) \cup {o.om : o \in out[s]} : s \in Streams}

SamePair(c, d) == c.conn_epoch = d.conn_epoch /\ c.frame_idx = d.frame_idx

PairsAgree == \A c, d \in Ahead : SamePair(c, d) => c.pred = d.pred

(* The segments a frame has are what the prediction p says. *)
AsPredicted(f, p) ==
  /\ \A s \in f.has : s \in f.idr <=> s \in p
  /\ "road" \in f.has => f.pred = p

HeldAsPredicted ==
  connected => \A f \in Held :
    /\ f.idr \subseteq f.has
    /\ "road" \in f.has => AsPredicted(f, f.pred)
    /\ \A c \in Ahead :
         c.conn_epoch = conn_epoch /\ c.frame_idx = f.idx => AsPredicted(f, c.pred)

PredictInv ==
  /\ RequestsMet
  /\ FramesNumbered
  /\ EncodersAsPredicted
  /\ PairsAgree
  /\ HeldAsPredicted
  /\ PredictionTrue

LEMMA InitPredicted == Init => PredictInv
<1> SUFFICES ASSUME Init PROVE PredictInv
  OBVIOUS
<1>1. RequestsMet
  <2>1. \A s \in Streams : next_idr_seq[s] = 0 /\ since_idr[s] = Gop
    BY DEF Init, SchedulerInit
  <2> QED  BY <2>1, SchedulerConstants DEF Init, SchedulerInit, RequestsMet
<1>2. \A s \in Streams : Len(meta[s].q) = 0 /\ Len(enc[s]) = 0 /\ out[s] = {} /\ Waits(s) = {}
                         /\ ~meta[s].pushed_since_clear
  BY DEF Init, EmptyMeta, Waits
<1>3. FramesNumbered /\ EncodersAsPredicted
  BY <1>2 DEF FramesNumbered, EncodersAsPredicted
<1>4. PairsAgree
  BY <1>2 DEF PairsAgree, Ahead
<1>5. HeldAsPredicted /\ PredictionTrue
  BY DEF Init, SenderInit, HeldAsPredicted, PredictionTrue
<1> QED  BY <1>1, <1>3, <1>4, <1>5 DEF PredictInv

(* What the scheduler predicts of the next pair is what the encoders make   *)
(* (frame_scheduler.cpp:49-74).                                            *)
LEMMA PredictedIsEncoded ==
  ASSUME IInv, RequestsMet
  PROVE  PredictedIdr = EncodedIdr
<1>1. ASSUME NEW s \in Streams
      PROVE  s \in PredictedIdr <=> s \in EncodedIdr
  <2>1. /\ seq_pos \in Nat /\ next_idr_seq[s] \in Nat /\ since_idr[s] \in Nat /\ Gop \in Nat
        /\ need_req = pending_req
    BY SchedulerConstants DEF IInv, CaptureOK, EncodersOK, RequestsMet
  <2>2. s \notin need_req => (seq_pos = next_idr_seq[s] <=> since_idr[s] = Gop)
    BY <2>1 DEF RequestsMet
  <2> QED  BY <2>1, <2>2 DEF PredictedIdr, EncodedIdr, Requested
<1> QED  BY <1>1 DEF PredictedIdr, EncodedIdr

LEMMA SubmitMeetsRequests ==
  ASSUME IInv, RequestsMet, EncodePair
  PROVE  RequestsMet'
<1>1. PredictedIdr = EncodedIdr
  BY PredictedIsEncoded
<1>2. /\ seq_pos' = seq_pos + 1 /\ need_req' = {}
      /\ pending_req' = (pending_req \cup PhaseShift) \ PredictedIdr
      /\ next_idr_seq' = [s \in Streams |-> IF s \in PredictedIdr THEN seq_pos + Gop
                                            ELSE next_idr_seq[s]]
      /\ since_idr' = [s \in Streams |-> IF s \in EncodedIdr THEN 1 ELSE since_idr[s] + 1]
  BY DEF EncodePair, OnFrameSubmit
<1>3. pending_req' = {}
  BY <1>2 DEF PredictedIdr, PhaseShift, IInv, CaptureOK, Streams
<1>4. ASSUME NEW s \in Streams
      PROVE  next_idr_seq'[s] + since_idr'[s] = seq_pos' + Gop
  <2>1. seq_pos \in Nat /\ next_idr_seq[s] \in Nat /\ since_idr[s] \in Nat /\ Gop \in Nat
    BY SchedulerConstants DEF IInv, CaptureOK, EncodersOK
  <2>2. s \notin EncodedIdr => next_idr_seq[s] + since_idr[s] = seq_pos + Gop
    BY DEF RequestsMet, EncodedIdr, Requested
  <2> QED  BY <1>1, <1>2, <2>1, <2>2
<1> QED  BY <1>2, <1>3, <1>4 DEF RequestsMet

LEMMA DrainMeetsRequests ==
  ASSUME RequestsMet, UNCHANGED since_idr,
         StartNewSequence \/ UNCHANGED schedVars
  PROVE  RequestsMet'
BY DEF RequestsMet, StartNewSequence, schedVars

(* A thread that touches neither encoder nor context, and holds no new      *)
(* frame.                                                                  *)
LEMMA PredictionKept ==
  ASSUME PredictInv, UNCHANGED <<enc, meta, frames>>,
         \A t \in Streams : \A o2 \in out'[t] : \E o \in out[t] : o2.om = o.om /\ o2.idr = o.idr,
         connected' => Held' = {} \/ (Held' \subseteq Held /\ connected /\ UNCHANGED conn_epoch)
  PROVE  FramesNumbered' /\ EncodersAsPredicted' /\ PairsAgree' /\ HeldAsPredicted'
<1> USE DEF PredictInv
<1>1. \A t \in Streams : Waits(t)' = Waits(t)
  BY DEF Waits
<1>2. FramesNumbered' /\ EncodersAsPredicted'
  BY <1>1 DEF FramesNumbered, EncodersAsPredicted
<1>3. Ahead' \subseteq Ahead
  BY <1>1 DEF Ahead
<1>4. PairsAgree'
  BY <1>3 DEF PairsAgree, SamePair
<1>5. HeldAsPredicted'
  BY <1>3 DEF HeldAsPredicted, AsPredicted
<1> QED  BY <1>2, <1>4, <1>5

(* The contexts that may still come are of the past. *)
LEMMA AheadBehind ==
  ASSUME IInv, OrderInv
  PROVE  \A c \in Ahead : /\ c \in Contexts
                          /\ c.conn_epoch = cur_epoch => c.frame_idx < frame_idx
<1> SUFFICES ASSUME NEW s \in Streams, NEW c \in Waits(s) \cup {o.om : o \in out[s]}
             PROVE  /\ c \in Contexts
                    /\ c.conn_epoch = cur_epoch => c.frame_idx < frame_idx
  BY DEF Ahead
<1> QED  BY PipelineTypes DEF OrderInv, PipelineOrdered, ContextsOrdered

(* The numbers of the contexts that wait are not in front of the camera's.  *)
LEMMA WaitsNumbered ==
  ASSUME IInv, FramesNumbered, NEW s \in Streams, NEW c \in Waits(s)
  PROVE  c.frame_id <= frames
<1>1. PICK i \in 1..Len(meta[s].q) : c = meta[s].q[i]
  BY DEF Waits
<1>2. c.frame_id \in Nat /\ frames \in Nat /\ Len(meta[s].q) \in Nat
  BY PipelineTypes DEF Contexts
<1>3. c.frame_id + Len(meta[s].q) = frames + i
  BY <1>1 DEF FramesNumbered
<1> QED  BY <1>1, <1>2, <1>3

(* The context and the frame of a new pair. *)
LEMMA EncodePredicted ==
  ASSUME IInv, OrderInv, PredictInv, EncodePair
  PROVE  PredictInv'
<1> USE DEF PredictInv
<1>1. UNCHANGED <<out, connected, conn_epoch, cur_epoch, Held, wire>> /\ frames' = frames + 1
  BY DEF EncodePair, senderVars, Held
<1>2. PICK skip \in 0..MaxSkip :
        meta' = [s \in Streams |-> MetaPush(meta[s], Context(frame_idx + skip))]
  BY DEF EncodePair
<1> DEFINE om == Context(frame_idx + skip)
           fr(s) == [id |-> frames + 1, idr |-> s \in EncodedIdr]
<1>3. skip \in Nat /\ frame_idx \in Nat /\ frames \in Nat /\ cur_epoch \in Nat
  BY PipelineTypes, BigmodeldConstants
<1>4. /\ om.frame_idx = frame_idx + skip /\ om.conn_epoch = cur_epoch
      /\ om.frame_id = frames + 1 /\ om.pred = EncodedIdr /\ om \in Contexts
  BY <1>3, PredictedIsEncoded DEF Context, Contexts, PredictedIdr
<1>5. ASSUME NEW s \in Streams
      PROVE  fr(s).id = frames + 1 /\ fr(s) \in Encoded /\ (fr(s).idr <=> s \in om.pred)
  <2>1. fr(s) \in Encoded
    BY <1>3 DEF Encoded
  <2>2. fr(s).id = frames + 1 /\ fr(s).idr = (s \in EncodedIdr)
    OBVIOUS
  <2> QED  BY <1>4, <2>1, <2>2
<1>6. \A s \in Streams : /\ enc'[s] = Append(enc[s], fr(s))
                         /\ meta'[s].q = Append(meta[s].q, om)
                         /\ meta'[s].last_pushed_id = frames + 1
  BY <1>2, <1>4 DEF EncodePair, MetaPush
<1> HIDE DEF om, fr
<1>7. ASSUME NEW s \in Streams
      PROVE  /\ Len(meta'[s].q) = Len(meta[s].q) + 1 /\ Len(meta[s].q) \in Nat
             /\ \A i \in 1..Len(meta[s].q) : meta'[s].q[i] = meta[s].q[i]
             /\ meta'[s].q[Len(meta[s].q) + 1] = om
             /\ Len(enc'[s]) = Len(enc[s]) + 1 /\ Len(enc[s]) \in Nat
             /\ \A i \in 1..Len(enc[s]) : enc'[s][i] = enc[s][i] /\ enc[s][i] \in Encoded
             /\ enc'[s][Len(enc[s]) + 1] = fr(s)
  <2>1. meta[s].q \in Seq(Contexts) /\ enc[s] \in Seq(Encoded)
    BY PipelineTypes DEF IInv, EncodersOK, Encoded
  <2>2. /\ Len(meta'[s].q) = Len(meta[s].q) + 1 /\ Len(meta[s].q) \in Nat
        /\ \A i \in 1..Len(meta[s].q) : meta'[s].q[i] = meta[s].q[i]
        /\ meta'[s].q[Len(meta[s].q) + 1] = om
    BY <1>4, <1>6, <2>1, AppendProperties, LenProperties
  <2>3. /\ Len(enc'[s]) = Len(enc[s]) + 1 /\ Len(enc[s]) \in Nat
        /\ \A i \in 1..Len(enc[s]) : enc'[s][i] = enc[s][i]
        /\ enc'[s][Len(enc[s]) + 1] = fr(s)
    <3>1. fr(s) \in Encoded /\ enc'[s] = Append(enc[s], fr(s))
      BY <1>5, <1>6
    <3> QED  BY <2>1, <3>1, AppendProperties, LenProperties
  <2>4. \A i \in 1..Len(enc[s]) : enc[s][i] \in Encoded
    BY <2>1, ElementOfSeq
  <2> QED  BY <2>2, <2>3, <2>4
<1>8. ASSUME NEW s \in Streams
      PROVE  Waits(s)' \subseteq Waits(s) \cup {om}
  <2> SUFFICES ASSUME NEW i \in 1..Len(meta'[s].q)
               PROVE  meta'[s].q[i] \in Waits(s) \cup {om}
    BY DEF Waits
  <2>1. i \in 1..Len(meta[s].q) \/ i = Len(meta[s].q) + 1
    BY <1>7
  <2> QED  BY <1>7, <2>1 DEF Waits
<1>9. FramesNumbered'
  <2> SUFFICES ASSUME NEW s \in Streams
               PROVE  /\ \A i \in 1..Len(enc'[s]) : enc'[s][i].id <= frames'
                      /\ \A i \in 1..Len(meta'[s].q) :
                           meta'[s].q[i].frame_id + Len(meta'[s].q) = frames' + i
                      /\ meta'[s].last_pushed_id = frames'
    BY DEF FramesNumbered
  <2>1. ASSUME NEW i \in 1..Len(enc'[s])
        PROVE  enc'[s][i].id <= frames'
    <3>1. CASE i \in 1..Len(enc[s])
      <4>1. enc[s][i].id \in Nat /\ enc[s][i].id <= frames
        BY <1>7, <3>1 DEF FramesNumbered, Encoded
      <4>2. enc'[s][i] = enc[s][i]
        BY <1>7, <3>1
      <4> DEFINE a == enc[s][i].id
      <4> HIDE DEF a
      <4>3. a \in Nat /\ a <= frames
        BY <4>1 DEF a
      <4>4. a <= frames + 1
        BY <1>3, <4>3
      <4> QED  BY <1>1, <4>2, <4>4 DEF a
    <3>2. CASE i = Len(enc[s]) + 1
      BY <1>1, <1>3, <1>5, <1>7, <3>2
    <3> QED  BY <1>7, <3>1, <3>2
  <2>2. ASSUME NEW i \in 1..Len(meta'[s].q)
        PROVE  meta'[s].q[i].frame_id + Len(meta'[s].q) = frames' + i
    <3>1. CASE i \in 1..Len(meta[s].q)
      <4>1. meta[s].q[i].frame_id \in Nat
        BY <3>1, PipelineTypes DEF Contexts
      <4>2. meta[s].q[i].frame_id + Len(meta[s].q) = frames + i
        BY <3>1 DEF FramesNumbered
      <4>3. meta'[s].q[i] = meta[s].q[i] /\ Len(meta'[s].q) = Len(meta[s].q) + 1
            /\ Len(meta[s].q) \in Nat /\ i \in Nat
        BY <1>7, <3>1, SMTT(30)
      <4> DEFINE a == meta[s].q[i].frame_id
                 l == Len(meta[s].q)
      <4>4. a \in Nat /\ l \in Nat /\ i \in Nat /\ a + l = frames + i
        BY <4>1, <4>2, <4>3
      <4>5. a = meta'[s].q[i].frame_id /\ Len(meta'[s].q) = l + 1
        BY <4>3
      <4> HIDE DEF a, l
      <4>6. a + (l + 1) = (frames + 1) + i
        BY <1>3, <4>4
      <4> QED  BY <1>1, <4>5, <4>6
    <3>2. CASE i = Len(meta[s].q) + 1
      <4>1. meta'[s].q[i].frame_id = frames + 1 /\ Len(meta'[s].q) = i
        BY <1>4, <1>7, <3>2
      <4> QED  BY <1>1, <1>3, <1>7, <3>2, <4>1
    <3> QED  BY <1>7, <3>1, <3>2
  <2> QED  BY <1>1, <1>6, <2>1, <2>2
<1>10. EncodersAsPredicted'
  <2> SUFFICES ASSUME NEW s \in Streams, NEW i \in 1..Len(enc'[s]), NEW c \in Waits(s)',
                      c.frame_id = enc'[s][i].id
               PROVE  enc'[s][i].idr <=> s \in c.pred
    BY <1>1 DEF EncodersAsPredicted
  <2>1. CASE i \in 1..Len(enc[s]) /\ c \in Waits(s)
    BY <1>7, <2>1, SMTT(30) DEF EncodersAsPredicted
  <2>2. CASE i \in 1..Len(enc[s]) /\ c = om
    <3>1. enc[s][i].id <= frames /\ enc[s][i].id \in Nat
      BY <1>7, <2>2 DEF FramesNumbered, Encoded
    <3>2. enc'[s][i] = enc[s][i] /\ c.frame_id = frames + 1
      BY <1>4, <1>7, <2>2
    <3>3. enc[s][i].id = frames + 1
      BY <3>2
    <3> QED  BY <1>3, <3>1, <3>3
  <2>3. CASE i = Len(enc[s]) + 1 /\ c \in Waits(s)
    <3>1. c.frame_id <= frames /\ c.frame_id \in Nat
      BY <2>3, WaitsNumbered, PipelineTypes DEF Contexts
    <3>2. c.frame_id = frames + 1
      BY <1>5, <1>7, <2>3
    <3> QED  BY <1>3, <3>1, <3>2
  <2>4. CASE i = Len(enc[s]) + 1 /\ c = om
    BY <1>5, <1>7, <2>4
  <2> QED  BY <1>7, <1>8, <2>1, <2>2, <2>3, <2>4
<1>11. Ahead' \subseteq Ahead \cup {om}
  BY <1>1, <1>8 DEF Ahead
<1>12. \A c \in Ahead : ~SamePair(c, om) /\ ~SamePair(om, c)
  <2> SUFFICES ASSUME NEW c \in Ahead, c.conn_epoch = om.conn_epoch
               PROVE  c.frame_idx # om.frame_idx
    BY DEF SamePair
  <2>1. c.frame_idx \in Nat /\ c.frame_idx < frame_idx
    BY <1>4, AheadBehind DEF Contexts
  <2> QED  BY <1>3, <1>4, <2>1
<1>13. PairsAgree'
  BY <1>11, <1>12 DEF PairsAgree, SamePair
<1>14. HeldAsPredicted'
  <2> SUFFICES ASSUME connected, NEW f \in Held, NEW c \in Ahead \cup {om}
               PROVE  /\ f.idr \subseteq f.has
                      /\ "road" \in f.has => AsPredicted(f, f.pred)
                      /\ c.conn_epoch = conn_epoch /\ c.frame_idx = f.idx =>
                           AsPredicted(f, c.pred)
    BY <1>1, <1>11 DEF HeldAsPredicted, AsPredicted
  <2>1. f.idx < frame_idx /\ f.idx \in Nat
    BY PipelineTypes DEF OrderInv, PipelineOrdered, SegmentsAhead, Frames
  <2>2. f.idx # om.frame_idx
    BY <1>3, <1>4, <2>1
  <2> QED  BY <2>2 DEF HeldAsPredicted
<1> QED  BY <1>1, <1>9, <1>10, <1>13, <1>14, SubmitMeetsRequests DEF PredictionTrue
(* A new connection empties the contexts; a drop only asks for I frames. *)
LEMMA DrainPredicted ==
  ASSUME IInv, PredictInv, DrainEvent
  PROVE  PredictInv'
<1> USE DEF PredictInv
<1>1. UNCHANGED <<out, enc, since_idr, frames, connected, conn_epoch, Held, wire>>
  BY DEF DrainEvent, senderVars, encoderVars, Held
<1>2. CASE DrainDrop(Head(batch))
  <2>1. UNCHANGED meta /\ (StartNewSequence \/ UNCHANGED schedVars)
    BY <1>2 DEF DrainDrop, OnFrameDropped
  <2> QED  BY <1>1, <2>1, DrainMeetsRequests, PredictionKept DEF PredictionTrue
<1>3. CASE DrainNewConnection(Head(batch))
  <2>1. StartNewSequence
    BY <1>3 DEF DrainNewConnection, OnConnect
  <2>2. \A s \in Streams : /\ Len(meta'[s].q) = 0 /\ Waits(s)' = {}
                           /\ ~meta'[s].pushed_since_clear
    BY <1>3 DEF DrainNewConnection, MetaClear, EmptyMeta, Waits
  <2>3. FramesNumbered' /\ EncodersAsPredicted'
    BY <1>1, <2>2 DEF FramesNumbered, EncodersAsPredicted
  <2>4. Ahead' \subseteq Ahead
    BY <1>1, <2>2 DEF Ahead
  <2>5. PairsAgree'
    BY <2>4 DEF PairsAgree, SamePair
  <2>6. HeldAsPredicted'
    BY <1>1, <2>4 DEF HeldAsPredicted, AsPredicted
  <2> QED  BY <1>1, <2>1, <2>3, <2>5, <2>6, DrainMeetsRequests DEF PredictionTrue
<1> QED  BY <1>2, <1>3 DEF DrainEvent

(* The outputs that are left to an encoder. *)
LEMMA TailOf ==
  ASSUME IInv, NEW s \in Streams, enc[s] # <<>>
  PROVE  /\ 1 \in 1..Len(enc[s]) /\ Head(enc[s]) = enc[s][1] /\ Head(enc[s]) \in Encoded
         /\ \A i \in 1..Len(Tail(enc[s])) :
              i + 1 \in 1..Len(enc[s]) /\ Tail(enc[s])[i] = enc[s][i + 1]
<1>1. enc[s] \in Seq(Encoded)
  BY DEF IInv, EncodersOK, Encoded
<1> QED  BY <1>1, HeadTailProperties, LenProperties

(* What a take leaves in the queue is its end. *)
LEMMA TakeLeaves ==
  ASSUME NEW c \in Caches, NEW id \in Nat
  PROVE  /\ AfterTake(c, id).pushed_since_clear = c.pushed_since_clear
         /\ AfterTake(c, id).last_pushed_id = c.last_pushed_id
         /\ \E h \in 0..Len(c.q) :
              /\ Len(AfterTake(c, id).q) = Len(c.q) - h
              /\ \A i \in 1..Len(AfterTake(c, id).q) :
                   h + i \in 1..Len(c.q) /\ AfterTake(c, id).q[i] = c.q[h + i]
<1>1. c.q \in Seq(Contexts) /\ Len(c.q) \in Nat
  BY LenProperties DEF Caches
<1>2. CASE TakeResult(c, id) # "kHit"
  <2>1. AfterTake(c, id) = c
    BY <1>2 DEF AfterTake
  <2> QED  BY <1>1, <2>1
<1>3. CASE TakeResult(c, id) = "kHit"
  <2> DEFINE h == Hit(c, id)
  <2>1. h \in 1..Len(c.q)
    BY <1>3, HitPosition
  <2>2. AfterTake(c, id) = [c EXCEPT !.q = SubSeq(c.q, h + 1, Len(c.q))]
    BY <1>3 DEF AfterTake
  <2>3. /\ AfterTake(c, id).q = SubSeq(c.q, h + 1, Len(c.q))
        /\ AfterTake(c, id).pushed_since_clear = c.pushed_since_clear
        /\ AfterTake(c, id).last_pushed_id = c.last_pushed_id
    BY <2>2 DEF Caches
  <2>4. \A i \in 1..Len(AfterTake(c, id).q) :
          h + i \in 1..Len(c.q) /\ AfterTake(c, id).q[i] = c.q[h + i]
    BY <1>3, BehindHit
  <2> HIDE DEF h
  <2>5. Len(SubSeq(c.q, h + 1, Len(c.q))) = Len(c.q) - h
    <3>1. \A i \in h + 1..Len(c.q) : c.q[i] \in Contexts
      BY <1>1, <2>1, ElementOfSeq
    <3> QED  BY <1>1, <2>1, <3>1, SubSeqProperties
  <2>6. h \in 0..Len(c.q)
    BY <1>1, <2>1
  <2> QED  BY <2>3, <2>4, <2>5, <2>6
<1> QED  BY <1>2, <1>3

(* A hit is of the frame that was asked for. *)
LEMMA HitFrame ==
  ASSUME NEW c \in Caches, NEW id \in Nat, TakeResult(c, id) = "kHit"
  PROVE  Taken(c, id).frame_id = id
<1>1. Hit(c, id) \in Positions(c, id)
  BY HitPosition
<1> QED  BY <1>1 DEF Taken, Positions

LEMMA SwallowPredicted ==
  ASSUME IInv, PredictInv, NEW s \in Streams, Swallow(s)
  PROVE  PredictInv'
<1> USE DEF PredictInv
<1>1. /\ UNCHANGED <<out, meta, schedVars, since_idr, frames, connected, conn_epoch, Held, wire>>
      /\ enc' = [enc EXCEPT ![s] = Tail(@)] /\ enc[s] # <<>>
  BY DEF Swallow, senderVars, captureVars, Held
<1>2. \A t \in Streams : Waits(t)' = Waits(t)
  BY <1>1 DEF Waits
<1>3. ASSUME NEW t \in Streams, NEW i \in 1..Len(enc'[t])
      PROVE  \E j \in 1..Len(enc[t]) : enc'[t][i] = enc[t][j]
  BY <1>1, <1>3, TailOf, ZenonT(40) DEF IInv, EncodersOK
<1>4. FramesNumbered'
  BY <1>1, <1>3 DEF FramesNumbered
<1>5. EncodersAsPredicted'
  BY <1>1, <1>2, <1>3 DEF EncodersAsPredicted
<1>6. Ahead' = Ahead
  BY <1>1, <1>2 DEF Ahead
<1>7. PairsAgree'
  BY <1>6 DEF PairsAgree, SamePair
<1>8. HeldAsPredicted'
  BY <1>1, <1>6 DEF HeldAsPredicted, AsPredicted
<1>9. RequestsMet' /\ PredictionTrue'
  BY <1>1 DEF RequestsMet, schedVars, PredictionTrue
<1> QED  BY <1>4, <1>5, <1>7, <1>8, <1>9

(* The output and its context are of the same frame. *)
LEMMA TakePredicted ==
  ASSUME IInv, PredictInv, NEW s \in Streams, TakeContext(s)
  PROVE  PredictInv'
<1> USE DEF PredictInv
<1> DEFINE e == Head(enc[s])
<1>1. /\ UNCHANGED <<schedVars, since_idr, frames, connected, conn_epoch, Held, wire>>
      /\ enc' = [enc EXCEPT ![s] = Tail(@)] /\ enc[s] # <<>>
      /\ meta' = [meta EXCEPT ![s] = AfterTake(@, e.id)]
  BY DEF TakeContext, senderVars, captureVars, Held
<1>2. PICK large \in BOOLEAN : out' = [out EXCEPT ![s] = Output(s, e, large)]
  BY BigmodeldConstants DEF TakeContext
<1>3. e \in Encoded /\ e.id \in Nat /\ 1 \in 1..Len(enc[s]) /\ e = enc[s][1]
  BY <1>1, TailOf DEF Encoded
<1>4. meta[s] \in Caches /\ Len(meta[s].q) \in Nat
  BY PipelineTypes
<1> HIDE DEF e
<1>5. ASSUME NEW t \in Streams, NEW i \in 1..Len(enc'[t])
      PROVE  \E j \in 1..Len(enc[t]) : enc'[t][i] = enc[t][j]
  BY <1>1, <1>5, TailOf DEF IInv, EncodersOK
<1>6. meta'[s] = AfterTake(meta[s], e.id) /\ \A t \in Streams \ {s} : meta'[t] = meta[t]
  BY <1>1 DEF IInv, EncodersOK
<1>7. PICK h \in 0..Len(meta[s].q) :
        /\ Len(meta'[s].q) = Len(meta[s].q) - h
        /\ \A i \in 1..Len(meta'[s].q) :
             h + i \in 1..Len(meta[s].q) /\ meta'[s].q[i] = meta[s].q[h + i]
  <2> DEFINE c == meta[s]
             d == AfterTake(c, e.id)
  <2>1. c \in Caches /\ d = meta'[s] /\ c = meta[s]
    BY <1>4, <1>6
  <2>2. \E h \in 0..Len(c.q) :
          /\ Len(d.q) = Len(c.q) - h
          /\ \A i \in 1..Len(d.q) : h + i \in 1..Len(c.q) /\ d.q[i] = c.q[h + i]
    BY <1>3, <2>1, TakeLeaves
  <2> HIDE DEF c, d
  <2> QED  BY <2>1, <2>2
<1>8. \A t \in Streams : Waits(t)' \subseteq Waits(t)
  <2>1. Waits(s)' \subseteq Waits(s)
    <3>1. \A i \in 1..Len(meta'[s].q) : meta'[s].q[i] \in Waits(s)
      BY <1>7 DEF Waits
    <3> QED  BY <3>1 DEF Waits
  <2>2. \A t \in Streams \ {s} : Waits(t)' = Waits(t)
    BY <1>6 DEF Waits
  <2> QED  BY <2>1, <2>2
<1>9. FramesNumbered'
  <2>2. ASSUME NEW t \in Streams, NEW i \in 1..Len(enc'[t])
        PROVE  enc'[t][i].id <= frames'
    BY <1>1, <1>5, <2>2 DEF FramesNumbered
  <2>3. ASSUME NEW i \in 1..Len(meta'[s].q)
        PROVE  meta'[s].q[i].frame_id + Len(meta'[s].q) = frames' + i
    <3>1. h + i \in 1..Len(meta[s].q) /\ meta'[s].q[i] = meta[s].q[h + i]
      BY <1>7
    <3>2. meta[s].q[h + i].frame_id \in Nat /\ frames \in Nat
      BY <3>1, PipelineTypes DEF Contexts
    <3>3. meta[s].q[h + i].frame_id + Len(meta[s].q) = frames + (h + i)
      BY <3>1 DEF FramesNumbered
    <3>4. h \in Nat /\ i \in Nat /\ Len(meta'[s].q) = Len(meta[s].q) - h
      BY <1>4, <1>7
    <3> DEFINE a == meta[s].q[h + i].frame_id
               l == Len(meta[s].q)
               k == Len(meta'[s].q)
    <3>5. a \in Nat /\ l \in Nat /\ frames \in Nat /\ a + l = frames + (h + i) /\ k = l - h
      BY <1>4, <3>2, <3>3, <3>4
    <3>6. a = meta'[s].q[i].frame_id
      BY <3>1
    <3> HIDE DEF a, l
    <3>7. a + k = frames + i
      <4> HIDE DEF k
      <4> QED  BY <3>4, <3>5
    <3> QED  BY <1>1, <3>6, <3>7
  <2>4. meta'[s].pushed_since_clear => meta'[s].last_pushed_id = frames'
    BY <1>1, <1>3, <1>4, <1>6, TakeLeaves DEF FramesNumbered
  <2> QED  BY <1>1, <1>6, <2>2, <2>3, <2>4 DEF FramesNumbered
<1>10. \A o \in out'[s] : o.om \in Waits(s) /\ (o.idr <=> s \in o.om.pred)
  <2>1. CASE TakeResult(meta[s], e.id) # "kHit"
    BY <1>2, <2>1 DEF Output, IInv, EncodersOK
  <2>2. CASE TakeResult(meta[s], e.id) = "kHit"
    <3> DEFINE k == Hit(meta[s], e.id)
    <3>1. k \in 1..Len(meta[s].q) /\ Taken(meta[s], e.id) = meta[s].q[k]
      BY <1>3, <1>4, <2>2, BehindHit
    <3>2. meta[s].q[k].frame_id = e.id
      BY <1>3, <1>4, <2>2, HitFrame DEF Taken
    <3>3. \A o \in out'[s] : o.om = meta[s].q[k] /\ o.idr = e.idr
      BY <1>2, <2>2, <3>1 DEF Output, IInv, EncodersOK
    <3> HIDE DEF k
    <3>4. meta[s].q[k] \in Waits(s)
      BY <3>1 DEF Waits
    <3>5. e.idr <=> s \in meta[s].q[k].pred
      BY <1>3, <3>2, <3>4 DEF EncodersAsPredicted
    <3> QED  BY <3>3, <3>4, <3>5
  <2> QED  BY <2>1, <2>2
<1>11. \A t \in Streams \ {s} : out'[t] = out[t]
  BY <1>2 DEF IInv, EncodersOK
<1>12. EncodersAsPredicted'
  <2>1. ASSUME NEW t \in Streams, NEW i \in 1..Len(enc'[t]), NEW c \in Waits(t)',
               c.frame_id = enc'[t][i].id
        PROVE  enc'[t][i].idr <=> t \in c.pred
    BY <1>5, <1>8, <2>1 DEF EncodersAsPredicted
  <2>2. \A t \in Streams : \A o \in out'[t] : o.idr <=> t \in o.om.pred
    BY <1>10, <1>11 DEF EncodersAsPredicted
  <2> QED  BY <2>1, <2>2 DEF EncodersAsPredicted
<1>13. Ahead' \subseteq Ahead
  BY <1>8, <1>10, <1>11 DEF Ahead
<1>14. PairsAgree'
  BY <1>13 DEF PairsAgree, SamePair
<1>15. HeldAsPredicted'
  BY <1>1, <1>13 DEF HeldAsPredicted, AsPredicted
<1>16. RequestsMet' /\ PredictionTrue'
  BY <1>1 DEF RequestsMet, schedVars, PredictionTrue
<1> QED  BY <1>9, <1>12, <1>14, <1>15, <1>16
(* A segment brings the I frame that was predicted, and its frame stays as  *)
(* predicted.                                                              *)
LEMMA SegmentAsPredicted ==
  ASSUME NEW f \in Frames, NEW s \in Streams, NEW om \in Contexts, NEW idr \in BOOLEAN,
         idr <=> s \in om.pred, f.idr \subseteq f.has, AsPredicted(f, om.pred)
  PROVE  LET g == WithSegment(f, s, om, idr)
         IN /\ g.idx = f.idx /\ g.idr \subseteq g.has /\ AsPredicted(g, om.pred)
            /\ "road" \in g.has => AsPredicted(g, g.pred)
<1> DEFINE g == WithSegment(f, s, om, idr)
<1>1. /\ g.idx = f.idx /\ g.has = f.has \cup {s}
      /\ g.idr = IF idr THEN f.idr \cup {s} ELSE f.idr
      /\ g.pred = IF s = "road" THEN om.pred ELSE f.pred
  BY DEF WithSegment, Frames
<1> HIDE DEF g
<1>2. g.idr \subseteq g.has
  BY <1>1
<1>3. \A t \in g.has : t \in g.idr <=> t \in om.pred
  <2> SUFFICES ASSUME NEW t \in g.has
               PROVE  t \in g.idr <=> t \in om.pred
    OBVIOUS
  <2>1. CASE t \in f.has
    <3>1. t \in f.idr <=> t \in om.pred
      BY <2>1 DEF AsPredicted
    <3> QED  BY <1>1, <3>1
  <2>2. CASE t \notin f.has
    <3>1. t = s /\ t \notin f.idr
      BY <1>1, <2>2
    <3> QED  BY <1>1, <3>1
  <2> QED  BY <2>1, <2>2
<1>4. "road" \in g.has => g.pred = om.pred
  BY <1>1 DEF AsPredicted
<1> QED  BY <1>1, <1>2, <1>3, <1>4 DEF AsPredicted, g

LEMMA SubmitPredicted ==
  ASSUME IInv, OrderInv, PredictInv, NEW s \in Streams, SubmitSegment(s)
  PROVE  PredictInv'
<1> USE DEF PredictInv
<1>1. PICK o \in out[s] : Submit(s, o.om, o.idr) /\ out' = [out EXCEPT ![s] = {}]
  BY DEF SubmitSegment
<1> DEFINE om == o.om
           New(f) == WithSegment(f, s, om, o.idr)
<1>2. om \in Contexts /\ o.idr \in BOOLEAN /\ (o.idr <=> s \in om.pred)
  BY DEF IInv, EncodersOK, Outputs, EncodersAsPredicted
<1>3. /\ UNCHANGED <<wire, meta, enc, frames, schedVars, since_idr>> /\ conn_epoch' = conn_epoch
  BY <1>1, <1>2, SenderTells DEF SubmitSegment, captureVars, encoderVars, IInv
<1>4. /\ \A t \in Streams : out'[t] \subseteq out[t]
      /\ \A t \in Streams : \A o2 \in out'[t] : \E p \in out[t] : o2.om = p.om /\ o2.idr = p.idr
  BY <1>1 DEF IInv, EncodersOK
<1>5. RequestsMet' /\ PredictionTrue'
  BY <1>3 DEF RequestsMet, schedVars, PredictionTrue
<1>6. CASE UNCHANGED <<senderVars, evs>>
  <2>1. UNCHANGED <<connected, Held>>
    BY <1>3, <1>6 DEF senderVars, Held
  <2> QED  BY <1>3, <1>4, <1>5, <2>1, PredictionKept
<1>7. CASE ~Stale(om) /\ UNCHANGED <<connected, sent>>
           /\ \/ \E f \in inflight : /\ f.idx = om.frame_idx
                                     /\ inflight' = {New(f)}
                                     /\ queued' \subseteq queued
              \/ \E f \in queued : /\ f.idx = om.frame_idx
                                   /\ inflight' = inflight
                                   /\ queued' \subseteq {New(f)}
              \/ /\ inflight' = inflight
                 /\ \A f \in inflight : f.idx < om.frame_idx
                 /\ queued' = {New(NewFrame(om))}
  <2>1. connected /\ connected' /\ om.conn_epoch = conn_epoch
    BY <1>7 DEF Stale
  <2>2. om \in Ahead
    BY DEF Ahead
  <2> DEFINE Good(g) == /\ g.idx = om.frame_idx /\ g.idr \subseteq g.has
                        /\ AsPredicted(g, om.pred)
                        /\ "road" \in g.has => AsPredicted(g, g.pred)
  <2>3. ASSUME NEW f \in inflight \cup queued, f.idx = om.frame_idx
        PROVE  Good(New(f))
    <3>1. f \in Frames /\ f \in Held
      BY DEF IInv, SenderInv, SenderOK, SlotOK, Held
    <3>2. f.idr \subseteq f.has /\ AsPredicted(f, om.pred)
      BY <2>1, <2>2, <2>3, <3>1 DEF HeldAsPredicted
    <3> QED  BY <1>2, <2>3, <3>1, <3>2, SegmentAsPredicted
  <2>4. Good(New(NewFrame(om)))
    <3>1. NewFrame(om) \in Frames
      BY <1>2, NewFrameType
    <3>2. /\ NewFrame(om).idx = om.frame_idx
          /\ NewFrame(om).idr \subseteq NewFrame(om).has /\ AsPredicted(NewFrame(om), om.pred)
      BY DEF NewFrame, AsPredicted
    <3> QED  BY <1>2, <3>1, <3>2, SegmentAsPredicted
  <2> HIDE DEF Good
  <2>5. \A f \in Held' : f \in Held \/ Good(f)
    <3> HIDE DEF New, om
    <3>1. ASSUME NEW f \in inflight, f.idx = om.frame_idx, inflight' = {New(f)},
                 queued' \subseteq queued
          PROVE  \A g \in Held' : g \in Held \/ Good(g)
      BY <1>3, <2>3, <3>1 DEF Held
    <3>2. ASSUME NEW f \in queued, f.idx = om.frame_idx, inflight' = inflight,
                 queued' \subseteq {New(f)}
          PROVE  \A g \in Held' : g \in Held \/ Good(g)
      BY <1>3, <2>3, <3>2 DEF Held
    <3>3. ASSUME inflight' = inflight, queued' = {New(NewFrame(om))}
          PROVE  \A g \in Held' : g \in Held \/ Good(g)
      BY <1>3, <2>4, <3>3 DEF Held
    <3> QED  BY <1>7, <3>1, <3>2, <3>3
  <2>6. Ahead' \subseteq Ahead
    <3>1. \A t \in Streams : Waits(t)' = Waits(t)
      BY <1>3 DEF Waits
    <3> QED  BY <1>4, <3>1 DEF Ahead
  <2>7. \A c \in Ahead : c.conn_epoch = conn_epoch /\ c.frame_idx = om.frame_idx =>
                           c.pred = om.pred
    BY <2>1, <2>2 DEF PairsAgree, SamePair
  <2>8. HeldAsPredicted'
    <3> SUFFICES ASSUME NEW f \in Held', NEW c \in Ahead
                 PROVE  /\ f.idr \subseteq f.has
                        /\ "road" \in f.has => AsPredicted(f, f.pred)
                        /\ c.conn_epoch = conn_epoch /\ c.frame_idx = f.idx =>
                             AsPredicted(f, c.pred)
      BY <1>3, <2>2, <2>6 DEF HeldAsPredicted, AsPredicted
    <3>1. CASE f \in Held
      BY <2>1, <3>1 DEF HeldAsPredicted
    <3>2. CASE Good(f)
      BY <2>7, <3>2 DEF Good
    <3> QED  BY <2>5, <3>1, <3>2
  <2>9. FramesNumbered' /\ EncodersAsPredicted' /\ PairsAgree'
    <3>1. \A t \in Streams : Waits(t)' = Waits(t)
      BY <1>3 DEF Waits
    <3> QED  BY <1>3, <1>4, <2>6, <3>1
             DEF FramesNumbered, EncodersAsPredicted, PairsAgree, SamePair
  <2> QED  BY <1>5, <2>8, <2>9
<1> QED  BY <1>1, <1>2, <1>3, <1>6, <1>7, SubmitSlots DEF IInv

(* What goes out whole is as predicted.                                    *)
LEMMA SenderPredicted ==
  ASSUME IInv, OrderInv, PredictInv, Writer \/ Reply
  PROVE  PredictInv'
<1> USE DEF PredictInv
<1>1. /\ UNCHANGED <<schedVars, since_idr, frames, meta, enc, out>>
      /\ StepBlocked \/ StepSent \/ StepError \/ StepStall \/ Connect \/ NotifyDisconnect
  BY DEF Writer, Reply, captureVars, encoderVars
<1>2. /\ connected' /\ ~Connect => connected /\ Held' \subseteq Held
      /\ Connect => Held' = {}
  BY <1>1, WriterOrder DEF IInv, OrderInv
<1>3. ~Connect => UNCHANGED conn_epoch
  BY <1>1 DEF StepBlocked, StepSent, StepError, StepStall, NotifyDisconnect, DropConnection
<1>4. FramesNumbered' /\ EncodersAsPredicted' /\ PairsAgree' /\ HeldAsPredicted'
  <2>1. UNCHANGED <<enc, meta, frames, out>>
    BY <1>1
  <2>2. connected' => Held' = {} \/ (Held' \subseteq Held /\ connected /\ UNCHANGED conn_epoch)
    BY <1>2, <1>3
  <2>3. \A t \in Streams : \A o2 \in out'[t] : \E o \in out[t] : o2.om = o.om /\ o2.idr = o.idr
    BY <2>1
  <2> QED  BY <2>1, <2>2, <2>3, PredictionKept
<1>5. ASSUME connected, NEW f \in inflight \cup queued, Complete(f)
      PROVE  f.pred = f.idr
  <2>1. f \in Held /\ f \in Frames /\ f.has = Streams /\ "road" \in f.has
    BY <1>5 DEF IInv, SenderInv, SenderOK, SlotOK, Held, Complete, Streams
  <2>2. \A s \in Streams : s \in f.idr <=> s \in f.pred
    BY <1>5, <2>1 DEF HeldAsPredicted, AsPredicted
  <2>3. f.idr \subseteq Streams /\ f.pred \subseteq Streams
    BY <2>1 DEF Frames
  <2> QED  BY <2>2, <2>3
<1>6. PredictionTrue'
  <2>1. CASE UNCHANGED wire \/ wire' = {}
    BY <2>1 DEF PredictionTrue
  <2>2. CASE StepSent
    <3>1. connected /\ ServeQueue /\ \E f \in Flying : Complete(f) /\ wire' = {f}
      BY <2>2 DEF StepSent
    <3>2. Flying \subseteq inflight \cup queued
      BY <3>1, ServedOrder DEF IInv, OrderInv
    <3> QED  BY <1>5, <3>1, <3>2 DEF PredictionTrue
  <2>3. CASE StepStall
    <3>1. connected /\ (UNCHANGED wire \/ \E f \in inflight : Complete(f) /\ wire' = {f})
      BY <2>3 DEF StepStall
    <3> QED  BY <1>5, <2>1, <3>1 DEF PredictionTrue
  <2> QED  BY <1>1, <2>1, <2>2, <2>3 DEF StepBlocked, StepError, Connect, NotifyDisconnect
<1>7. RequestsMet'
  BY <1>1 DEF RequestsMet, schedVars
<1> QED  BY <1>4, <1>6, <1>7

LEMMA NextPredicted == IInv /\ OrderInv /\ PredictInv /\ [Next]_vars => PredictInv'
<1> SUFFICES ASSUME IInv, OrderInv, PredictInv, [Next]_vars
             PROVE  PredictInv'
  OBVIOUS
<1> USE DEF PredictInv
<1>1. ASSUME UNCHANGED <<enc, meta, frames, schedVars, since_idr>>,
             UNCHANGED <<connected, conn_epoch, inflight, queued, wire>>,
             \A t \in Streams : \A o2 \in out'[t] : \E o \in out[t] :
               o2.om = o.om /\ o2.idr = o.idr
      PROVE  PredictInv'
  <2>1. Held' = Held
    BY <1>1 DEF Held
  <2>2. RequestsMet' /\ PredictionTrue'
    BY <1>1 DEF RequestsMet, schedVars, PredictionTrue
  <2> QED  BY <1>1, <2>1, <2>2, PredictionKept
<1>2. CASE PlaceFrame \/ NoPair \/ UNCHANGED vars
  <2>1. /\ UNCHANGED <<enc, meta, frames, schedVars, since_idr, out>>
        /\ UNCHANGED <<connected, conn_epoch, inflight, queued, wire>>
    BY <1>2 DEF PlaceFrame, NoPair, vars, senderVars, captureVars, encoderVars
  <2> QED  BY <1>1, <2>1
<1>3. ASSUME NEW s \in Streams, CloseGate(s) \/ ReportGap(s)
      PROVE  PredictInv'
  <2>1. /\ UNCHANGED <<enc, meta, frames, schedVars, since_idr>>
        /\ UNCHANGED <<connected, conn_epoch, inflight, queued, wire>>
    BY <1>3 DEF CloseGate, ReportGap, senderVars, captureVars, encoderVars
  <2>2. \A t \in Streams : \A o2 \in out'[t] : \E o \in out[t] : o2.om = o.om /\ o2.idr = o.idr
    BY <1>3, OutputsKept
  <2> QED  BY <1>1, <2>1, <2>2
<1>4. ASSUME NEW s \in Streams, Callback(s) \/ Swallow(s)
      PROVE  PredictInv'
  BY <1>3, <1>4, TakePredicted, SubmitPredicted, SwallowPredicted DEF Callback
<1> QED  BY <1>2, <1>4, DrainPredicted, EncodePredicted, SenderPredicted DEF Next, Capture

(* The predictions of the scheduler and the numbers of the contexts agree   *)
(* with the encoders in every state.                                       *)
THEOREM PredictInvariant == Spec => []PredictInv
<1> QED  BY InitPredicted, NextPredicted, Invariant, OrderInvariant, PTL DEF Spec

(* The flags of every frame the server gets tell its I frames, for every    *)
(* distance of I frames and every phase, over reconnections and drops       *)
(* (frame_scheduler.cpp:49-74, main.cc:933-964).                           *)
THEOREM PredictionsHold == Spec => []PredictionTrue
<1>1. PredictInv => PredictionTrue
  BY DEF PredictInv
<1> QED  BY <1>1, PredictInvariant, PTL

(* An output whose context is missing is late: no gap is reported for it    *)
(* (meta_cache.h:58-80).                                                   *)
THEOREM MissesAreStale == Spec => []MissIsStale
<1>1. IInv /\ PredictInv => MissIsStale
  <2> SUFFICES ASSUME IInv, PredictInv, NEW s \in Streams, enc[s] # <<>>,
                      Positions(meta[s], Head(enc[s]).id) = {}
               PROVE  MissOf(meta[s], Head(enc[s]).id) = "kStaleMiss"
    BY DEF MissIsStale, TakeResult
  <2> DEFINE id == Head(enc[s]).id
             q  == meta[s].q
  <2>1. id \in Nat /\ frames \in Nat /\ id <= frames
    BY TailOf, PipelineTypes DEF PredictInv, FramesNumbered, Encoded
  <2>2. q \in Seq(Contexts) /\ Len(q) \in Nat /\ \A i \in 1..Len(q) : q[i].frame_id \in Nat
    BY PipelineTypes DEF Contexts
  <2>3. \A i \in 1..Len(q) : q[i].frame_id + Len(q) = frames + i
    BY DEF PredictInv, FramesNumbered
  <2>4. \A i \in 1..Len(q) : q[i].frame_id # id
    BY <2>2 DEF Positions
  <2> HIDE DEF q, id
  <2>5. ASSUME q # <<>>
        PROVE  id < Head(q).frame_id
    <3>1. 1 \in 1..Len(q) /\ Head(q) = q[1]
      BY <2>2, <2>5, HeadTailProperties
    <3>2. ~(q[1].frame_id <= id)
      <4> SUFFICES ASSUME q[1].frame_id <= id PROVE FALSE
        OBVIOUS
      <4> DEFINE i == id + Len(q) - frames
      <4>1. i \in 1..Len(q)
        BY <2>1, <2>2, <2>3, <3>1
      <4>2. q[i].frame_id = id
        BY <2>1, <2>2, <2>3, <4>1, SMTT(30)
      <4> QED  BY <2>4, <4>1, <4>2
    <3> QED  BY <2>1, <2>2, <3>1, <3>2
  <2>6. meta[s].pushed_since_clear => id <= meta[s].last_pushed_id
    BY <2>1 DEF PredictInv, FramesNumbered
  <2> QED  BY <2>5, <2>6 DEF MissOf, q, id
<1> QED  BY <1>1, Invariant, PredictInvariant, PTL

-----------------------------------------------------------------------------
(* The chain: every frame the server gets can be decoded                   *)
(*                                                                         *)
(* The head gate lets a frame through that follows the one before it or    *)
(* begins anew.  That this suffices is no matter of one step: a frame that  *)
(* joins an open stream must be followed by all the later ones, segment by *)
(* segment, until one is reported and the gate is closed.  What is to come *)
(* on this connection is therefore part of the invariant.                  *)

(* The contexts whose segments are still to come on this connection. *)
Due(s) == {c \in Waits(s) \cup {o.om : o \in out[s]} : c.conn_epoch = conn_epoch}
AllDue == UNION {Due(s) : s \in Streams}
IsDue(s, k) == \E c \in Due(s) : c.frame_id = k

(* Every segment of f and of later frames that has not come is due. *)
Covered(f) == \A s \in Streams, k \in 0..frames :
  f.id < k \/ (f.id = k /\ s \notin f.has) => IsDue(s, k)

Begins(f) == Complete(f) /\ DualIdr(f)
Follows(f, slot) == Begins(f) \/ \E g \in slot : g.id + 1 = f.id

Previous == IF inflight # {} THEN inflight ELSE wire
Newest   == IF queued # {} THEN queued ELSE Previous

(* An encoder that loses nothing has the outputs of all contexts that wait. *)
NothingLost ==
  \A s \in Streams :
    /\ \A o, p \in out[s] : o = p
    /\ \A o \in out[s] : o.gaps = <<>> /\ o.submit
    /\ \A i \in 1..Len(enc[s]) : enc[s][i].id + Len(enc[s]) = frames + i
    /\ Len(meta[s].q) <= Len(enc[s])

(* The camera's numbers and the indices of a connection are in one order. *)
Mark(id, idx) == [id |-> id, idx |-> idx]
Marks == {Mark(c.frame_id, c.frame_idx) : c \in AllDue}
         \cup {Mark(f.id, f.idx) : f \in Held}
MarksAgree ==
  \A m, n \in Marks : m.id <= frames /\ (m.id < n.id <=> m.idx < n.idx)

(* Behind a segment that is due all later ones are. *)
DueToTheEnd ==
  \A s \in Streams : \A c \in Due(s) : \A k \in c.frame_id..frames : IsDue(s, k)

(* A frame of which both segments are due was not dropped. *)
DroppedBehind ==
  /\ \A i \in 1..Len(dropped) : cur_epoch = conn_epoch /\ dropped[i] < frame_idx
  /\ \A s, t \in Streams : \A c \in Due(s), d \in Due(t) :
       s # t /\ c.frame_id = d.frame_id => ~Contains(dropped, c.frame_idx)

(* While the gate is open the newest frame is the one before the next. *)
SlotsChained ==
  /\ \A f \in Held : f.has # {}
  /\ \A f \in inflight : Follows(f, wire)
  /\ stream_open => \A f \in queued : Follows(f, Previous)
  /\ stream_open => \A f \in Newest : Covered(f)
  /\ \A f \in queued : \A s \in Streams \ f.has : IsDue(s, f.id) => Covered(f)
  /\ ~stream_open => \A f \in queued : ~Complete(f)

ChainOK == MarksAgree /\ DueToTheEnd /\ DroppedBehind /\ SlotsChained

ChainInv == NothingLost /\ (connected => ChainOK)

(* The types of what is due, and the connection it belongs to. *)
LEMMA DueTypes ==
  ASSUME IInv, OrderInv
  PROVE  \A s \in Streams : \A c \in Due(s) :
           /\ c \in Contexts /\ c \in AllDue
           /\ c.conn_epoch = conn_epoch /\ cur_epoch = conn_epoch
           /\ c.frame_idx < frame_idx
<1> SUFFICES ASSUME NEW s \in Streams, NEW c \in Due(s)
             PROVE  /\ c \in Contexts /\ c \in AllDue
                    /\ c.conn_epoch = conn_epoch /\ cur_epoch = conn_epoch
                    /\ c.frame_idx < frame_idx
  OBVIOUS
<1>1. c \in Contexts /\ c.conn_epoch = conn_epoch /\ c \in AllDue
  BY PipelineTypes DEF Due, AllDue
<1>2. cur_epoch \in Nat /\ conn_epoch \in Nat /\ cur_epoch <= conn_epoch
  BY PipelineTypes DEF OrderInv, EventsOrdered
<1>3. c.conn_epoch <= cur_epoch
  BY <1>2 DEF Due, OrderInv, PipelineOrdered, ContextsOrdered
<1>4. c.conn_epoch = cur_epoch
  BY <1>1, <1>2, <1>3
<1>5. c.frame_idx < frame_idx
  BY <1>4 DEF Due, OrderInv, PipelineOrdered, ContextsOrdered
<1> QED  BY <1>1, <1>4, <1>5

(* The order of the marks, of contexts and of frames. *)
LEMMA Alike ==
  ASSUME IInv, OrderInv, MarksAgree
  PROVE  /\ \A c, d \in AllDue : /\ c.frame_id < d.frame_id <=> c.frame_idx < d.frame_idx
                                 /\ c.frame_id = d.frame_id <=> c.frame_idx = d.frame_idx
         /\ \A f \in Held, c \in AllDue : /\ f.id < c.frame_id <=> f.idx < c.frame_idx
                                          /\ c.frame_id < f.id <=> c.frame_idx < f.idx
                                          /\ c.frame_id = f.id <=> c.frame_idx = f.idx
         /\ \A f, g \in Held : /\ f.id < g.id <=> f.idx < g.idx
                               /\ f.id = g.id <=> f.idx = g.idx
         /\ \A c \in AllDue : c.frame_id \in Nat /\ c.frame_idx \in Nat /\ c.frame_id <= frames
         /\ \A f \in Held : f.id \in Nat /\ f.idx \in Nat /\ f.id <= frames
<1>1. \A c \in AllDue : c.frame_id \in Nat /\ c.frame_idx \in Nat
                        /\ Mark(c.frame_id, c.frame_idx) \in Marks
  BY DueTypes DEF AllDue, Contexts, Marks
<1>2. \A f \in Held : f.id \in Nat /\ f.idx \in Nat /\ Mark(f.id, f.idx) \in Marks
  BY PipelineTypes DEF Frames, Marks
<1>3. \A a, b : Mark(a, b).id = a /\ Mark(a, b).idx = b
  BY DEF Mark
<1>4. \A c, d \in AllDue : c.frame_id < d.frame_id <=> c.frame_idx < d.frame_idx
  BY <1>1, <1>3 DEF MarksAgree
<1>5. \A f \in Held, c \in AllDue : /\ f.id < c.frame_id <=> f.idx < c.frame_idx
                                    /\ c.frame_id < f.id <=> c.frame_idx < f.idx
  BY <1>1, <1>2, <1>3 DEF MarksAgree
<1>6. \A f, g \in Held : f.id < g.id <=> f.idx < g.idx
  BY <1>2, <1>3 DEF MarksAgree
<1>7. (\A c \in AllDue : c.frame_id <= frames) /\ \A f \in Held : f.id <= frames
  BY <1>1, <1>2, <1>3 DEF MarksAgree
<1>8. \A c, d \in AllDue : c.frame_id = d.frame_id <=> c.frame_idx = d.frame_idx
  BY <1>1, <1>4
<1>9. \A f \in Held, c \in AllDue : c.frame_id = f.id <=> c.frame_idx = f.idx
  BY <1>1, <1>2, <1>5
<1>10. \A f, g \in Held : f.id = g.id <=> f.idx = g.idx
  BY <1>2, <1>6
<1> QED  BY <1>1, <1>2, <1>4, <1>5, <1>6, <1>7, <1>8, <1>9, <1>10

(* The fields of a frame that gets a segment. *)
LEMMA SegmentFields ==
  ASSUME NEW f \in Frames, NEW s \in Streams, NEW om \in Contexts, NEW idr \in BOOLEAN
  PROVE  LET g == WithSegment(f, s, om, idr)
         IN  /\ g.id = f.id /\ g.idx = f.idx /\ g.has = f.has \cup {s}
             /\ idr => g.idr = f.idr \cup {s}
             /\ s = "road" => g.pred = om.pred
             /\ s # "road" => g.pred = f.pred
             /\ f.idr \subseteq g.idr
BY DEF WithSegment, Frames

LEMMA NewFields ==
  ASSUME NEW om \in Contexts
  PROVE  /\ NewFrame(om) \in Frames
         /\ NewFrame(om).id = om.frame_id /\ NewFrame(om).idx = om.frame_idx
         /\ NewFrame(om).has = {} /\ NewFrame(om).idr = {}
BY NewFrameType DEF NewFrame

LEMMA FirstSegment ==
  ASSUME NEW om \in Contexts, NEW s \in Streams, NEW idr \in BOOLEAN
  PROVE  LET n == WithSegment(NewFrame(om), s, om, idr)
         IN  n.id = om.frame_id /\ n.idx = om.frame_idx /\ n.has = {s}
<1>1. /\ NewFrame(om) \in Frames /\ NewFrame(om).has = {}
      /\ NewFrame(om).id = om.frame_id /\ NewFrame(om).idx = om.frame_idx
  BY NewFields
<1> QED  BY <1>1, SegmentFields

(* What a submission takes from the segments that are due: the first one.  *)
LEMMA SubmitDue ==
  ASSUME IInv, OrderInv, NothingLost, NEW s \in Streams, NEW o \in out[s],
         out' = [out EXCEPT ![s] = {}], UNCHANGED <<meta, conn_epoch>>
  PROVE  /\ \A t \in Streams : Due(t)' \subseteq Due(t) /\ (t # s => Due(t)' = Due(t))
         /\ \A c \in Due(s) : c = o.om \/ c \in Due(s)'
         /\ o.om.conn_epoch # conn_epoch => Due(s)' = Due(s)
         /\ o.om.conn_epoch = conn_epoch =>
              o.om \in Due(s) /\ \A c \in Due(s)' : o.om.frame_idx < c.frame_idx
<1>1. /\ out'[s] = {} /\ \A t \in Streams : t # s => out'[t] = out[t]
      /\ \A t \in Streams : Waits(t)' = Waits(t)
  BY DEF Waits, IInv, EncodersOK
<1>2. \A p \in out[s] : p = o
  BY DEF NothingLost
<1>3. /\ \A t \in Streams : Due(t)' \subseteq Due(t) /\ (t # s => Due(t)' = Due(t))
      /\ \A c \in Due(s) : c = o.om \/ c \in Due(s)'
      /\ o.om.conn_epoch # conn_epoch => Due(s)' = Due(s)
  BY <1>1, <1>2 DEF Due
<1>4. ASSUME o.om.conn_epoch = conn_epoch
      PROVE  o.om \in Due(s) /\ \A c \in Due(s)' : o.om.frame_idx < c.frame_idx
  <2>1. o.om \in Due(s)
    BY <1>4 DEF Due
  <2>2. o.om.conn_epoch = cur_epoch
    BY <2>1, DueTypes
  <2>3. \A c \in Waits(s) : o.om.frame_idx < c.frame_idx
    BY <2>2 DEF OrderInv, PipelineOrdered, ContextsOrdered
  <2> QED  BY <1>1, <2>1, <2>3 DEF Due
<1> QED  BY <1>3, <1>4

-----------------------------------------------------------------------------
(* What becomes of a segment                                               *)

Reports(idx) ==
  /\ dropped' = Remember(dropped, idx)
  /\ \E kind \in {"kDrop", "kHeadBarrier"} : evs' = Append(evs, Event(kind, idx))

Ignored(om) ==
  /\ UNCHANGED <<senderVars, evs>>
  /\ Late(om.frame_idx) /\ \A f \in inflight \cup queued : f.idx # om.frame_idx

JoinsFlight(s, om, idr) ==
  /\ \E f \in inflight : /\ f.idx = om.frame_idx /\ s \notin f.has
                         /\ inflight' = {WithSegment(f, s, om, idr)}
  /\ UNCHANGED <<queued, stream_open, dropped, evs>>

JoinsQueue(s, om, idr) ==
  /\ \E f \in queued : /\ f.idx = om.frame_idx /\ s \notin f.has
                       /\ queued' = {WithSegment(f, s, om, idr)}
                       /\ stream_open \/ Begins(WithSegment(f, s, om, idr))
  /\ stream_open'
  /\ UNCHANGED <<inflight, dropped, evs>>

IsRefused(s, om, idr) ==
  /\ \E f \in queued : /\ f.idx = om.frame_idx /\ s \notin f.has
                       /\ ~Opens(WithSegment(f, s, om, idr))
                       /\ Reports(f.idx)
  /\ queued' = {} /\ ~stream_open /\ ~stream_open'
  /\ UNCHANGED inflight

ComesNext(s, om, idr) ==
  /\ queued = {} /\ queued' = {WithSegment(NewFrame(om), s, om, idr)}
  /\ ~Late(om.frame_idx) /\ \A f \in inflight : f.idx < om.frame_idx
  /\ (stream_open' <=> stream_open)
  /\ UNCHANGED <<inflight, dropped, evs>>

PushesOut(s, om, idr) ==
  /\ \E f \in queued : f.idx < om.frame_idx /\ Reports(f.idx)
  /\ queued' = {WithSegment(NewFrame(om), s, om, idr)}
  /\ ~Late(om.frame_idx) /\ ~stream_open'
  /\ UNCHANGED inflight

LEMMA SegmentOutcome ==
  ASSUME IInv, OrderInv, ChainInv, connected,
         NEW s \in Streams, NEW om \in Due(s), NEW idr \in BOOLEAN, Submit(s, om, idr)
  PROVE  /\ UNCHANGED <<connected, conn_epoch>>
         /\ \/ Ignored(om) \/ JoinsFlight(s, om, idr) \/ JoinsQueue(s, om, idr)
            \/ IsRefused(s, om, idr) \/ ComesNext(s, om, idr) \/ PushesOut(s, om, idr)
<1>1. /\ om \in Contexts /\ om.conn_epoch = conn_epoch /\ om.frame_idx \in Nat
      /\ ~Stale(om)
  BY DueTypes DEF Contexts, Stale
<1>2. /\ SlotOK(inflight) /\ SlotOK(queued) /\ SenderOK
      /\ \A f \in inflight \cup queued : f \in Frames /\ f \in Held /\ f.idx \in Nat
  BY DEF IInv, SenderInv, SenderOK, SlotOK, Held, Frames
<1>3. /\ \A f \in Held : f.has # {}
      /\ ~stream_open => \A f \in queued : ~Complete(f)
  BY DEF ChainInv, ChainOK, SlotsChained
<1>4. ASSUME NEW f \in Held PROVE s \in f.has => f.idx < om.frame_idx
  <2>1. \A c \in Waits(s) : s \in f.has => f.idx < c.frame_idx
    BY DEF OrderInv, PipelineOrdered, SegmentsAhead
  <2>2. \A o \in out[s] : s \in f.has /\ o.om.conn_epoch = conn_epoch => f.idx < o.om.frame_idx
    BY DEF OrderInv, PipelineOrdered, SegmentsAhead
  <2> QED  BY <2>1, <2>2 DEF Due
<1>5. CASE /\ Stale(om) \/ (~(Holds(inflight, om.frame_idx) \/ Holds(queued, om.frame_idx))
                            /\ Late(om.frame_idx))
              \/ \E f \in inflight \cup queued : f.idx = om.frame_idx /\ s \in f.has
           /\ UNCHANGED <<senderVars, evs>>
  <2>1. ~\E f \in inflight \cup queued : f.idx = om.frame_idx /\ s \in f.has
    BY <1>1, <1>2, <1>4
  <2> QED  BY <1>1, <1>5, <2>1 DEF Ignored, Holds, senderVars
<1>6. CASE /\ \E f \in inflight : /\ f.idx = om.frame_idx /\ s \notin f.has
                                  /\ inflight' = {WithSegment(f, s, om, idr)}
           /\ HeadGate(queued)
           /\ UNCHANGED <<connected, conn_epoch, sent>>
  <2>1. Refused(queued) = {} /\ (Opened(queued) <=> stream_open)
    BY <1>3 DEF Refused, Opened
  <2>2. queued' = queued /\ stream_open' = stream_open /\ UNCHANGED <<dropped, evs>>
    BY <1>2, <1>6, <2>1 DEF HeadGate, ReportDropped, SenderOK, Opened
  <2> QED  BY <1>6, <2>2 DEF JoinsFlight
<1>7. ASSUME NEW f \in queued, f.idx = om.frame_idx, s \notin f.has,
             HeadGate({WithSegment(f, s, om, idr)}),
             UNCHANGED <<connected, conn_epoch, inflight, sent>>
      PROVE  JoinsQueue(s, om, idr) \/ IsRefused(s, om, idr)
  <2> DEFINE g == WithSegment(f, s, om, idr)
  <2>1. g.idx = f.idx /\ g.has = f.has \cup {s}
    <3>1. f \in Frames
      BY <1>2
    <3> QED  BY <1>1, <3>1, SegmentFields
  <2>2. Complete(g)
    <3>1. f.has \subseteq Streams /\ f.has # {}
      BY <1>2, <1>3 DEF Frames
    <3> QED  BY <2>1, <1>7, <3>1 DEF Complete, Streams
  <2> HIDE DEF g
  <2>3. HeadGate({g})
    BY <1>7 DEF g
  <2>4. CASE stream_open \/ Opens(g)
    <3>1. Refused({g}) = {} /\ Opened({g})
      BY <2>2, <2>4 DEF Refused, Opened
    <3>2. queued' = {g} /\ stream_open' /\ UNCHANGED <<dropped, evs>>
      BY <2>3, <3>1 DEF HeadGate, ReportDropped
    <3>3. stream_open \/ Begins(g)
      BY <2>2, <2>4 DEF Opens, Begins
    <3> QED  BY <1>7, <3>2, <3>3 DEF JoinsQueue, g
  <2>5. CASE ~stream_open /\ ~Opens(g)
    <3>1. Refused({g}) = {g} /\ ~Opened({g})
      BY <2>2, <2>5 DEF Refused, Opened
    <3>2. queued' = {} /\ ~stream_open'
      BY <2>3, <3>1 DEF HeadGate
    <3>3. ReportDropped({g}, "kHeadBarrier")
      BY <2>3, <3>1 DEF HeadGate
    <3>4. Reports(f.idx)
      BY <2>1, <3>3 DEF ReportDropped, Reports
    <3> QED  BY <1>7, <2>5, <3>2, <3>4 DEF IsRefused, g
  <2> QED  BY <2>4, <2>5
<1>8. CASE /\ ~(Holds(inflight, om.frame_idx) \/ Holds(queued, om.frame_idx))
           /\ ~Late(om.frame_idx) /\ Overwrite(s, om, idr)
           /\ UNCHANGED <<connected, conn_epoch, inflight, sent>>
  <2>1. \A f \in inflight \cup queued : f.idx < om.frame_idx
    BY <1>1, <1>2, <1>8 DEF Holds, Late
  <2>2. CASE queued = {}
    <3>1. UNCHANGED <<dropped, evs>> /\ (stream_open' <=> stream_open)
      BY <1>8, <2>2 DEF Overwrite, ReportDropped
    <3> QED  BY <1>8, <2>1, <2>2, <3>1 DEF Overwrite, ComesNext
  <2>3. CASE queued # {}
    <3>1. ~stream_open'
      BY <1>8, <2>3 DEF Overwrite
    <3>2. PICK f \in queued : /\ dropped' = Remember(dropped, f.idx)
                              /\ evs' = Append(evs, Event(OverwriteEvent, f.idx))
      BY <1>8, <2>3 DEF Overwrite, ReportDropped
    <3>3. OverwriteEvent \in {"kDrop", "kHeadBarrier"}
      BY DEF OverwriteEvent
    <3>4. Reports(f.idx)
      BY <3>2, <3>3 DEF Reports
    <3> QED  BY <1>8, <2>1, <3>1, <3>4 DEF Overwrite, PushesOut
  <2> QED  BY <2>2, <2>3
<1> QED  BY <1>1, <1>5, <1>6, <1>7, <1>8 DEF Submit, senderVars, JoinsFlight

-----------------------------------------------------------------------------
(* A window of indices has no new ones but the one it is given. *)
LEMMA RememberMembers ==
  ASSUME NEW window \in Seq(Nat), NEW idx \in Nat
  PROVE  /\ \A i \in 1..Len(Remember(window, idx)) :
              \/ Remember(window, idx)[i] = idx
              \/ \E j \in 1..Len(window) : Remember(window, idx)[i] = window[j]
         /\ \A x : Contains(Remember(window, idx), x) => Contains(window, x) \/ x = idx
<1> DEFINE grown == Append(window, idx)
<1>1. /\ grown \in Seq(Nat) /\ grown # <<>> /\ Len(window) \in Nat
      /\ Len(grown) = Len(window) + 1
      /\ \A i \in 1..Len(window) : grown[i] = window[i]
      /\ grown[Len(window) + 1] = idx
  BY AppendProperties, LenProperties
<1>2. Remember(window, idx) \in {grown, Tail(grown)}
  BY DEF Remember
<1> HIDE DEF grown
<1>3. \A i \in 1..Len(grown) : grown[i] = idx \/ \E j \in 1..Len(window) : grown[i] = window[j]
  <2> TAKE i \in 1..Len(grown)
  <2>1. i \in 1..Len(window) \/ i = Len(window) + 1
    BY <1>1
  <2> QED  BY <1>1, <2>1
<1>4. \A i \in 1..Len(Tail(grown)) : i + 1 \in 1..Len(grown) /\ Tail(grown)[i] = grown[i + 1]
  BY <1>1, HeadTailProperties, LenProperties
<1>5. \A i \in 1..Len(Remember(window, idx)) :
        \/ Remember(window, idx)[i] = idx
        \/ \E j \in 1..Len(window) : Remember(window, idx)[i] = window[j]
  BY <1>2, <1>3, <1>4
<1> QED  BY <1>5 DEF Contains

(* The newest frame is the last of all. *)
LEMMA NewestTop ==
  ASSUME IInv, OrderInv, connected, NEW f \in Newest \cup queued
  PROVE  f \in Held /\ \A g \in Held : g.idx <= f.idx
<1>1. /\ SlotOK(inflight) /\ SlotOK(queued) /\ SlotOK(wire)
      /\ \A g \in Held : g.idx \in Nat
  BY DEF IInv, SenderInv, SenderOK, SlotOK, Held, Frames
<1>2. /\ \A w \in wire, g \in inflight \cup queued : w.idx < g.idx
      /\ \A g \in inflight, h \in queued : g.idx < h.idx
  BY DEF OrderInv, SlotsInOrder, SlotsOrdered
<1>3. \/ f \in queued
      \/ queued = {} /\ f \in inflight
      \/ queued = {} /\ inflight = {} /\ f \in wire
  BY DEF Newest, Previous
<1>4. f \in Held
  BY <1>3 DEF Held
<1>5. ASSUME NEW g \in Held PROVE g.idx <= f.idx
  <2>1. g.idx \in Nat /\ f.idx \in Nat
    BY <1>1, <1>4
  <2>2. g = f \/ g.idx < f.idx
    BY <1>1, <1>2, <1>3 DEF Held, SlotOK
  <2> QED  BY <2>1, <2>2
<1> QED  BY <1>4, <1>5

(* A segment that is due comes after all of its stream that have come. *)
LEMMA DueBehindHeld ==
  ASSUME IInv, OrderInv, connected, NEW f \in Held, NEW s \in Streams, s \in f.has, NEW c \in Due(s)
  PROVE  f.idx < c.frame_idx
<1>1. \A d \in Waits(s) : f.idx < d.frame_idx
  BY DEF OrderInv, PipelineOrdered, SegmentsAhead
<1>2. \A o \in out[s] : o.om.conn_epoch = conn_epoch => f.idx < o.om.frame_idx
  BY DEF OrderInv, PipelineOrdered, SegmentsAhead
<1> QED  BY <1>1, <1>2 DEF Due

(* om is the first segment of s that is due, and it comes. *)
Comes(s, om) ==
  /\ om \in Due(s)
  /\ \A t \in Streams : Due(t)' \subseteq Due(t) /\ (t # s => Due(t)' = Due(t))
  /\ \A c \in Due(s) : c = om \/ c \in Due(s)'
  /\ \A c \in Due(s)' : om.frame_idx < c.frame_idx
  /\ UNCHANGED <<connected, conn_epoch, cur_epoch, frames, frame_idx, wire>>

(* A frame g in the place of f lacks nothing but what came. *)
LEMMA CoverKept ==
  ASSUME IInv, OrderInv, NEW s \in Streams, NEW om, Comes(s, om), NEW f, NEW g,
         Covered(f), g.id = f.id, f.has \subseteq g.has, f.id \in Nat,
         om.frame_id < f.id \/ (om.frame_id = f.id /\ s \in g.has)
  PROVE  Covered(g)'
<1>1. om \in Due(s) /\ frames' = frames /\ frames \in Nat /\ om.frame_id \in Nat
  BY DueTypes, PipelineTypes DEF Comes, Contexts
<1> SUFFICES ASSUME NEW r \in Streams, NEW k \in 0..frames, g.id < k \/ (g.id = k /\ r \notin g.has)
             PROVE  \E c \in Due(r)' : c.frame_id = k
  BY <1>1 DEF Covered, IsDue
<1>2. f.id < k \/ (f.id = k /\ r \notin f.has)
  OBVIOUS
<1>3. PICK c \in Due(r) : c.frame_id = k
  BY <1>2 DEF Covered, IsDue
<1>4. CASE r # s
  BY <1>3, <1>4 DEF Comes
<1>5. CASE r = s
  <2>1. c # om
    BY <1>1, <1>3, <1>5
  <2> QED  BY <1>3, <1>5, <2>1 DEF Comes
<1> QED  BY <1>4, <1>5

(* A new frame whose other segment is due lacks nothing that has come. *)
LEMMA NewCovered ==
  ASSUME IInv, OrderInv, MarksAgree, DueToTheEnd,
         NEW s \in Streams, NEW om, Comes(s, om), NEW n, n.id = om.frame_id, n.has = {s},
         \A t \in Streams \ {s} : IsDue(t, om.frame_id)
  PROVE  Covered(n)'
<1>1. om \in Due(s) /\ om \in AllDue /\ frames' = frames /\ frames \in Nat /\ om.frame_id \in Nat
      /\ \A t \in Streams : \A c \in Due(t) : c.frame_id \in Nat
  BY DueTypes, PipelineTypes DEF Comes, Contexts
<1> SUFFICES ASSUME NEW r \in Streams, NEW k \in 0..frames, n.id < k \/ (n.id = k /\ r \notin n.has)
             PROVE  \E c \in Due(r)' : c.frame_id = k
  BY <1>1 DEF Covered, IsDue
<1>2. CASE r = s
  <2>1. k \in om.frame_id..frames /\ om.frame_id < k
    BY <1>1, <1>2
  <2>2. PICK c \in Due(s) : c.frame_id = k
    BY <1>1, <2>1 DEF DueToTheEnd, IsDue
  <2>3. c # om
    BY <1>1, <2>1, <2>2
  <2> QED  BY <1>2, <2>2, <2>3 DEF Comes
<1>3. CASE r # s
  <2>1. PICK d \in Due(r) : d.frame_id = om.frame_id
    BY <1>3 DEF IsDue
  <2>2. k \in d.frame_id..frames
    BY <1>1, <2>1
  <2>3. PICK c \in Due(r) : c.frame_id = k
    BY <2>2 DEF DueToTheEnd, IsDue
  <2> QED  BY <1>3, <2>3 DEF Comes
<1> QED  BY <1>2, <1>3

(* A segment that is ignored is of a frame that was passed. *)
LEMMA IgnoredKeepsCover ==
  ASSUME IInv, OrderInv, ChainOK, connected, NEW s \in Streams, NEW om, Comes(s, om), Ignored(om),
         NEW f \in Newest \cup queued, Covered(f)
  PROVE  Covered(f)'
<1>1. /\ f \in Held /\ \A g \in Held : g.idx <= f.idx
      /\ \A g \in Held : g.idx \in Nat
  BY NewestTop, PipelineTypes DEF Frames
<1>2. om \in Due(s) /\ om \in AllDue /\ om.frame_id \in Nat /\ om.frame_idx \in Nat
      /\ om.frame_id <= frames /\ f.id \in Nat /\ frames \in Nat
  BY <1>1, DueTypes, Alike, PipelineTypes DEF Comes, ChainOK, Contexts
<1>3. ~(f.id < om.frame_id)
  <2> SUFFICES ASSUME f.id < om.frame_id PROVE FALSE
    OBVIOUS
  <2>1. PICK t \in Streams : t # s
    BY DEF Streams
  <2>2. PICK d \in Due(t) : d.frame_id = om.frame_id
    BY <1>2 DEF Covered, IsDue
  <2>3. ~Contains(dropped, om.frame_idx)
    BY <1>2, <2>1, <2>2 DEF ChainOK, DroppedBehind
  <2>4. PICK g \in inflight \cup queued : om.frame_idx < g.idx
    BY <2>3 DEF Ignored, Late
  <2>5. g \in Held
    BY DEF Held
  <2>6. om.frame_idx < f.idx
    BY <1>1, <1>2, <2>4, <2>5
  <2>7. om.frame_id < f.id
    BY <1>1, <1>2, <2>6, Alike DEF ChainOK
  <2> QED  BY <1>2, <2>7
<1>4. f.id = om.frame_id => s \in f.has
  <2> SUFFICES ASSUME f.id = om.frame_id PROVE s \in f.has
    OBVIOUS
  <2>1. f.idx = om.frame_idx
    BY <1>1, <1>2, Alike DEF ChainOK
  <2>2. f \in wire
    BY <1>1, <2>1 DEF Ignored, Held
  <2> QED  BY <2>2 DEF OrderInv, SlotsInOrder, SentWhole, Complete
<1>5. om.frame_id < f.id \/ (om.frame_id = f.id /\ s \in f.has)
  BY <1>2, <1>3, <1>4
<1> QED  BY <1>2, <1>5, CoverKept

-----------------------------------------------------------------------------
(* What a segment leaves                                                   *)

LEMMA MarksKept ==
  ASSUME MarksAgree, UNCHANGED frames,
         \A t \in Streams : Due(t)' \subseteq Due(t),
         \A g \in Held' : \/ \E f \in Held : g.id = f.id /\ g.idx = f.idx
                          \/ \E c \in AllDue : g.id = c.frame_id /\ g.idx = c.frame_idx
  PROVE  MarksAgree'
<1>1. AllDue' \subseteq AllDue
  BY DEF AllDue
<1>2. \A g \in Held' : Mark(g.id, g.idx) \in Marks
  BY DEF Marks
<1>3. Marks' \subseteq Marks
  BY <1>1, <1>2 DEF Marks, Mark
<1> QED  BY <1>3 DEF MarksAgree

LEMMA ComesKeepsDue ==
  ASSUME IInv, OrderInv, MarksAgree, DueToTheEnd, NEW s \in Streams, NEW om, Comes(s, om)
  PROVE  DueToTheEnd'
<1>1. om \in AllDue /\ om.frame_id \in Nat /\ frames' = frames
  BY DueTypes DEF Comes, Contexts
<1> SUFFICES ASSUME NEW t \in Streams, NEW c \in Due(t)', NEW k \in c.frame_id..frames
             PROVE  \E d \in Due(t)' : d.frame_id = k
  BY <1>1 DEF DueToTheEnd, IsDue
<1>2. c \in Due(t) /\ c \in AllDue /\ c.frame_id \in Nat
  BY DueTypes DEF Comes, Contexts
<1>3. PICK d \in Due(t) : d.frame_id = k
  BY <1>2 DEF DueToTheEnd, IsDue
<1>4. CASE t # s
  BY <1>3, <1>4 DEF Comes
<1>5. CASE t = s
  <2>1. om.frame_idx < c.frame_idx
    BY <1>5 DEF Comes
  <2>2. om.frame_id < c.frame_id
    BY <1>1, <1>2, <2>1, Alike
  <2>3. d # om
    BY <1>1, <1>2, <1>3, <2>2
  <2> QED  BY <1>3, <1>5, <2>3 DEF Comes
<1> QED  BY <1>4, <1>5

(* A frame that is reported as dropped has a segment that has come. *)
LEMMA DroppedKept ==
  ASSUME IInv, OrderInv, ChainOK, connected,
         UNCHANGED <<conn_epoch, cur_epoch, frame_idx>>,
         \A t \in Streams : Due(t)' \subseteq Due(t),
         dropped' = dropped \/ \E f \in queued : dropped' = Remember(dropped, f.idx)
  PROVE  DroppedBehind'
<1>1. CASE dropped' = dropped
  BY <1>1 DEF ChainOK, DroppedBehind
<1>2. ASSUME NEW f \in queued, dropped' = Remember(dropped, f.idx)
      PROVE  DroppedBehind'
  <2>1. f \in Held /\ f.idx \in Nat /\ f.has \subseteq Streams /\ f.has # {}
    BY PipelineTypes DEF Held, Frames, ChainOK, SlotsChained
  <2>2. cur_epoch = conn_epoch /\ f.idx < frame_idx
    BY <2>1 DEF OrderInv, PipelineOrdered, SegmentsAhead
  <2>3. dropped \in Seq(Nat)
    BY DEF IInv, SenderInv, SenderOK
  <2>4. /\ \A i \in 1..Len(dropped') :
             dropped'[i] = f.idx \/ \E j \in 1..Len(dropped) : dropped'[i] = dropped[j]
        /\ \A x : Contains(dropped', x) => Contains(dropped, x) \/ x = f.idx
    BY <1>2, <2>1, <2>3, RememberMembers
  <2>5. \A i \in 1..Len(dropped') : cur_epoch' = conn_epoch' /\ dropped'[i] < frame_idx'
    BY <2>2, <2>4 DEF ChainOK, DroppedBehind
  <2>6. ASSUME NEW t \in Streams, NEW r \in Streams, NEW c \in Due(t)', NEW d \in Due(r)',
               t # r, c.frame_id = d.frame_id
        PROVE  ~Contains(dropped', c.frame_idx)
    <3>1. c \in Due(t) /\ d \in Due(r) /\ c \in AllDue /\ d \in AllDue
      BY DueTypes
    <3>2. c.frame_idx = d.frame_idx /\ c.frame_idx \in Nat
      BY <2>6, <3>1, Alike DEF ChainOK
    <3>3. t \in f.has \/ r \in f.has
      BY <2>1, <2>6 DEF Streams
    <3>4. f.idx < c.frame_idx
      BY <2>1, <3>1, <3>2, <3>3, DueBehindHeld
    <3>5. ~Contains(dropped, c.frame_idx)
      BY <2>6, <3>1 DEF ChainOK, DroppedBehind
    <3> QED  BY <2>1, <2>4, <3>2, <3>4, <3>5
  <2> QED  BY <2>5, <2>6 DEF DroppedBehind
<1> QED  BY <1>1, <1>2

(* The frame that gets a segment keeps its place. *)
LEMMA FollowsOn ==
  ASSUME NEW f, NEW g, NEW slot, NEW after, NEW s \in Streams, s \notin f.has,
         Follows(f, slot), g.id = f.id,
         \A p \in slot : \E q \in after : q.id = p.id
  PROVE  Follows(g, after)
<1>1. ~Begins(f)
  BY DEF Begins, Complete
<1> QED  BY <1>1 DEF Follows

LEMMA IgnoredChain ==
  ASSUME IInv, OrderInv, ChainOK, connected, NEW s \in Streams, NEW om, Comes(s, om), Ignored(om)
  PROVE  SlotsChained'
<1> USE DEF ChainOK, SlotsChained
<1>1. /\ UNCHANGED <<inflight, queued, wire>> /\ (stream_open' <=> stream_open)
      /\ Held' = Held /\ Previous' = Previous /\ Newest' = Newest
  BY DEF Ignored, Comes, senderVars, Held, Previous, Newest
<1>2. stream_open' => \A f \in Newest' : Covered(f)'
  BY <1>1, IgnoredKeepsCover
<1>3. ASSUME NEW f \in queued', NEW r \in Streams \ f.has, IsDue(r, f.id)'
      PROVE  Covered(f)'
  <2>1. IsDue(r, f.id)
    BY <1>3 DEF IsDue, Comes
  <2> QED  BY <1>1, <2>1, IgnoredKeepsCover
<1> QED  BY <1>1, <1>2, <1>3

LEMMA FlightChain ==
  ASSUME IInv, OrderInv, ChainOK, connected, NEW s \in Streams, NEW om, Comes(s, om),
         NEW idr \in BOOLEAN, JoinsFlight(s, om, idr)
  PROVE  SlotsChained'
<1> USE DEF ChainOK, SlotsChained
<1>1. PICK f \in inflight : /\ f.idx = om.frame_idx /\ s \notin f.has
                            /\ inflight' = {WithSegment(f, s, om, idr)}
  BY DEF JoinsFlight
<1> DEFINE g == WithSegment(f, s, om, idr)
<1>2. /\ om \in Due(s) /\ om \in AllDue /\ om \in Contexts /\ f \in Held /\ f \in Frames
      /\ inflight = {f}
  BY DueTypes, PipelineTypes DEF Comes, Held, IInv, SenderInv, SenderOK, SlotOK
<1>3. g.id = f.id /\ g.idx = f.idx /\ g.has = f.has \cup {s}
  BY <1>2, SegmentFields
<1> HIDE DEF g
<1>4. /\ inflight' = {g} /\ UNCHANGED <<queued, wire>> /\ (stream_open' <=> stream_open)
      /\ Previous = {f} /\ Previous' = {g}
      /\ Newest' = IF queued # {} THEN queued ELSE {g}
  BY <1>1, <1>2 DEF JoinsFlight, Comes, Previous, Newest, g
<1>5. f.id = om.frame_id /\ f.id \in Nat
  BY <1>1, <1>2, Alike
<1>6. \A h \in Held' : h.has # {}
  BY <1>2, <1>3, <1>4 DEF Held
<1>7. \A h \in inflight' : Follows(h, wire')
  BY <1>1, <1>3, <1>4, FollowsOn
<1>8. stream_open' => \A h \in queued' : Follows(h, Previous')
  BY <1>3, <1>4 DEF Follows
<1>9. ASSUME NEW h \in queued, Covered(h)
      PROVE  Covered(h)'
  <2>1. f.idx < h.idx /\ h \in Held
    BY <1>1 DEF OrderInv, SlotsInOrder, SlotsOrdered, Held
  <2>2. om.frame_id < h.id /\ h.id \in Nat
    BY <1>2, <1>5, <2>1, Alike
  <2> QED  BY <1>9, <2>2, CoverKept
<1>10. stream_open' => \A h \in Newest' : Covered(h)'
  <2> SUFFICES ASSUME stream_open, NEW h \in Newest' PROVE Covered(h)'
    BY <1>4
  <2>1. CASE queued # {}
    BY <1>4, <1>9, <2>1 DEF Newest
  <2>2. CASE queued = {}
    <3>1. h = g /\ Covered(f)
      BY <1>4, <2>2 DEF Newest
    <3>2. Covered(g)'
      BY <1>3, <1>5, <3>1, CoverKept
    <3> QED  BY <3>1, <3>2
  <2> QED  BY <2>1, <2>2
<1>11. ASSUME NEW h \in queued', NEW r \in Streams \ h.has, IsDue(r, h.id)'
       PROVE  Covered(h)'
  <2>1. IsDue(r, h.id)
    BY <1>11 DEF IsDue, Comes
  <2> QED  BY <1>4, <1>9, <2>1
<1> QED  BY <1>4, <1>6, <1>7, <1>8, <1>10, <1>11

LEMMA QueueChain ==
  ASSUME IInv, OrderInv, ChainOK, connected, NEW s \in Streams, NEW om, Comes(s, om),
         NEW idr \in BOOLEAN, JoinsQueue(s, om, idr)
  PROVE  SlotsChained'
<1> USE DEF ChainOK, SlotsChained
<1>1. PICK f \in queued : /\ f.idx = om.frame_idx /\ s \notin f.has
                          /\ queued' = {WithSegment(f, s, om, idr)}
                          /\ stream_open \/ Begins(WithSegment(f, s, om, idr))
  BY DEF JoinsQueue
<1> DEFINE g == WithSegment(f, s, om, idr)
<1>2. /\ om \in Due(s) /\ om \in AllDue /\ om \in Contexts /\ f \in Held /\ f \in Frames
  BY DueTypes, PipelineTypes DEF Comes, Held
<1>3. g.id = f.id /\ g.idx = f.idx /\ g.has = f.has \cup {s}
  BY <1>2, SegmentFields
<1>4. stream_open \/ Begins(g)
  BY <1>1
<1> HIDE DEF g
<1>5. /\ queued' = {g} /\ UNCHANGED <<inflight, wire>> /\ stream_open'
      /\ Previous' = Previous /\ Newest' = {g}
  BY <1>1 DEF JoinsQueue, Comes, Previous, Newest, g
<1>6. f.id = om.frame_id /\ f.id \in Nat
  BY <1>1, <1>2, Alike
<1>7. \A h \in Held' : h.has # {}
  BY <1>2, <1>3, <1>5 DEF Held
<1>8. Follows(g, Previous)
  <2>1. CASE stream_open
    BY <1>1, <1>3, <2>1, FollowsOn
  <2>2. CASE Begins(g)
    BY <2>2 DEF Follows
  <2> QED  BY <1>4, <2>1, <2>2
<1>9. Covered(g)'
  <2>1. IsDue(s, f.id)
    BY <1>2, <1>6 DEF IsDue
  <2>2. Covered(f)
    BY <1>1, <2>1
  <2> QED  BY <1>3, <1>6, <2>2, CoverKept
<1> QED  BY <1>5, <1>7, <1>8, <1>9

(* A frame that comes next while the gate is open follows the newest one.  *)
LEMMA NextFollows ==
  ASSUME IInv, OrderInv, ChainOK, connected, stream_open, queued = {},
         NEW s \in Streams, NEW om, Comes(s, om), \A f \in inflight : f.idx < om.frame_idx
  PROVE  /\ \E p \in Previous : p.id + 1 = om.frame_id
         /\ \A t \in Streams \ {s} : IsDue(t, om.frame_id)
<1> USE DEF ChainOK, SlotsChained
<1>1. /\ om \in Due(s) /\ om \in AllDue /\ om.frame_id \in Nat
      /\ om.frame_id <= frames /\ frames \in Nat
  BY DueTypes, Alike, PipelineTypes DEF Comes, Contexts
<1>2. PICK p \in Previous : TRUE
  BY DEF IInv, SenderInv, HeadReady, Previous
<1>3. Covered(p) /\ p \in Held
  BY DEF Newest, Previous, Held
<1>4. p.idx < om.frame_idx
  <2>1. CASE p \in inflight
    BY <2>1
  <2>2. CASE p \in wire
    <3>1. s \in p.has
      BY <2>2 DEF OrderInv, SlotsInOrder, SentWhole, Complete
    <3> QED  BY <1>1, <1>3, <3>1, DueBehindHeld
  <2> QED  BY <2>1, <2>2 DEF Previous
<1>5. p.id < om.frame_id /\ p.id \in Nat
  BY <1>1, <1>3, <1>4, Alike
<1>6. PICK c \in Due(s) : c.frame_id = p.id + 1
  <2>1. p.id + 1 \in 0..frames /\ p.id < p.id + 1
    BY <1>1, <1>5
  <2> QED  BY <1>3, <2>1 DEF Covered, IsDue
<1>7. c = om
  <2> SUFFICES ASSUME c # om PROVE FALSE
    OBVIOUS
  <2>1. om.frame_idx < c.frame_idx /\ c \in AllDue
    BY DueTypes DEF Comes
  <2>2. om.frame_id < c.frame_id
    BY <1>1, <2>1, Alike
  <2> QED  BY <1>1, <1>5, <1>6, <2>2
<1>8. \A t \in Streams \ {s} : IsDue(t, om.frame_id)
  BY <1>1, <1>3, <1>5 DEF Covered
<1> QED  BY <1>6, <1>7, <1>8

LEMMA NextChain ==
  ASSUME IInv, OrderInv, ChainOK, connected, NEW s \in Streams, NEW om, Comes(s, om),
         NEW idr \in BOOLEAN, ComesNext(s, om, idr) \/ PushesOut(s, om, idr)
  PROVE  SlotsChained'
<1> USE DEF ChainOK, SlotsChained
<1> DEFINE n == WithSegment(NewFrame(om), s, om, idr)
<1>1. om \in Contexts
  BY DueTypes DEF Comes
<1>2. n.id = om.frame_id /\ n.idx = om.frame_idx /\ n.has = {s}
  BY <1>1, FirstSegment
<1>3. queued' = {n}
  BY DEF ComesNext, PushesOut
<1> HIDE DEF n
<1>4. /\ UNCHANGED <<inflight, wire>> /\ Previous' = Previous /\ Newest' = {n}
      /\ ~Complete(n)
  BY <1>2, <1>3 DEF ComesNext, PushesOut, Comes, Previous, Newest, Complete, Streams
<1>5. \A h \in Held' : h.has # {}
  BY <1>2, <1>3, <1>4 DEF Held
<1>6. ASSUME NEW r \in Streams \ n.has, IsDue(r, n.id)'
      PROVE  Covered(n)'
  <2>1. IsDue(r, om.frame_id)
    BY <1>2, <1>6 DEF IsDue, Comes
  <2>2. \A t \in Streams \ {s} : IsDue(t, om.frame_id)
    BY <1>2, <2>1 DEF Streams
  <2> QED  BY <1>2, <2>2, NewCovered
<1>7. ASSUME stream_open'
      PROVE  Follows(n, Previous) /\ Covered(n)'
  <2>1. stream_open /\ queued = {} /\ \A f \in inflight : f.idx < om.frame_idx
    BY <1>7 DEF ComesNext, PushesOut
  <2>2. /\ \E p \in Previous : p.id + 1 = om.frame_id
        /\ \A t \in Streams \ {s} : IsDue(t, om.frame_id)
    BY <2>1, NextFollows
  <2>3. Covered(n)'
    BY <1>2, <2>2, NewCovered
  <2> QED  BY <1>2, <2>2, <2>3 DEF Follows
<1> QED  BY <1>3, <1>4, <1>5, <1>6, <1>7

LEMMA RefusedChain ==
  ASSUME IInv, OrderInv, ChainOK, connected, NEW s \in Streams, NEW om, Comes(s, om),
         NEW idr \in BOOLEAN, IsRefused(s, om, idr)
  PROVE  SlotsChained'
BY DEF ChainOK, SlotsChained, IsRefused, Comes, Held

LEMMA SameChain ==
  ASSUME ChainOK, stream_open' <=> stream_open,
         UNCHANGED <<inflight, queued, wire, dropped, conn_epoch, cur_epoch, frame_idx, frames>>,
         \A t \in Streams : Due(t)' = Due(t)
  PROVE  ChainOK'
<1>1. Held' = Held /\ Previous' = Previous /\ Newest' = Newest /\ AllDue' = AllDue
  BY DEF Held, Previous, Newest, AllDue
<1>2. MarksAgree'
  BY <1>1 DEF ChainOK, MarksAgree, Marks, Mark
<1>3. DueToTheEnd' /\ DroppedBehind'
  BY DEF ChainOK, DueToTheEnd, DroppedBehind, IsDue
<1>4. \A f : Covered(f) => Covered(f)'
  BY DEF Covered, IsDue
<1>5. SlotsChained'
  BY <1>1, <1>4 DEF ChainOK, SlotsChained, IsDue
<1> QED  BY <1>2, <1>3, <1>5 DEF ChainOK

(* A connection on which nothing has come and nothing is due. *)
LEMMA EmptyChain ==
  ASSUME \A t \in Streams : Due(t)' = {}, Held' = {}, \A i \in 1..Len(dropped') : FALSE
  PROVE  ChainOK'
<1>1. /\ inflight' = {} /\ queued' = {} /\ wire' = {}
      /\ Newest' = {} /\ Marks' = {}
  BY DEF Held, Newest, Previous, Marks, AllDue
<1> QED  BY <1>1 DEF ChainOK, MarksAgree, DueToTheEnd, DroppedBehind, SlotsChained

(* A segment that comes keeps the chain (uplink_sender.cpp:76-160).        *)
LEMMA SegmentChain ==
  ASSUME IInv, OrderInv, ChainInv, connected, NEW s \in Streams, NEW o \in out[s],
         Submit(s, o.om, o.idr), out' = [out EXCEPT ![s] = {}],
         UNCHANGED <<meta, frames, frame_idx, cur_epoch, wire>>
  PROVE  ChainOK'
<1> DEFINE om == o.om
<1>1. om \in Contexts /\ o.idr \in BOOLEAN /\ NothingLost /\ ChainOK
  BY DEF IInv, EncodersOK, Outputs, ChainInv
<1>2. conn_epoch' = conn_epoch
  BY <1>1, SenderTells DEF IInv
<1>3. /\ \A t \in Streams : Due(t)' \subseteq Due(t) /\ (t # s => Due(t)' = Due(t))
      /\ \A c \in Due(s) : c = om \/ c \in Due(s)'
      /\ om.conn_epoch # conn_epoch => Due(s)' = Due(s)
      /\ om.conn_epoch = conn_epoch =>
           om \in Due(s) /\ \A c \in Due(s)' : om.frame_idx < c.frame_idx
  BY <1>1, <1>2, SubmitDue
<1>4. CASE om.conn_epoch # conn_epoch
  <2>1. UNCHANGED <<senderVars, evs>>
    BY <1>4 DEF Submit, Stale
  <2> QED  BY <1>1, <1>3, <1>4, <2>1, SameChain DEF senderVars
<1>5. CASE om.conn_epoch = conn_epoch
  <2>1. om \in Due(s)
    BY <1>3, <1>5
  <2>2. /\ UNCHANGED <<connected, conn_epoch>>
        /\ \/ Ignored(om) \/ JoinsFlight(s, om, o.idr) \/ JoinsQueue(s, om, o.idr)
           \/ IsRefused(s, om, o.idr) \/ ComesNext(s, om, o.idr) \/ PushesOut(s, om, o.idr)
    BY <1>1, <2>1, SegmentOutcome
  <2>3. Comes(s, om)
    BY <1>3, <1>5, <2>2 DEF Comes
  <2>4. SlotsChained'
    BY <1>1, <2>2, <2>3, IgnoredChain, FlightChain, QueueChain, RefusedChain, NextChain
  <2>5. DueToTheEnd'
    BY <1>1, <2>3, ComesKeepsDue DEF ChainOK
  <2>6. DroppedBehind'
    <3>1. dropped' = dropped \/ \E f \in queued : dropped' = Remember(dropped, f.idx)
      BY <2>2 DEF Ignored, JoinsFlight, JoinsQueue, IsRefused, ComesNext, PushesOut, Reports,
                  senderVars
    <3> QED  BY <1>1, <1>2, <1>3, <3>1, DroppedKept
  <2>7. ASSUME NEW g \in Held'
        PROVE  \/ \E f \in Held : g.id = f.id /\ g.idx = f.idx
               \/ \E c \in AllDue : g.id = c.frame_id /\ g.idx = c.frame_idx
    <3>1. wire' = wire /\ om \in AllDue /\ inflight \cup queued \subseteq Frames
      BY <2>1, DueTypes, PipelineTypes DEF Held
    <3>2. NewFrame(om) \in Frames
          /\ NewFrame(om).id = om.frame_id /\ NewFrame(om).idx = om.frame_idx
      BY <1>1, NewFields
    <3>3. \A f \in Frames : /\ WithSegment(f, s, om, o.idr).id = f.id
                            /\ WithSegment(f, s, om, o.idr).idx = f.idx
      BY <1>1, SegmentFields
    <3>4. \/ g \in Held
          \/ \E f \in inflight \cup queued : g = WithSegment(f, s, om, o.idr)
          \/ g = WithSegment(NewFrame(om), s, om, o.idr)
      BY <2>2, <3>1 DEF Ignored, JoinsFlight, JoinsQueue, IsRefused, ComesNext, PushesOut,
                        senderVars, Held
    <3>5. CASE \E f \in inflight \cup queued : g = WithSegment(f, s, om, o.idr)
      BY <3>1, <3>3, <3>5 DEF Held
    <3>6. CASE g = WithSegment(NewFrame(om), s, om, o.idr)
      BY <3>1, <3>2, <3>3, <3>6
    <3> QED  BY <3>4, <3>5, <3>6
  <2>8. MarksAgree'
    BY <1>1, <1>3, <2>7, MarksKept DEF ChainOK
  <2> QED  BY <2>4, <2>5, <2>6, <2>8 DEF ChainOK
<1> QED  BY <1>4, <1>5

(* The writer moves what is held, and sends what follows.                  *)
LEMMA ServedChain ==
  ASSUME IInv, OrderInv, ChainOK, connected, ServeQueue
  PROVE  /\ UNCHANGED <<dropped, evs>> /\ (stream_open' <=> stream_open)
         /\ \/ Flying = inflight /\ queued' = queued
            \/ \E f \in queued : /\ queued = {f} /\ inflight = {} /\ stream_open
                                 /\ Flying = {f} /\ queued' = {}
<1>1. Refused(queued) = {} /\ (Opened(queued) <=> stream_open)
  BY DEF ChainOK, SlotsChained, Refused, Opened
<1>2. /\ SlotOK(queued) /\ queued' = queued \ Launched
      /\ Launched = {f \in queued : inflight = {} /\ stream_open /\ "road" \in f.has}
  BY <1>1 DEF ServeQueue, Launched, IInv, SenderInv, SenderOK
<1>3. UNCHANGED <<dropped, evs>> /\ (stream_open' <=> stream_open)
  BY <1>1 DEF ServeQueue, ReportDropped
<1> QED  BY <1>2, <1>3 DEF Flying, SlotOK

LEMMA WriterChain ==
  ASSUME IInv, OrderInv, ChainOK, connected, StepBlocked \/ StepSent,
         UNCHANGED <<frames, frame_idx, cur_epoch, meta, out>>
  PROVE  ChainOK' /\ ChainKept
<1>1. ServeQueue /\ UNCHANGED <<connected, conn_epoch>>
  BY DEF StepBlocked, StepSent
<1>2. \A t \in Streams : Due(t)' = Due(t) /\ Waits(t)' = Waits(t)
  BY <1>1 DEF Due, Waits
<1>3. /\ UNCHANGED <<dropped, evs>> /\ (stream_open' <=> stream_open)
      /\ \/ Flying = inflight /\ queued' = queued
         \/ \E f \in queued : /\ queued = {f} /\ inflight = {} /\ stream_open
                              /\ Flying = {f} /\ queued' = {}
  BY <1>1, ServedChain
<1>4. /\ SlotOK(inflight) /\ SlotOK(queued)
      /\ \/ inflight' = Flying /\ wire' = wire
         \/ inflight' = {} /\ \E f \in Flying : Complete(f) /\ wire' = {f}
  BY DEF StepBlocked, StepSent, IInv, SenderInv, SenderOK
<1>5. /\ Held' \subseteq Held /\ Newest' = Newest
      /\ queued' = {} \/ (queued' = queued /\ Previous' = Previous)
  BY <1>3, <1>4 DEF Held, Newest, Previous, SlotOK
<1>6. \A f : Covered(f) => Covered(f)'
  BY <1>2 DEF Covered, IsDue
<1>7. \A f \in Flying : Follows(f, wire)
  BY <1>3 DEF ChainOK, SlotsChained, Previous
<1>8. SlotsChained'
  <2>1. \A f \in inflight' : Follows(f, wire')
    BY <1>4, <1>7
  <2>2. \A f \in queued' : \A s \in Streams \ f.has : IsDue(s, f.id)' => Covered(f)'
    BY <1>2, <1>5, <1>6 DEF ChainOK, SlotsChained, IsDue
  <2> QED  BY <1>3, <1>5, <1>6, <2>1, <2>2 DEF ChainOK, SlotsChained
<1>9. MarksAgree'
  <2>1. MarksAgree
    BY DEF ChainOK
  <2> QED  BY <1>2, <1>5, <2>1, MarksKept
<1>10. DueToTheEnd' /\ DroppedBehind'
  BY <1>1, <1>2, <1>3 DEF ChainOK, DueToTheEnd, DroppedBehind, IsDue
<1>11. ChainKept
  BY <1>4, <1>7 DEF ChainKept, Follows, Begins
<1> QED  BY <1>8, <1>9, <1>10, <1>11 DEF ChainOK

(* A new connection has none of the segments of the old ones. *)
LEMMA ConnectChain ==
  ASSUME IInv, OrderInv, Connect, UNCHANGED <<meta, out>>
  PROVE  ChainOK'
<1>1. Held' = {} /\ \A i \in 1..Len(dropped') : FALSE
  <2>1. Held' = {}
    BY WriterOrder DEF IInv, OrderInv
  <2>2. dropped' = <<>> /\ Len(<<>>) = 0
    BY DEF Connect
  <2> QED  BY <2>1, <2>2
<1>2. ASSUME NEW t \in Streams, NEW c \in Waits(t) \cup {o.om : o \in out[t]}
      PROVE  c.conn_epoch # conn_epoch + 1
  <2>1. c.conn_epoch \in Nat /\ cur_epoch \in Nat /\ conn_epoch \in Nat /\ cur_epoch <= conn_epoch
    BY PipelineTypes DEF Contexts, OrderInv, EventsOrdered
  <2>2. c.conn_epoch <= cur_epoch
    BY <2>1 DEF OrderInv, PipelineOrdered, ContextsOrdered
  <2> QED  BY <2>1, <2>2
<1>3. \A t \in Streams : Due(t)' = {}
  BY <1>2 DEF Due, Waits, Connect
<1> QED  BY <1>1, <1>3, EmptyChain

(* While the capture threads are behind, the connection is unused.         *)
LEMMA UnusedConnection ==
  ASSUME IInv, OrderInv, ChainOK, connected, cur_epoch # conn_epoch
  PROVE  /\ Held = {} /\ \A i \in 1..Len(dropped) : FALSE
         /\ \A t \in Streams : \A o \in out[t] : o.om.conn_epoch # conn_epoch
<1>1. Held = {} /\ \A i \in 1..Len(dropped) : FALSE
  BY DEF OrderInv, PipelineOrdered, SegmentsAhead, ChainOK, DroppedBehind
<1>2. cur_epoch < conn_epoch /\ cur_epoch \in Nat /\ conn_epoch \in Nat
  BY PipelineTypes DEF OrderInv, EventsOrdered
<1>3. ASSUME NEW t \in Streams, NEW o \in out[t]
      PROVE  o.om.conn_epoch # conn_epoch
  <2>1. o.om.conn_epoch \in Nat /\ o.om.conn_epoch <= cur_epoch
    BY PipelineTypes DEF Contexts, OrderInv, PipelineOrdered, ContextsOrdered
  <2> QED  BY <1>2, <2>1
<1> QED  BY <1>1, <1>3

LEMMA NewConnectionChain ==
  ASSUME IInv, OrderInv, ChainOK, connected, DrainEvent, DrainNewConnection(Head(batch))
  PROVE  ChainOK'
<1>1. UNCHANGED <<out, conn_epoch, dropped, Held>>
  BY DEF DrainEvent, senderVars, Held
<1>2. cur_epoch # conn_epoch
  <2>1. cur_epoch < cur_epoch' /\ cur_epoch' <= conn_epoch
    BY DrainEvents DEF OrderInv
  <2>2. cur_epoch \in Nat /\ cur_epoch' \in Nat /\ conn_epoch \in Nat
    BY PipelineTypes, DrainEventInv DEF IInv, CaptureOK
  <2> QED  BY <2>1, <2>2
<1>3. \A s \in Streams : Len(meta'[s].q) = 0 /\ Waits(s)' = {}
  BY DEF DrainNewConnection, MetaClear, EmptyMeta, Waits
<1>4. \A t \in Streams : Due(t)' = {}
  BY <1>1, <1>2, <1>3, UnusedConnection DEF Due
<1> QED  BY <1>1, <1>2, <1>4, UnusedConnection, EmptyChain

-----------------------------------------------------------------------------
(* New contexts, and outputs                                               *)

(* The context of a new pair waits for both encoders. *)
LEMMA EncodedContext ==
  ASSUME IInv, EncodePair
  PROVE  \E om \in Contexts :
           /\ om.frame_id = frames + 1 /\ om.conn_epoch = cur_epoch /\ om.pred = PredictedIdr
           /\ frame_idx <= om.frame_idx /\ om.frame_idx < frame_idx'
           /\ \A t \in Streams : /\ Waits(t)' = Waits(t) \cup {om}
                                 /\ Len(meta'[t].q) = Len(meta[t].q) + 1
<1>1. PICK skip \in 0..MaxSkip :
        /\ frame_idx' = frame_idx + skip + 1
        /\ meta' = [s \in Streams |-> MetaPush(meta[s], Context(frame_idx + skip))]
  BY DEF EncodePair
<1>2. skip \in Nat /\ frame_idx \in Nat /\ frames \in Nat /\ cur_epoch \in Nat
  BY PipelineTypes, BigmodeldConstants
<1> DEFINE om == Context(frame_idx + skip)
<1>3. /\ om \in Contexts /\ om.frame_id = frames + 1 /\ om.conn_epoch = cur_epoch
      /\ om.pred = PredictedIdr /\ om.frame_idx = frame_idx + skip
  BY <1>2 DEF Context, Contexts, PredictedIdr
<1> HIDE DEF om
<1>4. frame_idx <= om.frame_idx /\ om.frame_idx < frame_idx'
  BY <1>1, <1>2, <1>3
<1>5. ASSUME NEW t \in Streams
      PROVE  Waits(t)' = Waits(t) \cup {om} /\ Len(meta'[t].q) = Len(meta[t].q) + 1
  <2>1. meta'[t].q = Append(meta[t].q, om)
    BY <1>1, <1>5 DEF MetaPush, om
  <2>2. meta[t].q \in Seq(Contexts) /\ Len(meta[t].q) \in Nat
    BY PipelineTypes
  <2>3. /\ Len(meta'[t].q) = Len(meta[t].q) + 1
        /\ \A i \in 1..Len(meta[t].q) : meta'[t].q[i] = meta[t].q[i]
        /\ meta'[t].q[Len(meta[t].q) + 1] = om
    BY <1>3, <2>1, <2>2, AppendProperties
  <2>4. \A i \in 1..Len(meta'[t].q) : i \in 1..Len(meta[t].q) \/ i = Len(meta[t].q) + 1
    BY <2>2, <2>3
  <2>5. /\ \A i \in 1..Len(meta[t].q) : i \in 1..Len(meta'[t].q)
        /\ Len(meta[t].q) + 1 \in 1..Len(meta'[t].q)
    BY <2>2, <2>3
  <2>6. Waits(t)' \subseteq Waits(t) \cup {om}
    BY <2>3, <2>4 DEF Waits
  <2>7. Waits(t) \cup {om} \subseteq Waits(t)'
    BY <2>3, <2>5 DEF Waits
  <2> QED  BY <2>3, <2>6, <2>7
<1> QED  BY <1>3, <1>4, <1>5

LEMMA EncodeChain ==
  ASSUME IInv, OrderInv, ChainOK, connected, EncodePair
  PROVE  ChainOK'
<1>1. PICK om \in Contexts :
        /\ om.frame_id = frames + 1 /\ om.conn_epoch = cur_epoch
        /\ frame_idx <= om.frame_idx /\ om.frame_idx < frame_idx'
        /\ \A t \in Streams : Waits(t)' = Waits(t) \cup {om}
  BY EncodedContext
<1>2. /\ UNCHANGED <<out, connected, stream_open, conn_epoch, cur_epoch, inflight, queued, wire>>
      /\ UNCHANGED <<dropped, Held, Newest, Previous>>
      /\ frames' = frames + 1
  BY DEF EncodePair, senderVars, Held, Newest, Previous
<1>3. /\ frames \in Nat /\ frame_idx \in Nat /\ frame_idx' \in Nat /\ om.frame_idx \in Nat
      /\ Held \subseteq Frames
  BY PipelineTypes, EncodePairInv DEF Contexts, IInv, CaptureOK
<1>4. CASE cur_epoch # conn_epoch
  <2>1. \A t \in Streams : Due(t)' = {}
    <3>1. ASSUME NEW t \in Streams, NEW c \in Waits(t)
          PROVE  c.conn_epoch # conn_epoch
      BY <1>4 DEF OrderInv, PipelineOrdered, ContextsOrdered
    <3> QED  BY <1>1, <1>2, <1>4, <3>1, UnusedConnection DEF Due
  <2> QED  BY <1>2, <1>4, <2>1, UnusedConnection, EmptyChain
<1>5. CASE cur_epoch = conn_epoch
  <2>1. \A t \in Streams : Due(t)' = Due(t) \cup {om}
    BY <1>1, <1>2, <1>5 DEF Due
  <2>2. \A t \in Streams : \A c \in Due(t) :
          /\ c.frame_id \in Nat /\ c.frame_id <= frames
          /\ c.frame_idx \in Nat /\ c.frame_idx < frame_idx
    BY DueTypes, Alike DEF ChainOK, Contexts
  <2>3. \A f \in Held : f.id \in Nat /\ f.id <= frames /\ f.idx \in Nat /\ f.idx < frame_idx
    BY Alike, <1>3 DEF ChainOK, OrderInv, PipelineOrdered, SegmentsAhead, Frames
  <2>4. MarksAgree'
    <3> DEFINE new == Mark(om.frame_id, om.frame_idx)
    <3>1. Marks' \subseteq Marks \cup {new}
      BY <1>2, <2>1 DEF Marks, AllDue, Mark
    <3>2. \A m \in Marks : m.id \in Nat /\ m.id <= frames /\ m.idx \in Nat /\ m.idx < frame_idx
      BY <2>2, <2>3 DEF Marks, AllDue, Mark
    <3>3. new.id = frames + 1 /\ new.idx = om.frame_idx
      BY <1>1 DEF Mark
    <3> HIDE DEF new
    <3>4. ASSUME NEW m \in Marks \cup {new}, NEW n \in Marks \cup {new}
          PROVE  m.id <= frames + 1 /\ (m.id < n.id <=> m.idx < n.idx)
      <4>1. CASE m \in Marks /\ n \in Marks
        BY <1>3, <3>2, <4>1 DEF ChainOK, MarksAgree
      <4>2. CASE m = new /\ n \in Marks
        BY <1>1, <1>3, <3>2, <3>3, <4>2
      <4>3. CASE m \in Marks /\ n = new
        BY <1>1, <1>3, <3>2, <3>3, <4>3
      <4>4. CASE m = new /\ n = new
        BY <1>1, <1>3, <3>3, <4>4
      <4> QED  BY <4>1, <4>2, <4>3, <4>4
    <3> QED  BY <1>2, <3>1, <3>4 DEF MarksAgree
  <2>5. DueToTheEnd'
    <3> SUFFICES ASSUME NEW t \in Streams, NEW c \in Due(t)', NEW k \in c.frame_id..(frames + 1)
                 PROVE  \E d \in Due(t)' : d.frame_id = k
      BY <1>2 DEF DueToTheEnd, IsDue
    <3>1. CASE k = frames + 1
      BY <1>1, <2>1, <3>1
    <3>2. CASE k # frames + 1
      <4>1. c \in Due(t) /\ k \in c.frame_id..frames
        BY <1>1, <1>3, <2>1, <2>2, <3>2
      <4> QED  BY <2>1, <4>1 DEF ChainOK, DueToTheEnd, IsDue
    <3> QED  BY <3>1, <3>2
  <2>6. DroppedBehind'
    <3>1. \A i \in 1..Len(dropped) : dropped[i] \in Nat /\ dropped[i] < frame_idx
      BY ElementOfSeq DEF ChainOK, DroppedBehind, IInv, SenderInv, SenderOK
    <3>2. \A i \in 1..Len(dropped) : dropped[i] < frame_idx' /\ dropped[i] # om.frame_idx
      BY <1>1, <1>3, <3>1
    <3>3. ~Contains(dropped, om.frame_idx)
      BY <3>2 DEF Contains
    <3>4. ASSUME NEW s \in Streams, NEW t \in Streams, NEW c \in Due(s)', NEW d \in Due(t)',
                 s # t, c.frame_id = d.frame_id
          PROVE  ~Contains(dropped, c.frame_idx)
      <4>1. CASE c = om
        BY <3>3, <4>1
      <4>2. CASE c \in Due(s)
        <5>1. d # om
          BY <1>1, <1>3, <2>2, <3>4, <4>2
        <5> QED  BY <2>1, <3>4, <4>2, <5>1 DEF ChainOK, DroppedBehind
      <4> QED  BY <2>1, <4>1, <4>2
    <3> QED  BY <1>2, <1>5, <3>2, <3>4 DEF DroppedBehind
  <2>7. ASSUME NEW f, Covered(f)
        PROVE  Covered(f)'
    <3> SUFFICES ASSUME NEW s \in Streams, NEW k \in 0..(frames + 1),
                        f.id < k \/ (f.id = k /\ s \notin f.has)
                 PROVE  \E c \in Due(s)' : c.frame_id = k
      BY <1>2 DEF Covered, IsDue
    <3>1. CASE k = frames + 1
      BY <1>1, <2>1, <3>1
    <3>2. CASE k # frames + 1
      <4>1. k \in 0..frames
        BY <1>3, <3>2
      <4> QED  BY <2>1, <2>7, <4>1 DEF Covered, IsDue
    <3> QED  BY <3>1, <3>2
  <2>8. ASSUME NEW f \in queued, NEW s \in Streams \ f.has, IsDue(s, f.id)'
        PROVE  Covered(f)'
    <3>1. f.id # om.frame_id
      <4>1. f \in Held
        BY DEF Held
      <4> QED  BY <1>1, <1>3, <2>3, <4>1
    <3>2. IsDue(s, f.id)
      BY <2>1, <2>8, <3>1 DEF IsDue
    <3> QED  BY <2>7, <3>2 DEF ChainOK, SlotsChained
  <2>9. SlotsChained'
    BY <1>2, <2>7, <2>8 DEF ChainOK, SlotsChained
  <2> QED  BY <2>4, <2>5, <2>6, <2>9 DEF ChainOK
<1> QED  BY <1>4, <1>5

(* An encoder that loses nothing has one output for each pair. *)
LEMMA EncodeLoses ==
  ASSUME IInv, NothingLost, EncodePair
  PROVE  NothingLost'
<1>1. PICK om \in Contexts : \A t \in Streams : Len(meta'[t].q) = Len(meta[t].q) + 1
  BY EncodedContext
<1>2. /\ UNCHANGED out /\ frames' = frames + 1 /\ frames \in Nat
      /\ enc' = [s \in Streams |-> Append(enc[s], [id |-> frames + 1, idr |-> s \in EncodedIdr])]
  BY PipelineTypes DEF EncodePair
<1>3. ASSUME NEW s \in Streams
      PROVE  /\ Len(meta'[s].q) <= Len(enc'[s])
             /\ \A i \in 1..Len(enc'[s]) : enc'[s][i].id + Len(enc'[s]) = frames + 1 + i
  <2> DEFINE e == [id |-> frames + 1, idr |-> s \in EncodedIdr]
  <2>1. e \in Encoded /\ e.id = frames + 1 /\ enc'[s] = Append(enc[s], e)
    BY <1>2 DEF Encoded
  <2> HIDE DEF e
  <2>2. /\ enc[s] \in Seq(Encoded) /\ Len(enc[s]) \in Nat
        /\ \A i \in 1..Len(enc[s]) : enc[s][i] \in Encoded
    BY LenProperties, ElementOfSeq DEF IInv, EncodersOK, Encoded
  <2>3. /\ Len(enc'[s]) = Len(enc[s]) + 1
        /\ \A i \in 1..Len(enc[s]) : enc'[s][i] = enc[s][i]
        /\ enc'[s][Len(enc[s]) + 1] = e
    BY <2>1, <2>2, AppendProperties
  <2>4. Len(meta[s].q) \in Nat /\ Len(meta[s].q) <= Len(enc[s])
    BY PipelineTypes DEF NothingLost
  <2>5. ASSUME NEW i \in 1..Len(enc'[s])
        PROVE  enc'[s][i].id + Len(enc'[s]) = frames + 1 + i
    <3>1. CASE i \in 1..Len(enc[s])
      <4> DEFINE a == enc[s][i].id
                 l == Len(enc[s])
                 k == Len(enc'[s])
      <4>1. a + l = frames + i /\ a \in Nat
        BY <2>2, <3>1 DEF NothingLost, Encoded
      <4>2. enc'[s][i].id = a /\ l \in Nat /\ k = l + 1 /\ i \in Nat
        BY <2>2, <2>3, <3>1
      <4> HIDE DEF a, l
      <4>3. a + k = frames + 1 + i
        <5> HIDE DEF k
        <5> QED  BY <1>2, <4>1, <4>2
      <4> QED  BY <4>2, <4>3
    <3>2. CASE i = Len(enc[s]) + 1
      <4>1. enc'[s][i].id = frames + 1
        BY <2>1, <2>3, <3>2
      <4> QED  BY <1>2, <2>2, <2>3, <3>2, <4>1
    <3> QED  BY <2>2, <2>3, <3>1, <3>2
  <2> QED  BY <1>1, <2>2, <2>3, <2>4, <2>5
<1> QED  BY <1>2, <1>3 DEF NothingLost

LEMMA LosesNothing ==
  ASSUME NothingLost, UNCHANGED <<enc, meta, frames>>, \A t \in Streams : out'[t] \subseteq out[t]
  PROVE  NothingLost'
BY DEF NothingLost

(* An output takes the first context that waits, or comes after its         *)
(* connection has ended and finds none (meta_cache.h:58-80).               *)
LEMMA TakesFirst ==
  ASSUME IInv, PredictInv, NothingLost, NEW s \in Streams, enc[s] # <<>>
  PROVE  /\ TakeResult(meta[s], Head(enc[s]).id) = "kHit" =>
              Hit(meta[s], Head(enc[s]).id) = 1 /\ 1 \in 1..Len(meta[s].q)
         /\ TakeResult(meta[s], Head(enc[s]).id) # "kHit" => Len(meta[s].q) < Len(enc[s])
<1> DEFINE id == Head(enc[s]).id
           q  == meta[s].q
           n  == Len(q)
           m  == Len(enc[s])
<1>1. /\ meta[s] \in Caches /\ n \in Nat /\ m \in Nat /\ frames \in Nat
      /\ \A i \in 1..n : q[i].frame_id \in Nat
  BY PipelineTypes, LenProperties DEF Contexts, IInv, EncodersOK
<1>2. 1 \in 1..m /\ id = enc[s][1].id /\ id \in Nat
  BY TailOf DEF Encoded
<1>3. id + m = frames + 1 /\ n <= m
  BY <1>2 DEF NothingLost
<1>4. \A i \in 1..n : q[i].frame_id + n = frames + i
  BY DEF PredictInv, FramesNumbered
<1>5. Positions(meta[s], id) = {i \in 1..n : q[i].frame_id = id}
  BY <1>1 DEF Positions, Caches
<1>6. TakeResult(meta[s], id) = "kHit" => Hit(meta[s], id) \in Positions(meta[s], id)
  BY <1>1, <1>2, HitPosition
<1>7. TakeResult(meta[s], id) # "kHit" => Positions(meta[s], id) = {}
  BY DEF TakeResult
<1> HIDE DEF id, q, n, m
<1>8. \A i \in 1..n : q[i].frame_id = id => i = 1
  <2> TAKE i \in 1..n
  <2>1. q[i].frame_id + n = frames + i /\ q[i].frame_id \in Nat
    BY <1>1, <1>4
  <2> QED  BY <1>1, <1>2, <1>3, <2>1
<1>9. ASSUME n = m
      PROVE  Positions(meta[s], id) # {}
  <2>1. 1 \in 1..n
    BY <1>2, <1>9
  <2>2. q[1].frame_id + n = frames + 1 /\ q[1].frame_id \in Nat
    BY <1>1, <1>4, <2>1
  <2>3. q[1].frame_id = id
    BY <1>1, <1>2, <1>3, <1>9, <2>2
  <2> QED  BY <1>5, <2>1, <2>3
<1>10. TakeResult(meta[s], id) = "kHit" => Hit(meta[s], id) = 1 /\ 1 \in 1..n
  BY <1>5, <1>6, <1>8
<1>11. TakeResult(meta[s], id) # "kHit" => n < m
  BY <1>1, <1>3, <1>7, <1>9
<1> QED  BY <1>10, <1>11 DEF id, q, n, m

LEMMA TakeChain ==
  ASSUME IInv, OrderInv, PredictInv, NothingLost, NEW s \in Streams, TakeContext(s), Lossless
  PROVE  NothingLost' /\ \A t \in Streams : Due(t)' = Due(t)
<1> DEFINE e == Head(enc[s])
<1>0. /\ frames' = frames /\ conn_epoch' = conn_epoch /\ frames \in Nat
      /\ Len(enc[s]) \in Nat /\ Len(meta[s].q) \in Nat /\ Len(meta[s].q) <= Len(enc[s])
  BY PipelineTypes, LenProperties DEF TakeContext, senderVars, captureVars, IInv, EncodersOK,
     NothingLost
<1>1. /\ out[s] = {} /\ enc[s] # <<>>
      /\ enc' = [enc EXCEPT ![s] = Tail(@)]
      /\ meta' = [meta EXCEPT ![s] = AfterTake(@, e.id)]
  BY DEF TakeContext
<1>2. PICK large \in BOOLEAN : out' = [out EXCEPT ![s] = Output(s, e, large)]
  BY BigmodeldConstants DEF TakeContext
<1>3. /\ e.id \in Nat /\ meta[s] \in Caches /\ meta[s].q \in Seq(Contexts)
      /\ enc[s] \in Seq(Encoded)
  BY <1>1, TailOf, PipelineTypes DEF Encoded, IInv, EncodersOK
<1>4. /\ TakeResult(meta[s], e.id) = "kHit" =>
           Hit(meta[s], e.id) = 1 /\ 1 \in 1..Len(meta[s].q)
      /\ TakeResult(meta[s], e.id) # "kHit" => Len(meta[s].q) < Len(enc[s])
  BY <1>1, TakesFirst
<1>5. /\ enc'[s] = Tail(enc[s]) /\ meta'[s] = AfterTake(meta[s], e.id)
      /\ out'[s] = Output(s, e, large)
      /\ \A t \in Streams \ {s} : enc'[t] = enc[t] /\ meta'[t] = meta[t] /\ out'[t] = out[t]
  BY <1>1, <1>2 DEF IInv, EncodersOK
<1> HIDE DEF e
<1>6. Len(enc'[s]) = Len(enc[s]) - 1
  BY <1>0, <1>1, <1>3, <1>5, HeadTailProperties
<1>7. ASSUME NEW i \in 1..Len(enc'[s])
      PROVE  enc'[s][i].id + Len(enc'[s]) = frames + i
  <2>1. i + 1 \in 1..Len(enc[s]) /\ enc'[s][i] = enc[s][i + 1]
    BY <1>1, <1>5, TailOf
  <2> DEFINE a == enc[s][i + 1].id
             l == Len(enc[s])
             k == Len(enc'[s])
  <2>2. a \in Nat
    <3>1. \A j \in 1..Len(enc[s]) : enc[s][j] \in Encoded
      BY <1>3, ElementOfSeq
    <3> QED  BY <2>1, <3>1 DEF Encoded
  <2>3. a + l = frames + (i + 1)
    BY <2>1 DEF NothingLost
  <2>4. enc'[s][i].id = a /\ l \in Nat /\ k = l - 1 /\ i \in Nat
    BY <1>0, <1>6, <2>1
  <2> HIDE DEF a, l
  <2> HIDE DEF k
  <2>5. a + k = frames + i
    BY <1>0, <2>2, <2>3, <2>4
  <2>6. enc'[s][i].id = a
    BY <2>4
  <2> QED  BY <2>5, <2>6, Zenon DEF k
<1>8. CASE TakeResult(meta[s], e.id) # "kHit"
  <2>1. out'[s] = {} /\ meta'[s] = meta[s]
    BY <1>5, <1>8 DEF Output, AfterTake
  <2>2. Len(meta'[s].q) <= Len(enc'[s])
    BY <1>0, <1>4, <1>6, <1>8, <2>1
  <2>3. \A t \in Streams : out'[t] = out[t] /\ Waits(t)' = Waits(t)
    <3>1. \A t \in Streams : out'[t] = out[t] /\ meta'[t] = meta[t]
      BY <1>1, <1>5, <2>1
    <3> QED  BY <3>1 DEF Waits
  <2>4. ASSUME NEW t \in Streams
        PROVE  Due(t)' = Due(t)
    <3>1. out'[t] = out[t] /\ Waits(t)' = Waits(t)
      BY <2>3
    <3> QED  BY <1>0, <3>1 DEF Due
  <2>5. \A t \in Streams \ {s} : enc'[t] = enc[t] /\ meta'[t] = meta[t]
    BY <1>5
  <2>6. NothingLost'
    BY <1>0, <1>7, <2>2, <2>3, <2>5 DEF NothingLost
  <2> QED  BY <2>4, <2>6
<1>9. CASE TakeResult(meta[s], e.id) = "kHit"
  <2>1. Hit(meta[s], e.id) = 1 /\ 1 \in 1..Len(meta[s].q)
    BY <1>4, <1>9
  <2>2. DeadBefore(meta[s], e.id) = <<>>
    BY <2>1, SubSeqEmpty DEF DeadBefore
  <2>3. Taken(meta[s], e.id) = meta[s].q[1]
    BY <2>1 DEF Taken
  <2> DEFINE om == meta[s].q[1]
             gaps == IF large THEN <<GapEvent(om.frame_idx)>> ELSE <<>>
             o == [om |-> om, idr |-> e.idr, submit |-> ~large, gate |-> FALSE,
                   gaps |-> <<>> \o gaps]
  <2>4. out'[s] = {o}
    BY <1>5, <1>9, <2>2, <2>3 DEF Output
  <2>5. o.om = om /\ o.submit = ~large /\ o.gaps = <<>> \o gaps
    OBVIOUS
  <2>6. ~large /\ o.submit
    BY <2>4, <2>5 DEF Lossless
  <2>7. o.gaps = <<>>
    <3>1. gaps = <<>>
      BY <2>6
    <3> QED  BY <2>5, <3>1
  <2>8. /\ Len(meta'[s].q) = Len(meta[s].q) - 1
        /\ \A i \in 1..Len(meta'[s].q) :
             i + 1 \in 1..Len(meta[s].q) /\ meta'[s].q[i] = meta[s].q[i + 1]
    <3>1. meta'[s].q = SubSeq(meta[s].q, 2, Len(meta[s].q))
      BY <1>3, <1>5, <1>9, <2>1 DEF AfterTake, Caches
    <3>2. \A i \in 2..Len(meta[s].q) : meta[s].q[i] \in Contexts
      BY <1>3, ElementOfSeq
    <3>3. /\ Len(meta'[s].q) = Len(meta[s].q) - 1
          /\ \A i \in 1..Len(meta'[s].q) : meta'[s].q[i] = meta[s].q[i + 1]
      BY <1>0, <1>3, <2>1, <3>1, <3>2, SubSeqProperties
    <3> QED  BY <1>0, <2>1, <3>3
  <2> HIDE DEF om, o
  <2>9. Waits(s) = Waits(s)' \cup {om}
    <3>1. \A i \in 1..Len(meta'[s].q) : meta'[s].q[i] \in Waits(s)
      BY <2>8 DEF Waits
    <3>2. om \in Waits(s)
      BY <2>1 DEF Waits, om
    <3>3. ASSUME NEW i \in 1..Len(meta[s].q)
          PROVE  meta[s].q[i] \in Waits(s)' \cup {om}
      <4>1. CASE i = 1
        BY <4>1 DEF om
      <4>2. CASE i # 1
        <5>1. i - 1 \in 1..Len(meta'[s].q) /\ (i - 1) + 1 = i
          BY <1>0, <2>1, <2>8, <4>2
        <5>2. meta'[s].q[i - 1] = meta[s].q[i]
          BY <2>8, <5>1
        <5> QED  BY <5>1, <5>2 DEF Waits
      <4> QED  BY <4>1, <4>2
    <3> QED  BY <3>1, <3>2, <3>3 DEF Waits
  <2>10. Due(s)' = Due(s)
    BY <1>0, <1>1, <2>4, <2>5, <2>9 DEF Due
  <2>11. \A t \in Streams \ {s} : Due(t)' = Due(t)
    BY <1>0, <1>5 DEF Due, Waits
  <2>12. Len(meta'[s].q) <= Len(enc'[s])
    <3>1. Len(meta'[s].q) = Len(meta[s].q) - 1
      BY <2>8
    <3> QED  BY <1>0, <1>6, <3>1
  <2>13. NothingLost'
    <3>1. \A t \in Streams \ {s} : enc'[t] = enc[t] /\ meta'[t] = meta[t] /\ out'[t] = out[t]
      BY <1>5
    <3>2. \A p, r \in out'[s] : p = r /\ p.gaps = <<>> /\ p.submit
      BY <2>4, <2>6, <2>7
    <3> SUFFICES ASSUME NEW t \in Streams
                 PROVE  /\ \A p, r \in out'[t] : p = r
                        /\ \A p \in out'[t] : p.gaps = <<>> /\ p.submit
                        /\ \A i \in 1..Len(enc'[t]) :
                             enc'[t][i].id + Len(enc'[t]) = frames + i
                        /\ Len(meta'[t].q) <= Len(enc'[t])
      BY <1>0 DEF NothingLost
    <3>3. CASE t = s
      BY <1>7, <2>12, <3>2, <3>3
    <3>4. CASE t # s
      BY <3>1, <3>4 DEF NothingLost
    <3> QED  BY <3>3, <3>4
  <2> QED  BY <2>10, <2>11, <2>13
<1> QED  BY <1>8, <1>9

-----------------------------------------------------------------------------
(* The chain in every state                                                *)

(* The bounds of the two kinds of behaviours only leave steps out. *)
LEMMA KindsAreBehaviours == MCSpec => Spec
<1>1. MCInit => Init
  BY DEF MCInit
<1>2. [MCNext]_<<vars, lossy>> => [Next]_vars
  BY DEF MCNext, Next
<1> QED  BY <1>1, <1>2, PTL DEF MCSpec, Spec

LEMMA InitChain == Init => ChainInv
<1> SUFFICES ASSUME Init PROVE ChainInv
  OBVIOUS
<1>1. \A s \in Streams : out[s] = {} /\ Len(enc[s]) = 0 /\ Len(meta[s].q) = 0
  BY DEF Init, EmptyMeta
<1> QED  BY <1>1 DEF Init, SenderInit, ChainInv, NothingLost

LEMMA CaptureChain ==
  ASSUME IInv, OrderInv, ChainInv, Capture
  PROVE  ChainInv'
<1>1. NothingLost /\ (connected => ChainOK)
  BY DEF ChainInv
<1>2. UNCHANGED <<connected, out>>
  BY DEF Capture, PlaceFrame, DrainEvent, EncodePair, NoPair, senderVars
<1>3. ASSUME UNCHANGED <<inflight, queued, wire, dropped, stream_open, conn_epoch, cur_epoch>>,
             UNCHANGED <<frame_idx, frames, meta, enc>>
      PROVE  ChainInv'
  <2>1. \A t \in Streams : Due(t)' = Due(t)
    BY <1>2, <1>3 DEF Due, Waits
  <2>2. NothingLost'
    BY <1>1, <1>2, <1>3, LosesNothing
  <2> QED  BY <1>1, <1>2, <1>3, <2>1, <2>2, SameChain DEF ChainInv
<1>4. CASE PlaceFrame \/ NoPair
  BY <1>3, <1>4 DEF PlaceFrame, NoPair, senderVars, encoderVars
<1>5. CASE DrainEvent
  <2>1. CASE DrainDrop(Head(batch))
    BY <1>3, <1>5, <2>1 DEF DrainEvent, DrainDrop, senderVars, encoderVars
  <2>2. CASE DrainNewConnection(Head(batch))
    <3>1. \A s \in Streams : Len(meta'[s].q) = 0
      BY <2>2 DEF DrainNewConnection, MetaClear, EmptyMeta
    <3>2. \A s \in Streams : Len(enc[s]) \in Nat
      BY LenProperties DEF IInv, EncodersOK
    <3>3. UNCHANGED <<enc, frames>>
      BY <1>5 DEF DrainEvent, encoderVars
    <3>4. NothingLost'
      BY <1>1, <1>2, <3>1, <3>2, <3>3 DEF NothingLost
    <3> QED  BY <1>1, <1>2, <1>5, <2>2, <3>4, NewConnectionChain DEF ChainInv
  <2> QED  BY <1>5, <2>1, <2>2 DEF DrainEvent
<1>6. CASE EncodePair
  BY <1>1, <1>2, <1>6, EncodeChain, EncodeLoses DEF ChainInv
<1> QED  BY <1>4, <1>5, <1>6 DEF Capture

LEMMA SenderChain ==
  ASSUME IInv, OrderInv, ChainInv, Writer \/ Reply
  PROVE  ChainInv' /\ ChainKept
<1>1. NothingLost /\ (connected => ChainOK)
  BY DEF ChainInv
<1>2. UNCHANGED <<meta, enc, out, frames, frame_idx, cur_epoch>>
  BY DEF Writer, Reply, captureVars, encoderVars
<1>3. NothingLost'
  BY <1>1, <1>2, LosesNothing
<1>4. CASE StepBlocked \/ StepSent
  BY <1>1, <1>2, <1>3, <1>4, WriterChain DEF ChainInv, StepBlocked, StepSent
<1>5. CASE StepError \/ NotifyDisconnect
  BY <1>3, <1>5 DEF ChainInv, ChainKept, StepError, NotifyDisconnect, DropConnection
<1>6. CASE StepStall
  <2>1. ~connected' /\ connected
    BY <1>6 DEF StepStall, DropConnection
  <2>2. \A f \in wire' : f \in wire \/ f \in inflight
    BY <1>6 DEF StepStall
  <2>3. ChainKept
    BY <1>1, <2>1, <2>2 DEF ChainKept, ChainOK, SlotsChained, Follows, Begins
  <2> QED  BY <1>3, <2>1, <2>3 DEF ChainInv
<1>7. CASE Connect
  BY <1>2, <1>3, <1>7, ConnectChain DEF ChainInv, ChainKept, Connect
<1> QED  BY <1>4, <1>5, <1>6, <1>7 DEF Writer, Reply

LEMMA CallbackChain ==
  ASSUME IInv, OrderInv, PredictInv, ChainInv, NEW s \in Streams, Callback(s), Lossless
  PROVE  ChainInv' /\ wire' = wire
<1>1. NothingLost /\ (connected => ChainOK)
  BY DEF ChainInv
<1>2. wire' = wire
  BY DEF Callback, TakeContext, CloseGate, ReportGap, SubmitSegment
<1>3. ~CloseGate(s) /\ ~ReportGap(s)
  BY <1>1 DEF CloseGate, ReportGap, NothingLost
<1>4. CASE TakeContext(s)
  <2>1. NothingLost' /\ \A t \in Streams : Due(t)' = Due(t)
    BY <1>1, <1>4, TakeChain
  <2>2. /\ UNCHANGED <<inflight, queued, dropped, conn_epoch, cur_epoch, frame_idx, frames>>
        /\ UNCHANGED <<connected, stream_open>>
    BY <1>4 DEF TakeContext, senderVars, captureVars
  <2> QED  BY <1>1, <1>2, <2>1, <2>2, SameChain DEF ChainInv
<1>5. CASE SubmitSegment(s)
  <2>1. PICK o \in out[s] : Submit(s, o.om, o.idr) /\ out' = [out EXCEPT ![s] = {}]
    BY <1>5 DEF SubmitSegment
  <2>2. UNCHANGED <<meta, enc, frames, frame_idx, cur_epoch, wire>>
    BY <1>5 DEF SubmitSegment, captureVars, encoderVars
  <2>3. connected' = connected
    <3>1. o.om \in Contexts /\ o.idr \in BOOLEAN
      BY <2>1 DEF IInv, EncodersOK, Outputs
    <3> QED  BY <2>1, <2>2, <3>1, SubmitSlots DEF IInv, senderVars
  <2>4. NothingLost'
    <3>1. \A t \in Streams : out'[t] \subseteq out[t]
      BY <2>1 DEF IInv, EncodersOK
    <3> QED  BY <1>1, <2>2, <3>1, LosesNothing
  <2> QED  BY <2>1, <2>2, <2>3, <2>4, SegmentChain DEF ChainInv
<1> QED  BY <1>2, <1>3, <1>4, <1>5 DEF Callback

LEMMA NextChainInv ==
  IInv /\ OrderInv /\ PredictInv /\ (~lossy => ChainInv) /\ [MCNext]_<<vars, lossy>>
    => (~lossy => ChainInv)' /\ (~lossy => ChainKept)
<1> SUFFICES ASSUME IInv, OrderInv, PredictInv, ChainInv, ~lossy, [MCNext]_<<vars, lossy>>
             PROVE  ChainInv' /\ ChainKept
  BY DEF MCNext
<1>1. CASE UNCHANGED <<vars, lossy>>
  <2>1. /\ UNCHANGED <<inflight, queued, wire, dropped, conn_epoch, cur_epoch, frame_idx, frames>>
        /\ UNCHANGED <<connected, stream_open, meta, enc, out>>
    BY <1>1 DEF vars, senderVars, captureVars, encoderVars
  <2>2. \A t \in Streams : Due(t)' = Due(t)
    BY <2>1 DEF Due, Waits
  <2>3. NothingLost'
    BY <2>1, LosesNothing DEF ChainInv
  <2>4. connected' => ChainOK'
    BY <2>1, <2>2, SameChain DEF ChainInv
  <2> QED  BY <2>1, <2>3, <2>4 DEF ChainInv, ChainKept
<1>2. CASE Capture
  <2>1. wire' = wire
    BY <1>2 DEF Capture, PlaceFrame, DrainEvent, EncodePair, NoPair
  <2> QED  BY <1>2, <2>1, CaptureChain DEF ChainKept
<1>3. CASE Writer \/ Reply
  BY <1>3, SenderChain
<1>4. ASSUME NEW s \in Streams, Callback(s), Lossless
      PROVE  ChainInv' /\ ChainKept
  BY <1>4, CallbackChain DEF ChainKept
<1> QED  BY <1>1, <1>2, <1>3, <1>4 DEF MCNext

(* An encoder that loses nothing leaves no gap that the head gate does not   *)
(* close: the invariant behind the two theorems below.                     *)
THEOREM ChainInvariant == MCSpec => [](~lossy => ChainInv)
<1>1. MCInit => (~lossy => ChainInv)
  BY InitChain DEF MCInit
<1> QED  BY <1>1, KindsAreBehaviours, Invariant, OrderInvariant, PredictInvariant, NextChainInv, PTL
     DEF MCSpec

(* Every frame the server gets can be decoded, whatever is dropped, refused  *)
(* or reconnected on the way, for any number of frames and connections      *)
(* (uplink_sender.cpp:36-42, main.cc:967-1035).                            *)
THEOREM EveryFrameDecodes == MCSpec => DecodeChain
<1>1. /\ IInv /\ OrderInv /\ PredictInv /\ (~lossy => ChainInv) /\ [MCNext]_<<vars, lossy>>
      => [~lossy => ChainKept]_vars
  BY NextChainInv
<1> QED  BY <1>1, ChainInvariant, KindsAreBehaviours, Invariant, OrderInvariant, PredictInvariant,
            PTL DEF MCSpec, DecodeChain

-----------------------------------------------------------------------------
(* A closed gate is served: the requests for I frames                      *)

(* What the capture threads have not seen yet. *)
Pending == {batch[i] : i \in 1..Len(batch)} \cup {evs[i] : i \in 1..Len(evs)}

InOrder(b) == \A i, j \in 1..Len(b) : i < j => b[i].epoch <= b[j].epoch

(* Events come in the order of their connections; a connection that the     *)
(* capture threads do not know is announced.                               *)
EventsInOrder ==
  /\ ~draining => batch = <<>>
  /\ InOrder(batch) /\ InOrder(evs)
  /\ \A i \in 1..Len(batch), j \in 1..Len(evs) : batch[i].epoch <= evs[j].epoch
  /\ \A e \in Pending : cur_epoch <= e.epoch /\ e.epoch <= conn_epoch
  /\ cur_epoch < conn_epoch => \E e \in Pending : IsNew(e) /\ e.epoch = conn_epoch

(* No drop of the frame was reported on this connection. *)
Unreported(idx) ==
  /\ ~Contains(recent_drop, idx)
  /\ \A e \in Pending : ~(~IsNew(e) /\ e.epoch = conn_epoch /\ e.idx = idx)

(* What was reported on this connection is of the past. *)
ReportsBehind ==
  /\ \A e \in Pending : ~IsNew(e) /\ e.epoch = conn_epoch =>
       cur_epoch = conn_epoch /\ e.idx < frame_idx
  /\ cur_epoch = conn_epoch => \A i \in 1..Len(recent_drop) : recent_drop[i] < frame_idx

(* A frame whose segments are due was not reported, nor one that waits      *)
(* behind an open gate or for a segment that comes.                        *)
PairsUnreported ==
  \A s, t \in Streams : \A c \in Due(s), d \in Due(t) :
    s # t /\ c.frame_id = d.frame_id => Unreported(c.frame_idx)

QueuedUnreported ==
  \A f \in queued :
    stream_open \/ (\E s \in Streams \ f.has : IsDue(s, f.id)) => Unreported(f.idx)

(* An event that will ask for I frames. *)
Asks(e) == IsNew(e) \/ ~Contains(recent_drop, e.idx)

(* A whole pair is still to reach the gate: it opens it or is reported. *)
PairComes ==
  \E c \in AllDue : \A s \in Streams :
    c \in Due(s) \/ \E f \in queued : f.id = c.frame_id /\ s \in f.has

Served == (\E e \in Pending : Asks(e)) \/ need_req = Streams \/ PairComes

ServedOK ==
  ReportsBehind /\ PairsUnreported /\ QueuedUnreported /\ (~stream_open => Served)

ServedInv == EventsInOrder /\ (connected => ServedOK)

LEMMA PendingTypes ==
  ASSUME IInv
  PROVE  /\ evs \in Seq(EventRec) /\ Len(evs) \in Nat /\ \A i \in 1..Len(evs) : evs[i] \in EventRec
         /\ batch \in Seq(EventRec) /\ Len(batch) \in Nat
         /\ \A i \in 1..Len(batch) : batch[i] \in EventRec
         /\ \A e \in Pending : e \in EventRec /\ e.epoch \in Nat /\ e.idx \in Nat
<1>1. evs \in Seq(EventRec) /\ batch \in Seq(EventRec)
  BY DEF IInv, SenderInv, SenderOK, CaptureOK
<1>2. /\ Len(evs) \in Nat /\ \A i \in 1..Len(evs) : evs[i] \in EventRec
      /\ Len(batch) \in Nat /\ \A i \in 1..Len(batch) : batch[i] \in EventRec
  BY <1>1, LenProperties, ElementOfSeq
<1>3. \A e \in Pending : e \in EventRec
  BY <1>2 DEF Pending
<1> QED  BY <1>1, <1>2, <1>3 DEF EventRec

(* The sender tells of the connection of now. *)
LEMMA EventTold ==
  ASSUME IInv, OrderInv, EventsInOrder, NEW e \in EventRec, evs' = Append(evs, e),
         UNCHANGED <<batch, draining, cur_epoch>>,
         conn_epoch' \in Nat, conn_epoch <= conn_epoch', e.epoch = conn_epoch',
         conn_epoch' # conn_epoch => IsNew(e)
  PROVE  EventsInOrder' /\ Pending' = Pending \cup {e}
<1>1. /\ evs \in Seq(EventRec) /\ Len(evs) \in Nat /\ \A i \in 1..Len(evs) : evs[i] \in EventRec
      /\ \A i \in 1..Len(batch) : batch[i] \in EventRec
      /\ \A x \in EventRec : x.epoch \in Nat
  BY PendingTypes DEF EventRec
<1>2. cur_epoch \in Nat /\ conn_epoch \in Nat /\ cur_epoch <= conn_epoch
  BY PipelineTypes DEF OrderInv, EventsOrdered
<1>3. /\ Len(evs') = Len(evs) + 1 /\ evs'[Len(evs) + 1] = e
      /\ \A i \in 1..Len(evs) : evs'[i] = evs[i]
  BY <1>1, AppendProperties
<1>4. \A i \in 1..Len(evs') : \/ i \in 1..Len(evs) /\ evs'[i] = evs[i]
                              \/ i = Len(evs) + 1 /\ evs'[i] = e
  BY <1>1, <1>3
<1>5. Pending' = Pending \cup {e}
  <2>1. Pending' \subseteq Pending \cup {e}
    BY <1>4 DEF Pending
  <2>2. \A i \in 1..Len(evs) : i \in 1..Len(evs')
    BY <1>1, <1>3
  <2>3. Len(evs) + 1 \in 1..Len(evs')
    BY <1>1, <1>3
  <2>4. Pending \cup {e} \subseteq Pending'
    BY <1>3, <2>2, <2>3 DEF Pending
  <2> QED  BY <2>1, <2>4
<1>6. \A x \in Pending : cur_epoch <= x.epoch /\ x.epoch <= conn_epoch
  BY DEF EventsInOrder
<1>7. /\ \A i \in 1..Len(evs) : evs[i] \in Pending /\ evs[i].epoch <= e.epoch
      /\ \A i \in 1..Len(batch) : batch[i].epoch <= e.epoch
  <2>1. /\ \A i \in 1..Len(evs) : evs[i] \in Pending
        /\ \A i \in 1..Len(batch) : batch[i] \in Pending
    BY DEF Pending
  <2> QED  BY <1>1, <1>2, <1>6, <2>1
<1>8. InOrder(evs')
  <2> SUFFICES ASSUME NEW i \in 1..Len(evs'), NEW j \in 1..Len(evs'), i < j
               PROVE  evs'[i].epoch <= evs'[j].epoch
    BY DEF InOrder
  <2>1. i \in 1..Len(evs) /\ evs'[i] = evs[i]
    BY <1>1, <1>3, <1>4
  <2>2. CASE j \in 1..Len(evs) /\ evs'[j] = evs[j]
    BY <2>1, <2>2 DEF EventsInOrder, InOrder
  <2>3. CASE evs'[j] = e
    BY <1>7, <2>1, <2>3
  <2> QED  BY <1>4, <2>2, <2>3
<1>9. \A i \in 1..Len(batch), j \in 1..Len(evs') : batch[i].epoch <= evs'[j].epoch
  BY <1>4, <1>7 DEF EventsInOrder
<1>10. \A x \in Pending' : cur_epoch <= x.epoch /\ x.epoch <= conn_epoch'
  <2> SUFFICES ASSUME NEW x \in Pending \cup {e}
               PROVE  cur_epoch <= x.epoch /\ x.epoch <= conn_epoch'
    BY <1>5
  <2>1. CASE x \in Pending
    <3>1. x.epoch \in Nat
      BY <2>1, PendingTypes
    <3> QED  BY <1>2, <1>6, <2>1, <3>1
  <2>2. CASE x = e
    BY <1>2, <2>2
  <2> QED  BY <2>1, <2>2
<1>11. cur_epoch < conn_epoch' => \E x \in Pending' : IsNew(x) /\ x.epoch = conn_epoch'
  BY <1>5 DEF EventsInOrder
<1> QED  BY <1>5, <1>8, <1>9, <1>10, <1>11 DEF EventsInOrder, InOrder, IsNew

(* The capture threads take the events, and answer the first.              *)
LEMMA EventsTaken ==
  ASSUME IInv, EventsInOrder, PlaceFrame
  PROVE  EventsInOrder' /\ Pending' = Pending
<1>1. /\ batch = <<>> /\ batch' = evs /\ evs' = <<>> /\ draining'
      /\ UNCHANGED <<cur_epoch, conn_epoch>>
  BY DEF PlaceFrame, EventsInOrder, senderVars
<1>2. Len(batch) = 0 /\ Len(evs') = 0
  BY <1>1
<1>3. Pending' = Pending
  BY <1>1, <1>2 DEF Pending
<1> QED  BY <1>1, <1>2, <1>3 DEF EventsInOrder, InOrder

LEMMA EventAnswered ==
  ASSUME IInv, OrderInv, EventsInOrder, DrainEvent
  PROVE  /\ EventsInOrder'
         /\ Head(batch) \in Pending
         /\ Pending' \subseteq Pending /\ Pending \subseteq Pending' \cup {Head(batch)}
         /\ IsNew(Head(batch)) <=> DrainNewConnection(Head(batch))
<1> DEFINE e == Head(batch)
<1>1. batch # <<>> /\ batch' = Tail(batch) /\ draining /\ UNCHANGED <<evs, conn_epoch, draining>>
  BY DEF DrainEvent, senderVars
<1>2. /\ Len(batch) \in Nat /\ 1 \in 1..Len(batch) /\ e = batch[1] /\ Len(batch') = Len(batch) - 1
      /\ \A i \in 1..Len(batch') : i + 1 \in 1..Len(batch) /\ batch'[i] = batch[i + 1]
  BY <1>1, PendingTypes, HeadTailProperties
<1>3. e \in Pending
  BY <1>2 DEF Pending
<1>4. /\ Pending' \subseteq Pending /\ Pending \subseteq Pending' \cup {e}
  <2>1. Pending' \subseteq Pending
    BY <1>1, <1>2 DEF Pending
  <2>2. ASSUME NEW i \in 1..Len(batch)
        PROVE  batch[i] \in Pending' \cup {e}
    <3>1. CASE i = 1
      BY <1>2, <3>1
    <3>2. CASE i # 1
      <4>1. i - 1 \in 1..Len(batch') /\ (i - 1) + 1 = i
        BY <1>2, <3>2
      <4>2. batch'[i - 1] = batch[i]
        BY <1>2, <4>1
      <4> QED  BY <4>1, <4>2 DEF Pending
    <3> QED  BY <3>1, <3>2
  <2> QED  BY <1>1, <2>1, <2>2 DEF Pending
<1>5. IsNew(e) <=> DrainNewConnection(e)
  BY DEF DrainEvent, DrainNewConnection, DrainDrop, IsNew
<1>6. /\ IsNew(e) => cur_epoch' = e.epoch
      /\ ~IsNew(e) => cur_epoch' = cur_epoch
  BY <1>5 DEF DrainEvent, DrainNewConnection, DrainDrop
<1> HIDE DEF e
<1>7. InOrder(batch')
  <2> SUFFICES ASSUME NEW i \in 1..Len(batch'), NEW j \in 1..Len(batch'), i < j
               PROVE  batch'[i].epoch <= batch'[j].epoch
    BY DEF InOrder
  <2>1. i + 1 \in 1..Len(batch) /\ j + 1 \in 1..Len(batch) /\ i + 1 < j + 1
    BY <1>2
  <2>2. batch'[i] = batch[i + 1] /\ batch'[j] = batch[j + 1]
    BY <1>2
  <2>3. InOrder(batch)
    BY DEF EventsInOrder
  <2> QED  BY <2>1, <2>2, <2>3 DEF InOrder
<1>8. ASSUME NEW x \in Pending'
      PROVE  cur_epoch' <= x.epoch /\ x.epoch <= conn_epoch
  <2>1. x \in Pending /\ cur_epoch <= x.epoch /\ x.epoch <= conn_epoch
    BY <1>4 DEF EventsInOrder
  <2>2. e.epoch <= x.epoch
    <3>1. CASE \E i \in 1..Len(batch') : x = batch'[i]
      <4>1. PICK i \in 1..Len(batch') : x = batch[i + 1] /\ i + 1 \in 1..Len(batch) /\ 1 < i + 1
        BY <1>2, <3>1
      <4> QED  BY <1>2, <4>1 DEF EventsInOrder, InOrder
    <3>2. CASE \E j \in 1..Len(evs) : x = evs[j]
      BY <1>2, <3>2 DEF EventsInOrder
    <3> QED  BY <1>1, <3>1, <3>2 DEF Pending
  <2> QED  BY <1>6, <2>1, <2>2
<1>9. ASSUME cur_epoch' < conn_epoch
      PROVE  \E x \in Pending' : IsNew(x) /\ x.epoch = conn_epoch
  <2>1. cur_epoch \in Nat /\ conn_epoch \in Nat /\ e.epoch \in Nat /\ cur_epoch <= e.epoch
    BY <1>3, PipelineTypes, PendingTypes DEF EventsInOrder
  <2>2. cur_epoch < conn_epoch
    BY <1>6, <1>9, <2>1
  <2>3. PICK x \in Pending : IsNew(x) /\ x.epoch = conn_epoch
    BY <2>2 DEF EventsInOrder
  <2>4. x # e
    BY <1>6, <1>9, <2>1, <2>3
  <2> QED  BY <1>4, <2>3, <2>4
<1>10. \A i \in 1..Len(batch'), j \in 1..Len(evs) : batch'[i].epoch <= evs[j].epoch
  BY <1>2 DEF EventsInOrder
<1>11. EventsInOrder'
  <2>1. InOrder(evs)
    BY DEF EventsInOrder
  <2>2. draining' /\ evs' = evs /\ conn_epoch' = conn_epoch
    BY <1>1
  <2> QED  BY <1>7, <1>8, <1>9, <1>10, <2>1, <2>2 DEF EventsInOrder, InOrder, IsNew
<1> QED  BY <1>3, <1>4, <1>5, <1>11 DEF e

-----------------------------------------------------------------------------
(* The steps                                                               *)

LEMMA SameEvents ==
  ASSUME EventsInOrder, UNCHANGED <<evs, batch, cur_epoch, conn_epoch>>, ~draining' => batch = <<>>
  PROVE  EventsInOrder' /\ Pending' = Pending
<1>1. Pending' = Pending
  BY DEF Pending
<1> QED  BY <1>1 DEF EventsInOrder, InOrder

(* Nothing is told, asked or submitted. *)
LEMMA QuietServed ==
  ASSUME ServedOK, stream_open' <=> stream_open,
         queued' = queued \/ (stream_open /\ queued' = {}),
         UNCHANGED <<recent_drop, need_req, conn_epoch, cur_epoch, frame_idx>>,
         Pending' = Pending, \A t \in Streams : Due(t)' = Due(t)
  PROVE  ServedOK'
<1>1. \A idx : Unreported(idx) => Unreported(idx)'
  BY DEF Unreported
<1>2. \A t \in Streams : \A k : IsDue(t, k)' <=> IsDue(t, k)
  BY DEF IsDue
<1>3. ReportsBehind'
  BY DEF ServedOK, ReportsBehind
<1>4. PairsUnreported'
  BY <1>1 DEF ServedOK, PairsUnreported
<1>5. QueuedUnreported'
  BY <1>1, <1>2 DEF ServedOK, QueuedUnreported
<1>6. ASSUME ~stream_open
      PROVE  Served'
  <2>1. queued' = queued /\ Served
    BY <1>6 DEF ServedOK
  <2>2. PairComes => PairComes'
    <3>1. AllDue' = AllDue
      BY DEF AllDue
    <3> QED  BY <2>1, <3>1 DEF PairComes
  <2> QED  BY <2>1, <2>2 DEF Served, Asks
<1> QED  BY <1>3, <1>4, <1>5, <1>6 DEF ServedOK

(* A pair of which no part has come stays to come, or begins to. *)
LEMMA PairBegins ==
  ASSUME NEW s \in Streams, NEW om \in Contexts, NEW idr \in BOOLEAN, Comes(s, om),
         queued' = {WithSegment(NewFrame(om), s, om, idr)},
         NEW c, \A t \in Streams : c \in Due(t)
  PROVE  PairComes'
<1> DEFINE n == WithSegment(NewFrame(om), s, om, idr)
<1>1. n \in queued' /\ n.id = om.frame_id /\ s \in n.has
  BY FirstSegment
<1>2. PICK r \in Streams : r # s
  BY DEF Streams
<1>3. c \in Due(r)'
  BY <1>2 DEF Comes
<1>4. c \in AllDue'
  BY <1>3 DEF AllDue
<1> HIDE DEF n
<1>5. ASSUME NEW t \in Streams
      PROVE  c \in Due(t)' \/ \E f \in queued' : f.id = c.frame_id /\ t \in f.has
  <2>1. CASE t # s
    BY <2>1 DEF Comes
  <2>2. CASE t = s /\ c # om
    BY <2>2 DEF Comes
  <2>3. CASE t = s /\ c = om
    BY <1>1, <2>3
  <2> QED  BY <2>1, <2>2, <2>3
<1> QED  BY <1>4, <1>5 DEF PairComes

(* Another pair stays to come. *)
LEMMA PairStays ==
  ASSUME NEW s \in Streams, NEW om, Comes(s, om), queued' = queued, PairComes,
         ~(\A t \in Streams : om \in Due(t) \/ \E f \in queued : f.id = om.frame_id /\ t \in f.has)
  PROVE  PairComes'
<1>1. PICK c \in AllDue : \A t \in Streams :
        c \in Due(t) \/ \E f \in queued : f.id = c.frame_id /\ t \in f.has
  BY DEF PairComes
<1>2. c # om
  BY <1>1
<1>3. \A t \in Streams : c \in Due(t) => c \in Due(t)'
  BY <1>2 DEF Comes
<1>4. c \in AllDue'
  BY <1>3 DEF AllDue
<1> QED  BY <1>1, <1>3, <1>4 DEF PairComes

(* A segment that changes nothing, joins its frame or comes next. *)
LEMMA SilentServed ==
  ASSUME IInv, OrderInv, ChainOK, connected, ServedOK, NEW s \in Streams, NEW om, Comes(s, om),
         NEW idr \in BOOLEAN,
         \/ Ignored(om) \/ JoinsFlight(s, om, idr) \/ JoinsQueue(s, om, idr)
         \/ ComesNext(s, om, idr),
         Pending' = Pending, UNCHANGED <<recent_drop, need_req>>
  PROVE  ServedOK'
<1>1. /\ om \in Due(s) /\ om \in Contexts /\ om \in AllDue
      /\ om.frame_id \in Nat /\ om.frame_idx \in Nat
  BY DueTypes DEF Comes, Contexts
<1>2. /\ \A f \in inflight \cup queued : f \in Held /\ f \in Frames
      /\ \A f \in Held : f.idx \in Nat /\ f.has # {} /\ f.has \subseteq Streams
  BY PipelineTypes DEF Held, Frames, ChainOK, SlotsChained
<1>3. /\ UNCHANGED <<conn_epoch, cur_epoch, frame_idx>>
      /\ \A t \in Streams : Due(t)' \subseteq Due(t)
  BY DEF Comes
<1>4. \A idx : Unreported(idx) => Unreported(idx)'
  BY <1>3 DEF Unreported
<1>5. \A t \in Streams : \A k : IsDue(t, k)' => IsDue(t, k)
  BY <1>3 DEF IsDue
<1>6. ReportsBehind'
  BY <1>3 DEF ServedOK, ReportsBehind
<1>7. PairsUnreported'
  BY <1>3, <1>4 DEF ServedOK, PairsUnreported
<1>8. \A f \in Held : f.id = om.frame_id <=> f.idx = om.frame_idx
  BY <1>1, Alike DEF ChainOK
<1>9. CASE Ignored(om)
  <2>1. queued' = queued /\ stream_open' = stream_open
    BY <1>9 DEF Ignored, senderVars
  <2>2. QueuedUnreported'
    BY <1>4, <1>5, <2>1 DEF ServedOK, QueuedUnreported
  <2>3. ~(\A t \in Streams : om \in Due(t) \/ \E f \in queued : f.id = om.frame_id /\ t \in f.has)
    <3> SUFFICES ASSUME \A t \in Streams :
                          om \in Due(t) \/ \E f \in queued : f.id = om.frame_id /\ t \in f.has
                 PROVE  FALSE
      OBVIOUS
    <3>1. \A t \in Streams : om \in Due(t)
      BY <1>2, <1>8, <1>9 DEF Ignored
    <3>2. PICK t \in Streams : t # s
      BY DEF Streams
    <3>3. ~Contains(dropped, om.frame_idx)
      BY <3>1, <3>2 DEF ChainOK, DroppedBehind
    <3>4. PICK f \in inflight \cup queued : om.frame_idx < f.idx
      BY <1>9, <3>3 DEF Ignored, Late
    <3>5. PICK r \in Streams : r \in f.has
      BY <1>2
    <3>6. f.idx < om.frame_idx
      BY <1>2, <3>1, <3>5, DueBehindHeld
    <3> QED  BY <1>1, <1>2, <3>4, <3>6
  <2>4. PairComes => PairComes'
    BY <2>1, <2>3, PairStays
  <2> QED  BY <1>6, <1>7, <2>1, <2>2, <2>4 DEF ServedOK, Served, Asks
<1>10. CASE JoinsFlight(s, om, idr)
  <2>1. queued' = queued /\ stream_open' = stream_open
    BY <1>10 DEF JoinsFlight
  <2>2. PICK f \in inflight : f.idx = om.frame_idx /\ s \notin f.has
    BY <1>10 DEF JoinsFlight
  <2>3. QueuedUnreported'
    BY <1>4, <1>5, <2>1 DEF ServedOK, QueuedUnreported
  <2>4. ~(\A t \in Streams : om \in Due(t) \/ \E g \in queued : g.id = om.frame_id /\ t \in g.has)
    <3>1. PICK t \in Streams : t \in f.has
      BY <1>2, <2>2
    <3>2. om \notin Due(t)
      <4>1. om \in Due(t) => f.idx < om.frame_idx
        BY <1>2, <3>1, DueBehindHeld
      <4> QED  BY <1>1, <2>2, <4>1
    <3>3. ASSUME NEW g \in queued PROVE g.id # om.frame_id
      <4>1. f.idx < g.idx /\ f.idx \in Nat /\ g.idx \in Nat /\ g \in Held
        BY <1>2 DEF OrderInv, SlotsInOrder, SlotsOrdered
      <4>2. g.idx # om.frame_idx
        BY <2>2, <4>1
      <4> QED  BY <1>8, <4>1, <4>2
    <3> QED  BY <3>2, <3>3
  <2>5. PairComes => PairComes'
    BY <2>1, <2>4, PairStays
  <2> QED  BY <1>6, <1>7, <2>1, <2>3, <2>5 DEF ServedOK, Served, Asks
<1>11. CASE JoinsQueue(s, om, idr)
  <2>1. PICK f \in queued : /\ f.idx = om.frame_idx /\ s \notin f.has
                            /\ queued' = {WithSegment(f, s, om, idr)}
    BY <1>11 DEF JoinsQueue
  <2>2. f.id = om.frame_id
    BY <1>2, <1>8, <2>1
  <2>3. IsDue(s, f.id)
    BY <1>1, <2>2 DEF IsDue
  <2>4. Unreported(f.idx)
    BY <2>1, <2>3 DEF ServedOK, QueuedUnreported
  <2>5. \A g \in queued' : g.idx = f.idx
    BY <1>1, <1>2, <2>1, SegmentFields
  <2>6. QueuedUnreported'
    BY <1>4, <2>4, <2>5 DEF QueuedUnreported
  <2>7. stream_open'
    BY <1>11 DEF JoinsQueue
  <2> QED  BY <1>6, <1>7, <2>6, <2>7 DEF ServedOK
<1>12. CASE ComesNext(s, om, idr)
  <2>1. /\ queued = {} /\ queued' = {WithSegment(NewFrame(om), s, om, idr)}
        /\ \A f \in inflight : f.idx < om.frame_idx
        /\ (stream_open' <=> stream_open)
    BY <1>12 DEF ComesNext
  <2>2. \A n \in queued' : n.id = om.frame_id /\ n.idx = om.frame_idx /\ n.has = {s}
    BY <1>1, <2>1, FirstSegment
  <2>3. ASSUME NEW t \in Streams \ {s}, IsDue(t, om.frame_id)
        PROVE  Unreported(om.frame_idx)
    BY <1>1, <2>3 DEF IsDue, ServedOK, PairsUnreported
  <2>4. stream_open => Unreported(om.frame_idx)
    <3>1. PICK t \in Streams : t # s
      BY DEF Streams
    <3> QED  BY <2>1, <2>3, <3>1, NextFollows
  <2>5. QueuedUnreported'
    BY <1>4, <1>5, <2>1, <2>2, <2>3, <2>4 DEF QueuedUnreported
  <2>6. PairComes => PairComes'
    BY <1>1, <2>1, PairBegins DEF PairComes
  <2> QED  BY <1>6, <1>7, <2>1, <2>5, <2>6 DEF ServedOK, Served, Asks
<1> QED  BY <1>9, <1>10, <1>11, <1>12

(* A segment that has its frame refused, or pushes the one before out.     *)
LEMMA ReportServed ==
  ASSUME IInv, OrderInv, ChainOK, connected, EventsInOrder, ServedOK,
         NEW s \in Streams, NEW om, Comes(s, om), NEW idr \in BOOLEAN,
         IsRefused(s, om, idr) \/ PushesOut(s, om, idr),
         UNCHANGED <<batch, draining, recent_drop, need_req>>
  PROVE  EventsInOrder' /\ ServedOK'
<1>1. /\ om \in Due(s) /\ om \in Contexts /\ om \in AllDue
      /\ om.frame_id \in Nat /\ om.frame_idx \in Nat
  BY DueTypes DEF Comes, Contexts
<1>2. PICK f \in queued :
        /\ Reports(f.idx)
        /\ \/ IsRefused(s, om, idr) /\ f.idx = om.frame_idx /\ s \notin f.has
           \/ PushesOut(s, om, idr) /\ f.idx < om.frame_idx
  BY DEF IsRefused, PushesOut
<1>3. /\ f \in Held /\ f.idx \in Nat /\ f.has # {} /\ f.has \subseteq Streams
      /\ cur_epoch = conn_epoch /\ f.idx < frame_idx
  BY PipelineTypes DEF Held, Frames, ChainOK, SlotsChained, OrderInv, PipelineOrdered, SegmentsAhead
<1>4. /\ UNCHANGED <<conn_epoch, cur_epoch, frame_idx>> /\ conn_epoch \in Nat
      /\ \A t \in Streams : Due(t)' \subseteq Due(t)
  BY PipelineTypes DEF Comes
<1>5. PICK kind \in {"kDrop", "kHeadBarrier"} : evs' = Append(evs, Event(kind, f.idx))
  BY <1>2 DEF Reports
<1> DEFINE e == Event(kind, f.idx)
<1>6. e \in EventRec /\ e.epoch = conn_epoch /\ e.idx = f.idx /\ ~IsNew(e)
  BY <1>3, <1>4 DEF Event, EventRec, Events, IsNew
<1>7. evs' = Append(evs, e)
  BY <1>5
<1> HIDE DEF e
<1>8. EventsInOrder' /\ Pending' = Pending \cup {e}
  BY <1>4, <1>6, <1>7, EventTold
<1>9. \A idx : Unreported(idx) /\ idx # f.idx => Unreported(idx)'
  BY <1>4, <1>6, <1>8 DEF Unreported, IsNew
<1>10. \A t \in Streams : \A k : IsDue(t, k)' => IsDue(t, k)
  BY <1>4 DEF IsDue
<1>11. ReportsBehind'
  BY <1>3, <1>4, <1>6, <1>8 DEF ServedOK, ReportsBehind, IsNew
<1>12. \A t \in f.has : \A c \in Due(t) : f.idx < c.frame_idx
  BY <1>3, DueBehindHeld
<1>13. PairsUnreported'
  <2> SUFFICES ASSUME NEW a \in Streams, NEW b \in Streams, NEW c \in Due(a)', NEW d \in Due(b)',
                      a # b, c.frame_id = d.frame_id
               PROVE  Unreported(c.frame_idx)'
    BY DEF PairsUnreported
  <2>1. c \in Due(a) /\ d \in Due(b) /\ c \in AllDue /\ d \in AllDue
    BY <1>4 DEF AllDue
  <2>2. c.frame_idx = d.frame_idx /\ c.frame_idx \in Nat
    BY <2>1, Alike DEF ChainOK
  <2>3. a \in f.has \/ b \in f.has
    BY <1>3 DEF Streams
  <2>4. f.idx < c.frame_idx
    BY <1>12, <2>1, <2>2, <2>3
  <2>5. c.frame_idx # f.idx
    BY <1>3, <2>2, <2>4
  <2> QED  BY <1>9, <2>1, <2>5 DEF ServedOK, PairsUnreported
<1>14. QueuedUnreported'
  <2>1. CASE IsRefused(s, om, idr)
    BY <2>1 DEF IsRefused, QueuedUnreported
  <2>2. CASE PushesOut(s, om, idr) /\ f.idx < om.frame_idx
    <3>1. queued' = {WithSegment(NewFrame(om), s, om, idr)} /\ ~stream_open'
      BY <2>2 DEF PushesOut
    <3>2. \A n \in queued' : n.id = om.frame_id /\ n.idx = om.frame_idx /\ n.has = {s}
      BY <1>1, <3>1, FirstSegment
    <3>3. ASSUME NEW t \in Streams \ {s}, IsDue(t, om.frame_id)
          PROVE  Unreported(om.frame_idx)
      BY <1>1, <3>3 DEF IsDue, ServedOK, PairsUnreported
    <3>4. om.frame_idx # f.idx
      BY <1>1, <1>3, <2>2
    <3> QED  BY <1>9, <1>10, <3>1, <3>2, <3>3, <3>4 DEF QueuedUnreported
  <2> QED  BY <1>2, <2>1, <2>2
<1>15. Served'
  <2>1. CASE ~Contains(recent_drop, f.idx)
    BY <1>6, <1>8, <2>1 DEF Served, Asks, IsNew
  <2>2. CASE Contains(recent_drop, f.idx)
    <3>1. /\ ~stream_open
          /\ \A t \in Streams \ f.has : ~IsDue(t, f.id)
      BY <2>2 DEF ServedOK, QueuedUnreported, Unreported
    <3>2. PushesOut(s, om, idr)
      <4>1. f.idx = om.frame_idx => f.id = om.frame_id
        BY <1>1, <1>3, Alike DEF ChainOK
      <4> QED  BY <1>1, <1>2, <3>1, <4>1 DEF IsDue
    <3>3. Served
      BY <3>1 DEF ServedOK
    <3>4. ASSUME PairComes PROVE PairComes'
      <4>1. PICK c \in AllDue : \A t \in Streams :
              c \in Due(t) \/ \E g \in queued : g.id = c.frame_id /\ t \in g.has
        BY <3>4 DEF PairComes
      <4>2. PICK x \in Streams : c \in Due(x)
        BY DEF AllDue
      <4>3. f.id # c.frame_id
        <5> SUFFICES ASSUME f.id = c.frame_id PROVE FALSE
          OBVIOUS
        <5>1. f.idx = c.frame_idx
          BY <1>3, Alike DEF ChainOK
        <5>2. x \notin f.has
          BY <1>3, <1>12, <4>2, <5>1
        <5> QED  BY <3>1, <4>2, <5>2 DEF IsDue
      <4>4. \A g \in queued : g = f
        BY DEF IInv, SenderInv, SenderOK, SlotOK
      <4>5. \A t \in Streams : c \in Due(t)
        BY <4>1, <4>3, <4>4
      <4>6. queued' = {WithSegment(NewFrame(om), s, om, idr)}
        BY <3>2 DEF PushesOut
      <4> QED  BY <1>1, <4>5, <4>6, PairBegins
    <3> QED  BY <1>8, <3>3, <3>4 DEF Served, Asks, IsNew
  <2> QED  BY <2>1, <2>2
<1> QED  BY <1>8, <1>11, <1>13, <1>14, <1>15 DEF ServedOK

(* The capture threads answer a drop, or a new connection. *)
LEMMA DropServed ==
  ASSUME IInv, OrderInv, ChainOK, connected, EventsInOrder, ServedOK, DrainEvent,
         DrainDrop(Head(batch))
  PROVE  ServedOK'
<1> DEFINE e == Head(batch)
<1>1. /\ e \in Pending /\ ~IsNew(e)
      /\ Pending' \subseteq Pending /\ Pending \subseteq Pending' \cup {e}
  <2>1. ~IsNew(e)
    BY DEF DrainDrop, IsNew
  <2> QED  BY <2>1, EventAnswered
<1>2. OnFrameDropped(e.idx)
  BY DEF DrainDrop
<1>3. /\ UNCHANGED <<stream_open, queued, conn_epoch, cur_epoch, frame_idx>>
      /\ \A t \in Streams : Due(t)' = Due(t)
  BY DEF DrainEvent, DrainDrop, senderVars, Due, Waits
<1>4. e.idx \in Nat /\ recent_drop \in Seq(Nat)
  BY <1>1, PendingTypes DEF IInv, CaptureOK
<1> HIDE DEF e
<1>5. ASSUME cur_epoch = conn_epoch
      PROVE  ~IsNew(e) /\ e.epoch = conn_epoch /\ e.idx < frame_idx
  <2>1. cur_epoch <= e.epoch /\ e.epoch <= conn_epoch /\ e.epoch \in Nat /\ cur_epoch \in Nat
    BY <1>1, PendingTypes, PipelineTypes DEF EventsInOrder
  <2>2. e.epoch = conn_epoch
    BY <1>5, <2>1
  <2> QED  BY <1>1, <2>2 DEF ServedOK, ReportsBehind
<1>6. ASSUME NEW idx, cur_epoch = conn_epoch, Unreported(idx)
      PROVE  Unreported(idx)'
  <2>1. idx # e.idx
    BY <1>1, <1>5, <1>6 DEF Unreported
  <2>2. ~Contains(recent_drop', idx)
    <3>1. recent_drop' = recent_drop \/ recent_drop' = Remember(recent_drop, e.idx)
      BY <1>2 DEF OnFrameDropped, schedVars
    <3> QED  BY <1>4, <1>6, <2>1, <3>1, RememberMembers DEF Unreported
  <2> QED  BY <1>1, <1>3, <1>6, <2>2 DEF Unreported, IsNew
<1>7. ReportsBehind'
  <2>1. ASSUME cur_epoch = conn_epoch, NEW i \in 1..Len(recent_drop')
        PROVE  recent_drop'[i] < frame_idx
    <3>1. CASE recent_drop' = recent_drop
      BY <2>1, <3>1 DEF ServedOK, ReportsBehind
    <3>2. CASE recent_drop' = Remember(recent_drop, e.idx)
      <4>1. \/ recent_drop'[i] = e.idx
            \/ \E j \in 1..Len(recent_drop) : recent_drop'[i] = recent_drop[j]
        BY <1>4, <3>2, RememberMembers
      <4> QED  BY <1>5, <2>1, <4>1 DEF ServedOK, ReportsBehind
    <3> QED  BY <1>2, <3>1, <3>2 DEF OnFrameDropped, schedVars
  <2> QED  BY <1>1, <1>3, <2>1 DEF ServedOK, ReportsBehind, IsNew
<1>8. PairsUnreported'
  <2>1. \A t \in Streams : \A c \in Due(t) : cur_epoch = conn_epoch
    BY DueTypes
  <2> QED  BY <1>3, <1>6, <2>1 DEF ServedOK, PairsUnreported
<1>9. QueuedUnreported'
  <2>1. \A f \in queued : cur_epoch = conn_epoch
    BY DEF OrderInv, PipelineOrdered, SegmentsAhead, Held
  <2>2. \A t \in Streams : \A k : IsDue(t, k)' <=> IsDue(t, k)
    BY <1>3 DEF IsDue
  <2> QED  BY <1>3, <1>6, <2>1, <2>2 DEF ServedOK, QueuedUnreported
<1>10. ASSUME ~stream_open PROVE Served'
  <2>1. CASE Contains(recent_drop, e.idx)
    <3>1. UNCHANGED <<recent_drop, need_req>>
      BY <1>2, <2>1 DEF OnFrameDropped, schedVars
    <3>2. Served
      BY <1>10 DEF ServedOK
    <3>3. \A x \in Pending : Asks(x) => x \in Pending'
      BY <1>1, <2>1 DEF Asks
    <3>4. PairComes => PairComes'
      <4>1. AllDue' = AllDue
        BY <1>3 DEF AllDue
      <4> QED  BY <1>3, <4>1 DEF PairComes
    <3> QED  BY <3>1, <3>2, <3>3, <3>4 DEF Served, Asks, IsNew
  <2>2. CASE ~Contains(recent_drop, e.idx)
    <3>1. need_req' = Streams
      BY <1>2, <2>2 DEF OnFrameDropped, StartNewSequence
    <3> QED  BY <3>1 DEF Served
  <2> QED  BY <2>1, <2>2
<1> QED  BY <1>3, <1>7, <1>8, <1>9, <1>10 DEF ServedOK

LEMMA NewConnectionServed ==
  ASSUME IInv, OrderInv, ChainOK, connected, EventsInOrder, ServedOK, DrainEvent,
         DrainNewConnection(Head(batch))
  PROVE  ServedOK'
<1> DEFINE e == Head(batch)
<1>1. e \in Pending /\ IsNew(e) /\ Pending' \subseteq Pending
  BY EventAnswered
<1>2. cur_epoch # conn_epoch
  <2>1. Len(batch) \in Nat /\ 1 \in 1..Len(batch) /\ e = batch[1]
    BY PendingTypes, HeadTailProperties DEF DrainEvent
  <2>2. cur_epoch < e.epoch /\ e.epoch <= conn_epoch
    BY <1>1, <2>1 DEF OrderInv, EventsOrdered, Within
  <2>3. e.epoch \in Nat /\ cur_epoch \in Nat /\ conn_epoch \in Nat
    BY <1>1, PendingTypes, PipelineTypes
  <2> QED  BY <2>2, <2>3
<1> HIDE DEF e
<1>3. /\ recent_drop' = <<>> /\ need_req' = Streams
      /\ UNCHANGED <<stream_open, queued, conn_epoch, out>>
      /\ \A t \in Streams : Len(meta'[t].q) = 0
  BY DEF DrainEvent, DrainNewConnection, OnConnect, StartNewSequence, senderVars,
         MetaClear, EmptyMeta
<1>4. queued = {}
  BY <1>2, UnusedConnection DEF Held
<1>5. \A t \in Streams : Due(t)' = {}
  <2>1. \A t \in Streams : Waits(t)' = {}
    BY <1>3 DEF Waits
  <2> QED  BY <1>2, <1>3, <2>1, UnusedConnection DEF Due
<1>6. ReportsBehind'
  <2>1. Len(recent_drop') = 0
    BY <1>3
  <2>2. \A x \in Pending' : ~(~IsNew(x) /\ x.epoch = conn_epoch)
    BY <1>1, <1>2 DEF ServedOK, ReportsBehind
  <2> QED  BY <1>3, <2>1, <2>2 DEF ReportsBehind, IsNew
<1>7. PairsUnreported' /\ QueuedUnreported'
  BY <1>3, <1>4, <1>5 DEF PairsUnreported, QueuedUnreported
<1> QED  BY <1>3, <1>6, <1>7 DEF ServedOK, Served

(* A new pair comes with what is asked for by then. *)
LEMMA EncodeServed ==
  ASSUME IInv, OrderInv, ChainOK, connected, EventsInOrder, ServedOK, EncodePair
  PROVE  EventsInOrder' /\ ServedOK'
<1>1. PICK om \in Contexts :
        /\ om.frame_id = frames + 1 /\ om.conn_epoch = cur_epoch
        /\ frame_idx <= om.frame_idx /\ om.frame_idx < frame_idx'
        /\ \A t \in Streams : Waits(t)' = Waits(t) \cup {om}
  BY EncodedContext
<1>2. UNCHANGED <<out, stream_open, conn_epoch, cur_epoch, queued, evs, batch, recent_drop>>
      /\ batch = <<>>
  BY DEF EncodePair, senderVars, OnFrameSubmit
<1>3. frames \in Nat /\ frame_idx \in Nat /\ frame_idx' \in Nat /\ om.frame_idx \in Nat
  BY PipelineTypes, EncodePairInv DEF Contexts, IInv, CaptureOK
<1>4. EventsInOrder' /\ Pending' = Pending
  BY <1>2, SameEvents
<1>5. \A idx : Unreported(idx) => Unreported(idx)'
  BY <1>2, <1>4 DEF Unreported
<1>6. ReportsBehind'
  <2>1. \A x \in Pending : ~IsNew(x) /\ x.epoch = conn_epoch =>
          cur_epoch = conn_epoch /\ x.idx < frame_idx'
    BY <1>1, <1>3, PendingTypes DEF ServedOK, ReportsBehind
  <2>2. \A i \in 1..Len(recent_drop) : recent_drop[i] \in Nat
    BY ElementOfSeq DEF IInv, CaptureOK
  <2>3. cur_epoch = conn_epoch => \A i \in 1..Len(recent_drop) : recent_drop[i] < frame_idx'
    BY <1>1, <1>3, <2>2 DEF ServedOK, ReportsBehind
  <2> QED  BY <1>2, <1>4, <2>1, <2>3 DEF ReportsBehind, IsNew
<1>7. CASE cur_epoch # conn_epoch
  <2>1. \A t \in Streams : Due(t)' = {}
    <3>1. ASSUME NEW t \in Streams, NEW c \in Waits(t)
          PROVE  c.conn_epoch # conn_epoch
      BY <1>7 DEF OrderInv, PipelineOrdered, ContextsOrdered
    <3> QED  BY <1>1, <1>2, <1>7, <3>1, UnusedConnection DEF Due
  <2>2. queued = {}
    BY <1>7, UnusedConnection DEF Held
  <2>3. \E x \in Pending : IsNew(x)
    BY <1>7, PipelineTypes DEF EventsInOrder, OrderInv, EventsOrdered
  <2>4. Served'
    BY <1>4, <2>3 DEF Served, Asks, IsNew
  <2> QED  BY <1>2, <1>4, <1>6, <2>1, <2>2, <2>4 DEF ServedOK, PairsUnreported, QueuedUnreported
<1>8. CASE cur_epoch = conn_epoch
  <2>1. \A t \in Streams : Due(t)' = Due(t) \cup {om}
    BY <1>1, <1>2, <1>8 DEF Due
  <2>2. \A t \in Streams : \A c \in Due(t) : c.frame_id # om.frame_id
    <3>1. \A t \in Streams : \A c \in Due(t) : c.frame_id \in Nat /\ c.frame_id <= frames
      BY DueTypes, Alike DEF ChainOK
    <3> QED  BY <1>1, <1>3, <3>1
  <2>3. Unreported(om.frame_idx)
    <3>1. ~Contains(recent_drop, om.frame_idx)
      <4>1. \A i \in 1..Len(recent_drop) : recent_drop[i] \in Nat /\ recent_drop[i] < frame_idx
        BY <1>8, ElementOfSeq DEF IInv, CaptureOK, ServedOK, ReportsBehind
      <4>2. \A i \in 1..Len(recent_drop) : recent_drop[i] # om.frame_idx
        BY <1>1, <1>3, <4>1
      <4> QED  BY <4>2 DEF Contains
    <3>2. \A x \in Pending : ~IsNew(x) /\ x.epoch = conn_epoch => x.idx # om.frame_idx
      BY <1>1, <1>3, PendingTypes DEF ServedOK, ReportsBehind
    <3> QED  BY <3>1, <3>2 DEF Unreported
  <2>4. PairsUnreported'
    <3> SUFFICES ASSUME NEW a \in Streams, NEW b \in Streams, NEW c \in Due(a)', NEW d \in Due(b)',
                        a # b, c.frame_id = d.frame_id
                 PROVE  Unreported(c.frame_idx)
      BY <1>5 DEF PairsUnreported
    <3>1. CASE c = om
      BY <2>3, <3>1
    <3>2. CASE c # om
      <4>1. c \in Due(a) /\ d \in Due(b)
        BY <2>1, <2>2, <3>2
      <4> QED  BY <4>1 DEF ServedOK, PairsUnreported
    <3> QED  BY <3>1, <3>2
  <2>5. QueuedUnreported'
    <3> SUFFICES ASSUME NEW f \in queued,
                        stream_open \/ \E t \in Streams \ f.has : IsDue(t, f.id)'
                 PROVE  Unreported(f.idx)
      BY <1>2, <1>5 DEF QueuedUnreported
    <3>1. f.id # om.frame_id
      <4>1. f \in Held /\ f.id \in Nat /\ f.id <= frames
        BY Alike DEF ChainOK, Held
      <4> QED  BY <1>1, <1>3, <4>1
    <3>2. \A t \in Streams : IsDue(t, f.id)' => IsDue(t, f.id)
      BY <2>1, <3>1 DEF IsDue
    <3> QED  BY <3>2 DEF ServedOK, QueuedUnreported
  <2>6. PairComes'
    <3>1. om \in AllDue'
      BY <2>1 DEF AllDue, Streams
    <3> QED  BY <2>1, <3>1 DEF PairComes
  <2> QED  BY <1>4, <1>6, <2>4, <2>5, <2>6 DEF ServedOK, Served
<1> QED  BY <1>7, <1>8

(* A new connection is told, and its first pair is asked for.              *)
LEMMA ConnectServed ==
  ASSUME IInv, OrderInv, EventsInOrder, Connect, UNCHANGED <<batch, draining, cur_epoch, meta, out>>
  PROVE  EventsInOrder' /\ ServedOK'
<1> DEFINE e == [ev |-> "kNewConnection", idx |-> 0, epoch |-> conn_epoch + 1]
<1>1. cur_epoch \in Nat /\ conn_epoch \in Nat /\ cur_epoch <= conn_epoch
  BY PipelineTypes DEF OrderInv, EventsOrdered
<1>2. conn_epoch' = conn_epoch + 1 /\ evs' = Append(evs, e) /\ queued' = queued
  BY DEF Connect
<1>3. e \in EventRec /\ IsNew(e) /\ e.epoch = conn_epoch + 1
  BY <1>1 DEF EventRec, Events, IsNew
<1> HIDE DEF e
<1>4. EventsInOrder' /\ Pending' = Pending \cup {e}
  BY <1>1, <1>2, <1>3, EventTold
<1>5. ReportsBehind'
  <2>1. ASSUME NEW x \in Pending' PROVE IsNew(x) \/ x.epoch # conn_epoch + 1
    <3>1. CASE x = e
      BY <1>3, <3>1
    <3>2. CASE x \in Pending
      <4>1. x.epoch \in Nat /\ x.epoch <= conn_epoch
        BY <3>2, PendingTypes DEF EventsInOrder
      <4> QED  BY <1>1, <4>1
    <3> QED  BY <1>4, <3>1, <3>2
  <2>2. cur_epoch' # conn_epoch'
    BY <1>1, <1>2
  <2> QED  BY <1>2, <2>1, <2>2 DEF ReportsBehind, IsNew
<1>6. \A t \in Streams : Due(t)' = {}
  <2>1. ASSUME NEW t \in Streams, NEW c \in Waits(t) \cup {o.om : o \in out[t]}
        PROVE  c.conn_epoch # conn_epoch + 1
    <3>1. c.conn_epoch \in Nat
      BY PipelineTypes DEF Contexts
    <3>2. c.conn_epoch <= cur_epoch
      BY <1>1, <3>1 DEF OrderInv, PipelineOrdered, ContextsOrdered
    <3> QED  BY <1>1, <3>1, <3>2
  <2> QED  BY <1>2, <2>1 DEF Due, Waits
<1>7. queued' = {}
  BY <1>2 DEF Connect, IInv, SenderInv, NoMixedConnections
<1>8. PairsUnreported' /\ QueuedUnreported'
  BY <1>6, <1>7 DEF PairsUnreported, QueuedUnreported
<1>9. Served'
  BY <1>3, <1>4 DEF Served, Asks, IsNew
<1> QED  BY <1>4, <1>5, <1>8, <1>9 DEF ServedOK

(* The events in order, and while connected the gate served. *)
LEMMA CaptureServed ==
  ASSUME IInv, OrderInv, ChainInv, ServedInv, Capture
  PROVE  ServedInv'
<1>1. connected' = connected
  BY DEF Capture, PlaceFrame, DrainEvent, EncodePair, NoPair, senderVars
<1>2. EventsInOrder /\ (connected => ChainOK /\ ServedOK)
  BY DEF ServedInv, ChainInv
<1>3. ASSUME EventsInOrder', Pending' = Pending,
             UNCHANGED <<stream_open, queued, recent_drop, need_req, conn_epoch, cur_epoch>>,
             UNCHANGED <<frame_idx, meta, out>>
      PROVE  ServedInv'
  <2>1. \A t \in Streams : Due(t)' = Due(t)
    BY <1>3 DEF Due, Waits
  <2> QED  BY <1>1, <1>2, <1>3, <2>1, QuietServed DEF ServedInv
<1>4. CASE PlaceFrame
  <2>1. EventsInOrder' /\ Pending' = Pending
    BY <1>2, <1>4, EventsTaken
  <2> QED  BY <1>3, <1>4, <2>1 DEF PlaceFrame, senderVars, schedVars
<1>5. CASE NoPair
  <2>1. EventsInOrder' /\ Pending' = Pending
    BY <1>2, <1>5, SameEvents DEF NoPair, senderVars
  <2> QED  BY <1>3, <1>5, <2>1 DEF NoPair, senderVars, schedVars
<1>6. CASE DrainEvent
  <2>1. EventsInOrder'
    BY <1>2, <1>6, EventAnswered
  <2>2. connected => ServedOK'
    BY <1>2, <1>6, DropServed, NewConnectionServed DEF DrainEvent
  <2> QED  BY <1>1, <2>1, <2>2 DEF ServedInv
<1>7. CASE EncodePair
  <2>1. EventsInOrder'
    BY <1>2, <1>7, SameEvents DEF EncodePair, senderVars
  <2> QED  BY <1>1, <1>2, <1>7, <2>1, EncodeServed DEF ServedInv
<1> QED  BY <1>4, <1>5, <1>6, <1>7 DEF Capture

LEMMA SenderServed ==
  ASSUME IInv, OrderInv, ChainInv, ServedInv, Writer \/ Reply
  PROVE  ServedInv'
<1>1. EventsInOrder /\ (connected => ChainOK /\ ServedOK)
  BY DEF ServedInv, ChainInv
<1>2. UNCHANGED <<batch, draining, cur_epoch, frame_idx, meta, out, recent_drop, need_req>>
  BY DEF Writer, Reply, captureVars, schedVars
<1>3. ~draining => batch = <<>>
  BY <1>1 DEF EventsInOrder
<1>4. CASE StepBlocked \/ StepSent
  <2>1. connected /\ connected' /\ ServeQueue /\ conn_epoch' = conn_epoch
    BY <1>4 DEF StepBlocked, StepSent
  <2>2. /\ evs' = evs /\ (stream_open' <=> stream_open)
        /\ queued' = queued \/ (stream_open /\ queued' = {})
    BY <1>1, <2>1, ServedChain
  <2>3. EventsInOrder' /\ Pending' = Pending
    BY <1>1, <1>2, <1>3, <2>1, <2>2, SameEvents
  <2>4. \A t \in Streams : Due(t)' = Due(t)
    BY <1>2, <2>1 DEF Due, Waits
  <2> QED  BY <1>1, <1>2, <2>1, <2>2, <2>3, <2>4, QuietServed DEF ServedInv
<1>5. CASE StepError \/ StepStall
  <2>1. /\ ~connected' /\ conn_epoch' = conn_epoch
        /\ ReportDropped(Refused(queued), "kHeadBarrier")
    BY <1>5 DEF StepError, StepStall, DropConnection
  <2>2. CASE evs' = evs
    BY <1>1, <1>2, <1>3, <2>1, <2>2, SameEvents DEF ServedInv
  <2>3. ASSUME NEW f \in queued, evs' = Append(evs, Event("kHeadBarrier", f.idx))
        PROVE  ServedInv'
    <3> DEFINE e == Event("kHeadBarrier", f.idx)
    <3>1. f.idx \in Nat /\ conn_epoch \in Nat
      BY PipelineTypes DEF Held, Frames
    <3>2. e \in EventRec /\ e.epoch = conn_epoch
      BY <3>1 DEF Event, EventRec, Events
    <3>3. evs' = Append(evs, e)
      BY <2>3
    <3> HIDE DEF e
    <3>4. conn_epoch <= conn_epoch'
      BY <2>1, <3>1
    <3>5. EventsInOrder'
      BY <1>1, <1>2, <2>1, <3>1, <3>2, <3>3, <3>4, EventTold
    <3> QED  BY <2>1, <3>5 DEF ServedInv
  <2> QED  BY <2>1, <2>2, <2>3 DEF ReportDropped, Refused
<1>6. CASE NotifyDisconnect
  <2>1. ~connected' /\ UNCHANGED <<evs, conn_epoch>>
    BY <1>6 DEF NotifyDisconnect, DropConnection
  <2> QED  BY <1>1, <1>2, <1>3, <2>1, SameEvents DEF ServedInv
<1>7. CASE Connect
  BY <1>1, <1>2, <1>7, ConnectServed DEF ServedInv
<1> QED  BY <1>4, <1>5, <1>6, <1>7 DEF Writer, Reply

LEMMA CallbackServed ==
  ASSUME IInv, OrderInv, PredictInv, ChainInv, ServedInv, NEW s \in Streams, Callback(s), Lossless
  PROVE  ServedInv'
<1>1. EventsInOrder /\ NothingLost /\ (connected => ChainOK /\ ServedOK)
  BY DEF ServedInv, ChainInv
<1>2. ~CloseGate(s) /\ ~ReportGap(s)
  BY <1>1 DEF CloseGate, ReportGap, NothingLost
<1>3. ~draining => batch = <<>>
  BY <1>1 DEF EventsInOrder
<1>4. UNCHANGED <<batch, draining, cur_epoch, frames, frame_idx, wire, recent_drop, need_req>>
  BY <1>2 DEF Callback, TakeContext, SubmitSegment, captureVars, schedVars
<1>5. ASSUME UNCHANGED <<senderVars, evs>>, \A t \in Streams : Due(t)' = Due(t)
      PROVE  ServedInv'
  <2>1. EventsInOrder' /\ Pending' = Pending
    BY <1>1, <1>3, <1>4, <1>5, SameEvents DEF senderVars
  <2> QED  BY <1>1, <1>4, <1>5, <2>1, QuietServed DEF ServedInv, senderVars
<1>6. CASE TakeContext(s)
  <2>1. \A t \in Streams : Due(t)' = Due(t)
    BY <1>1, <1>6, TakeChain
  <2> QED  BY <1>5, <1>6, <2>1 DEF TakeContext
<1>7. CASE SubmitSegment(s)
  <2>1. PICK o \in out[s] : Submit(s, o.om, o.idr) /\ out' = [out EXCEPT ![s] = {}]
    BY <1>7 DEF SubmitSegment
  <2>2. o.om \in Contexts /\ o.idr \in BOOLEAN
    BY DEF IInv, EncodersOK, Outputs
  <2>3. meta' = meta
    BY <1>7 DEF SubmitSegment
  <2>4. conn_epoch' = conn_epoch /\ connected' = connected
    <3>1. conn_epoch' = conn_epoch
      BY <2>1, <2>2, SenderTells DEF IInv
    <3>2. connected' = connected
      BY <1>4, <2>1, <2>2, SubmitSlots DEF IInv, senderVars
    <3> QED  BY <3>1, <3>2
  <2> DEFINE om == o.om
  <2>5. /\ \A t \in Streams : Due(t)' \subseteq Due(t) /\ (t # s => Due(t)' = Due(t))
        /\ \A c \in Due(s) : c = om \/ c \in Due(s)'
        /\ om.conn_epoch # conn_epoch => Due(s)' = Due(s)
        /\ om.conn_epoch = conn_epoch =>
             om \in Due(s) /\ \A c \in Due(s)' : om.frame_idx < c.frame_idx
    BY <1>1, <2>1, <2>3, <2>4, SubmitDue
  <2>6. CASE Stale(om)
    <3>1. UNCHANGED <<senderVars, evs>>
      BY <2>1, <2>6 DEF Submit
    <3>2. CASE ~connected
      <4>1. EventsInOrder'
        BY <1>1, <1>3, <1>4, <3>1, SameEvents DEF senderVars
      <4> QED  BY <2>4, <3>2, <4>1 DEF ServedInv
    <3>3. CASE connected
      <4>1. \A t \in Streams : Due(t)' = Due(t)
        BY <2>5, <2>6, <3>3 DEF Stale
      <4> QED  BY <1>5, <3>1, <4>1
    <3> QED  BY <3>2, <3>3
  <2>7. CASE ~Stale(om)
    <3>1. connected /\ om \in Due(s)
      BY <2>5, <2>7 DEF Stale
    <3>2. Comes(s, om)
      BY <1>4, <2>4, <2>5, <2>7, <3>1 DEF Comes, Stale
    <3>3. \/ Ignored(om) \/ JoinsFlight(s, om, o.idr) \/ JoinsQueue(s, om, o.idr)
          \/ IsRefused(s, om, o.idr) \/ ComesNext(s, om, o.idr) \/ PushesOut(s, om, o.idr)
      BY <2>1, <2>2, <3>1, SegmentOutcome
    <3>4. CASE IsRefused(s, om, o.idr) \/ PushesOut(s, om, o.idr)
      BY <1>1, <1>4, <2>2, <3>1, <3>2, <3>4, ReportServed DEF ServedInv
    <3>5. CASE \/ Ignored(om) \/ JoinsFlight(s, om, o.idr) \/ JoinsQueue(s, om, o.idr)
               \/ ComesNext(s, om, o.idr)
      <4>1. evs' = evs
        BY <3>5 DEF Ignored, JoinsFlight, JoinsQueue, ComesNext
      <4>2. EventsInOrder' /\ Pending' = Pending
        BY <1>1, <1>3, <1>4, <2>4, <4>1, SameEvents
      <4>3. ServedOK'
        BY <1>1, <1>4, <2>2, <3>1, <3>2, <3>5, <4>2, SilentServed
      <4> QED  BY <4>2, <4>3 DEF ServedInv
    <3> QED  BY <3>3, <3>4, <3>5
  <2> QED  BY <2>6, <2>7
<1> QED  BY <1>2, <1>6, <1>7 DEF Callback

LEMMA InitServed == Init => ServedInv
<1> SUFFICES ASSUME Init PROVE ServedInv
  OBVIOUS
<1>1. Len(evs) = 0 /\ Len(batch) = 0 /\ Pending = {}
  BY DEF Init, SenderInit, Pending
<1> QED  BY <1>1 DEF Init, SenderInit, ServedInv, EventsInOrder, InOrder

LEMMA NextServedInv ==
  /\ IInv /\ OrderInv /\ PredictInv /\ (~lossy => ChainInv) /\ (~lossy => ServedInv)
  /\ [MCNext]_<<vars, lossy>>
  => (~lossy => ServedInv)'
<1> SUFFICES ASSUME IInv, OrderInv, PredictInv, ChainInv, ServedInv, ~lossy,
                    [MCNext]_<<vars, lossy>>
             PROVE  ServedInv'
  BY DEF MCNext
<1>1. CASE UNCHANGED <<vars, lossy>>
  <2>1. /\ UNCHANGED <<connected, stream_open, queued, recent_drop, need_req, conn_epoch>>
        /\ UNCHANGED <<cur_epoch, frame_idx, meta, out, evs, batch, draining>>
    BY <1>1 DEF vars, senderVars, captureVars, schedVars
  <2>2. \A t \in Streams : Due(t)' = Due(t)
    BY <2>1 DEF Due, Waits
  <2>3. EventsInOrder' /\ Pending' = Pending
    BY <2>1, SameEvents DEF ServedInv, EventsInOrder
  <2>4. connected => ServedOK'
    BY <2>1, <2>2, <2>3, QuietServed DEF ServedInv
  <2> QED  BY <2>1, <2>3, <2>4 DEF ServedInv
<1>2. CASE Capture
  BY <1>2, CaptureServed
<1>3. CASE Writer \/ Reply
  BY <1>3, SenderServed
<1>4. ASSUME NEW s \in Streams, Callback(s), Lossless
      PROVE  ServedInv'
  BY <1>4, CallbackServed
<1> QED  BY <1>1, <1>2, <1>3, <1>4 DEF MCNext

(* Somebody is always about to open a closed gate: an event that will ask    *)
(* for I frames, the request itself, or a pair that is still to come.      *)
THEOREM ServedInvariant == MCSpec => [](~lossy => ServedInv)
<1>1. MCInit => (~lossy => ServedInv)
  BY InitServed DEF MCInit
<1> QED  BY <1>1, KindsAreBehaviours, Invariant, OrderInvariant, PredictInvariant, ChainInvariant,
            NextServedInv, PTL DEF MCSpec

(* The head gate is never closed with nobody about to open it, whatever is   *)
(* dropped, refused or reconnected, for any number of frames and            *)
(* connections and any window of remembered drops (main.cc:933-964,         *)
(* frame_scheduler.cpp:28-47, 87-93).                                      *)
THEOREM ClosedGateIsServed == MCSpec => []GateIsServed
<1>1. ServedInv => GateServed
  <2> SUFFICES ASSUME ServedInv, connected, ~stream_open, Quiet PROVE need_req = Streams
    BY DEF GateServed
  <2>1. Len(evs) = 0 /\ Len(batch) = 0 /\ \A s \in Streams : out[s] = {} /\ Len(meta[s].q) = 0
    BY DEF Quiet
  <2>2. Pending = {} /\ AllDue = {}
    BY <2>1 DEF Pending, AllDue, Due, Waits
  <2> QED  BY <2>2 DEF ServedInv, ServedOK, Served, PairComes
<1> QED  BY <1>1, ServedInvariant, PTL DEF GateIsServed
===============================================================================
