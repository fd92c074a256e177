------------------------------ MODULE UplinkSender ------------------------------
(***************************************************************************)
(* The sender of the uplink (bigmodeld/uplink_sender.h, .cpp): one frame   *)
(* in flight, one queued, and the head gate that lets a stream begin with  *)
(* a pair of I frames only.  Every method holds the sender's mutex and is  *)
(* one action; time enters as the choice of when a blocked write has       *)
(* stalled.  A slot is a set of at most one frame.                         *)
(***************************************************************************)
EXTENDS FrameScheduler

CONSTANT MaxConnections   \* bound on the connections of a behaviour

ASSUME SenderConstants == MaxConnections \in Nat

VARIABLES
  connected,
  conn_epoch,    \* counts the connections
  stream_open,   \* the head gate
  inflight,      \* the frame that is being written
  queued,        \* the next one
  sent,          \* is a part of the frame in flight on the wire
  dropped,       \* dropped_recent_: frames whose remains are ignored
  evs,           \* Bigmodeld.evs_: the events for the capture threads
  wire           \* the last whole frame the server got on this connection

senderVars == <<connected, conn_epoch, stream_open, inflight, queued, sent, dropped>>

Event(kind, idx) == [ev |-> kind, idx |-> idx, epoch |-> conn_epoch]

Complete(f) == f.has = Streams
DualIdr(f)  == f.idr = Streams /\ f.pred = Streams

SenderInit ==
  /\ connected = FALSE
  /\ conn_epoch = 0
  /\ stream_open = FALSE
  /\ inflight = {}
  /\ queued = {}
  /\ sent = FALSE
  /\ dropped = <<>>
  /\ evs = <<>>
  /\ wire = {}

(* A half frame takes the segment of its other stream.  The predictions    *)
(* come with the road segment.                                             *)
WithSegment(f, s, om, idr) ==
  [f EXCEPT !.has = @ \cup {s},
            !.idr = IF idr THEN @ \cup {s} ELSE @,
            !.pred = IF s = "road" THEN om.pred ELSE @]

NewFrame(om) ==
  [idx |-> om.frame_idx, epoch |-> om.conn_epoch, id |-> om.frame_id,
   has |-> {}, idr |-> {}, pred |-> {}]

(* Fault: the gate asks for the I frame of one stream only. *)
Opens_RoadOnly(f) == "road" \in f.idr /\ "road" \in f.pred

Opens(f) == DualIdr(f)

(* resolve_head_gate_locked: while the gate is closed a complete frame of   *)
(* the queue opens it or is refused; {} or the refused frame.              *)
Refused(q) == {f \in q : ~stream_open /\ Complete(f) /\ ~Opens(f)}
Opened(q)  == stream_open \/ \E f \in q : Complete(f) /\ Opens(f)

ReportDropped(frames, kind) ==
  \/ /\ frames = {}
     /\ UNCHANGED <<dropped, evs>>
  \/ \E f \in frames :
       /\ dropped' = Remember(dropped, f.idx)
       /\ evs' = Append(evs, Event(kind, f.idx))

HeadGate(q) ==
  /\ queued' = q \ Refused(q)
  /\ stream_open' = Opened(q)
  /\ ReportDropped(Refused(q), "kHeadBarrier")

-----------------------------------------------------------------------------
(* submit_road, submit_wide                                                *)

(* Fault: the epoch of the submission is not compared. *)
Stale_NoEpoch(om) == ~connected

Stale(om) == ~connected \/ om.conn_epoch # conn_epoch

Holds(slot, idx) == \E f \in slot : f.idx = idx

(* A late packet: of a dropped frame, or older than what is held. *)
Late(idx) ==
  \/ Contains(dropped, idx)
  \/ \E f \in inflight \cup queued : idx < f.idx

OverwriteEvent == IF stream_open THEN "kDrop" ELSE "kHeadBarrier"

(* Fault: an overwritten frame does not close the gate. *)
Overwrite_GateOpen(s, om, idr) ==
  /\ queued' = {WithSegment(NewFrame(om), s, om, idr)}
  /\ UNCHANGED stream_open
  /\ ReportDropped(queued, OverwriteEvent)

(* A new frame takes the queue; what it overwrites is a gap of the stream   *)
(* when the gate was open.  It has one segment: the gate has nothing to    *)
(* decide yet.                                                             *)
Overwrite(s, om, idr) ==
  /\ queued' = {WithSegment(NewFrame(om), s, om, idr)}
  /\ stream_open' = (stream_open /\ queued = {})
  /\ ReportDropped(queued, OverwriteEvent)

Submit(s, om, idr) ==
  LET idx == om.frame_idx
      held == Holds(inflight, idx) \/ Holds(queued, idx)
  IN
  \/ /\ \/ Stale(om)
        \/ ~held /\ Late(idx)
        \/ \E f \in inflight \cup queued : f.idx = idx /\ s \in f.has
     /\ UNCHANGED <<senderVars, evs>>
  \/ /\ ~Stale(om)
     /\ \E f \in inflight :
          /\ f.idx = idx /\ s \notin f.has
          /\ inflight' = {WithSegment(f, s, om, idr)}
     /\ HeadGate(queued)
     /\ UNCHANGED <<connected, conn_epoch, sent>>
  \/ /\ ~Stale(om)
     /\ ~Holds(inflight, idx)
     /\ \E f \in queued :
          /\ f.idx = idx /\ s \notin f.has
          /\ HeadGate({WithSegment(f, s, om, idr)})
     /\ UNCHANGED <<connected, conn_epoch, inflight, sent>>
  \/ /\ ~Stale(om) /\ ~held /\ ~Late(idx)
     /\ Overwrite(s, om, idr)
     /\ UNCHANGED <<connected, conn_epoch, inflight, sent>>

-----------------------------------------------------------------------------
(* step, run by the writer thread                                          *)

(* drop_connection_locked *)
DropConnection ==
  /\ connected' = FALSE
  /\ stream_open' = FALSE
  /\ inflight' = {}
  /\ queued' = {}
  /\ sent' = FALSE
  /\ UNCHANGED conn_epoch

(* Fault: the queue moves up although a frame is in flight. *)
Launched_Preempt ==
  {f \in queued \ Refused(queued) : Opened(queued) /\ "road" \in f.has}

(* What step has in flight once the gate and the queue are served. *)
Launched ==
  {f \in queued \ Refused(queued) :
     inflight = {} /\ Opened(queued) /\ "road" \in f.has}

Flying == inflight \cup Launched

(* The first part of step: the gate decides, the queue moves up. *)
ServeQueue ==
  /\ queued' = queued \ (Refused(queued) \cup Launched)
  /\ stream_open' = Opened(queued)
  /\ ReportDropped(Refused(queued), "kHeadBarrier")

(* Nothing to write, or the socket takes a part of the frame or nothing.   *)
StepBlocked ==
  /\ connected
  /\ ServeQueue
  /\ inflight' = Flying
  /\ sent' \in {sent, Flying # {}}
  /\ UNCHANGED <<connected, conn_epoch, wire>>

(* The frame is written to its end: it has both segments. *)
StepSent ==
  /\ connected
  /\ ServeQueue
  /\ \E f \in Flying : Complete(f) /\ wire' = {f}
  /\ inflight' = {}
  /\ sent' = FALSE
  /\ UNCHANGED <<connected, conn_epoch>>

StepError ==
  /\ connected
  /\ Flying # {}
  /\ ReportDropped(Refused(queued), "kHeadBarrier")
  /\ DropConnection
  /\ UNCHANGED wire

(* 200 ms without progress: a last attempt to finish, then reconnection.    *)
StepStall ==
  /\ connected
  /\ inflight # {}
  /\ ReportDropped(Refused(queued), "kHeadBarrier")
  /\ \/ UNCHANGED wire
     \/ \E f \in inflight : Complete(f) /\ wire' = {f}
  /\ DropConnection

(* The connection is made outside the mutex, while submissions are refused. *)
Connect ==
  /\ ~connected
  /\ conn_epoch < MaxConnections
  /\ connected' = TRUE
  /\ stream_open' = FALSE
  /\ conn_epoch' = conn_epoch + 1
  /\ dropped' = <<>>
  /\ evs' = Append(evs, [ev |-> "kNewConnection", idx |-> 0, epoch |-> conn_epoch + 1])
  /\ wire' = {}
  /\ UNCHANGED <<inflight, queued, sent>>

-----------------------------------------------------------------------------
(* notify_disconnect, called by the reply thread *)
NotifyDisconnect ==
  /\ connected
  /\ DropConnection
  /\ UNCHANGED <<dropped, evs, wire>>

(* notify_stream_gap, called by the encoder callbacks *)
NotifyStreamGap == stream_open' = FALSE
===============================================================================
