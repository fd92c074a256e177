----------------------------- MODULE FrameScheduler -----------------------------
(***************************************************************************)
(* When the two encoders are asked for an I frame, and which frames are    *)
(* predicted to be one (bigmodeld/frame_scheduler.h, .cpp).  The requests  *)
(* a step of the scheduler returns are collected in need_req by main.cc    *)
(* and sent to the encoders just before the next pair.                     *)
(***************************************************************************)
EXTENDS Integers, SequencesExt

CONSTANTS
  Gop,          \* the distance of two I frames of an encoder: 20
  WidePhase,    \* the frame of a sequence that moves the wide phase: 10
  DropWindow    \* how many dropped frames are remembered: 32

ASSUME SchedulerConstants ==
  /\ Gop \in Nat \ {0}
  /\ WidePhase \in Nat \ {0}
  /\ DropWindow \in Nat \ {0}

Streams == {"road", "wide"}

VARIABLES
  seq_pos,        \* frames submitted in the sequence
  pending_req,    \* the streams whose request has not met a frame yet
  next_idr_seq,   \* per stream, the position of its next regular I frame
  recent_drop,    \* the last DropWindow frames reported as dropped
  need_req        \* Bigmodeld.need_req_road_, need_req_wide_

schedVars == <<seq_pos, pending_req, next_idr_seq, recent_drop, need_req>>

Remember(window, idx) ==
  LET grown == Append(window, idx)
  IN IF Len(grown) > DropWindow THEN Tail(grown) ELSE grown

SchedulerInit ==
  /\ seq_pos = 0
  /\ pending_req = {}
  /\ next_idr_seq = [s \in Streams |-> 0]
  /\ recent_drop = <<>>
  /\ need_req = {}

StartNewSequence ==
  /\ seq_pos' = 0
  /\ pending_req' = Streams
  /\ next_idr_seq' = [s \in Streams |-> 0]
  /\ need_req' = Streams

(* Fault: the window of the old connection stays. *)
OnConnect_KeepWindow ==
  /\ StartNewSequence
  /\ UNCHANGED recent_drop

OnConnect ==
  /\ StartNewSequence
  /\ recent_drop' = <<>>

(* A frame reported before starts no second sequence. *)
OnFrameDropped(idx) ==
  \/ /\ Contains(recent_drop, idx)
     /\ UNCHANGED schedVars
  \/ /\ ~Contains(recent_drop, idx)
     /\ StartNewSequence
     /\ recent_drop' = Remember(recent_drop, idx)

PhaseShift == IF seq_pos = WidePhase THEN {"wide"} ELSE {}

Requested == need_req \cup PhaseShift

PredictedIdr ==
  {s \in Streams : s \in pending_req \cup PhaseShift \/ seq_pos = next_idr_seq[s]}

(* Fault: the next regular I frame is counted from the sequence's start. *)
OnFrameSubmit_NoRebase ==
  /\ seq_pos' = seq_pos + 1
  /\ pending_req' = (pending_req \cup PhaseShift) \ PredictedIdr
  /\ next_idr_seq' = [s \in Streams |-> IF s \in PredictedIdr THEN Gop
                                        ELSE next_idr_seq[s]]
  /\ need_req' = {}
  /\ UNCHANGED recent_drop

(* on_frame_submit, and the requests that go out before the frame.          *)
OnFrameSubmit ==
  /\ seq_pos' = seq_pos + 1
  /\ pending_req' = (pending_req \cup PhaseShift) \ PredictedIdr
  /\ next_idr_seq' = [s \in Streams |-> IF s \in PredictedIdr THEN seq_pos + Gop
                                        ELSE next_idr_seq[s]]
  /\ need_req' = {}
  /\ UNCHANGED recent_drop
===============================================================================
