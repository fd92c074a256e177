------------------------------ MODULE MCBigmodeld ------------------------------
(***************************************************************************)
(* Behaviours of two kinds: short ones in which an encoder loses outputs    *)
(* and segments may be too large for the phone, and longer and deeper ones *)
(* in which neither happens.  A short one loses nothing of its last frame:  *)
(* there is none after it that could miss what was lost.                   *)
(***************************************************************************)
EXTENDS Bigmodeld

VARIABLE lossy   \* which kind; never changes

LossyFrames == 3
LossyDepth  == 1

Short ==
  /\ frames' <= LossyFrames
  /\ frame_idx' <= frame_idx + 1
  /\ \A s \in Streams : Len(enc'[s]) <= LossyDepth
  /\ \A s \in Streams : \A o \in out'[s] : ~o.submit => o.om.frame_id < LossyFrames

Lossless == \A s \in Streams : \A o \in out'[s] : o.submit

MCInit == Init /\ lossy \in BOOLEAN

MCNext ==
  /\ \/ Capture
     \/ Writer
     \/ Reply
     \/ \E s \in Streams : Callback(s) \/ (lossy /\ frames < LossyFrames /\ Swallow(s))
  /\ IF lossy THEN Short ELSE Lossless
  /\ UNCHANGED lossy

MCSpec == MCInit /\ [][MCNext]_<<vars, lossy>>

(* While no encoder loses an output, every frame that the server gets can  *)
(* be decoded: it is an I frame, or it follows the last frame the server    *)
(* got without a gap.  The head gate is there for this: after a gap it      *)
(* admits a pair of I frames only (uplink_sender.cpp:36-42, main.cc:        *)
(* 967-1035).                                                              *)
DecodeChain == [][~lossy => ChainKept]_vars

(* Nor is the head gate then ever closed with nobody about to open it: when *)
(* all that was encoded has been dealt with, either the gate is open or the *)
(* next pair has been asked to be I frames (main.cc:933-964).              *)
GateIsServed == ~lossy => GateServed
===============================================================================
