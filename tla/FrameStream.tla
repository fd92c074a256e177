------------------------------- MODULE FrameStream -------------------------------
(***************************************************************************)
(* What the uplink promises to the server, on every connection: the frames *)
(* it gets belong to this connection, come in the order of their indices,  *)
(* one is finished before the next begins, and the first is a pair of I    *)
(* frames.  Frames may be missing, and the connection may end at any time. *)
(***************************************************************************)
EXTENDS Naturals

CONSTANT Indices   \* the indices of frames: natural numbers

VARIABLES
  up,        \* is there a connection
  epoch,     \* which one
  begun,     \* the index of the frame of which the server has a part, if any
  got        \* the last whole frame it got on this connection, if any

streamVars == <<up, epoch, begun, got>>

StreamInit ==
  /\ up = FALSE
  /\ epoch = 0
  /\ begun = {}
  /\ got = {}

Comes(idx) == \A g \in got : g.idx < idx

Connect ==
  /\ ~up
  /\ up' = TRUE
  /\ epoch' = epoch + 1
  /\ begun' = {}
  /\ got' = {}

Begin(idx) ==
  /\ up
  /\ begun = {}
  /\ Comes(idx)
  /\ begun' = {idx}
  /\ UNCHANGED <<up, epoch, got>>

GetFrame(idx, dual) ==
  /\ begun \subseteq {idx}
  /\ Comes(idx)
  /\ got = {} => dual
  /\ got' = {[idx |-> idx, epoch |-> epoch, dual |-> dual]}
  /\ begun' = {}

Finish(idx, dual) ==
  /\ up
  /\ GetFrame(idx, dual)
  /\ UNCHANGED <<up, epoch>>

(* The frame that was begun may still arrive whole. *)
Disconnect ==
  /\ up
  /\ up' = FALSE
  /\ begun' = {}
  /\ UNCHANGED epoch
  /\ \/ UNCHANGED got
     \/ \E idx \in Indices, dual \in BOOLEAN : GetFrame(idx, dual)

StreamNext ==
  \/ Connect
  \/ Disconnect
  \/ \E idx \in Indices : Begin(idx) \/ \E dual \in BOOLEAN : Finish(idx, dual)

StreamSpec == StreamInit /\ [][StreamNext]_streamVars
===============================================================================
