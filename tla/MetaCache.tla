------------------------------- MODULE MetaCache -------------------------------
(***************************************************************************)
(* The submission contexts of one encoder (bigmodeld/meta_cache.h): a FIFO *)
(* from which an encoder's output takes the context of its frame.  An      *)
(* output without a context is only classified, never allowed to empty the *)
(* queue.  The key is the camera's own frame counter, which only grows.    *)
(***************************************************************************)
EXTENDS Naturals, SequencesExt

EmptyMeta == [q |-> <<>>, pushed_since_clear |-> FALSE, last_pushed_id |-> 0]

MetaPush(c, om) ==
  [q |-> Append(c.q, om), pushed_since_clear |-> TRUE, last_pushed_id |-> om.frame_id]

(* Fault: the mark of a push survives the reconnection. *)
MetaClear_KeepMark(c) == [c EXCEPT !.q = <<>>, !.last_pushed_id = 0]

MetaClear(c) == EmptyMeta

Positions(c, id) == {i \in DOMAIN c.q : c.q[i].frame_id = id}

(* Why the queue has no context for the output: it is late, or was lost.   *)
MissOf(c, id) ==
  IF \/ ~c.pushed_since_clear
     \/ c.q # <<>> /\ id < Head(c.q).frame_id
     \/ c.q = <<>> /\ id <= c.last_pushed_id
  THEN "kStaleMiss" ELSE "kGapMiss"

TakeResult(c, id) == IF Positions(c, id) # {} THEN "kHit" ELSE MissOf(c, id)

(* A hit takes its entry and those before it; their outputs will not come. *)
Hit(c, id)       == CHOOSE i \in Positions(c, id) : \A j \in Positions(c, id) : i <= j
Taken(c, id)     == c.q[Hit(c, id)]
DeadBefore(c, id) == SubSeq(c.q, 1, Hit(c, id) - 1)

AfterTake(c, id) ==
  IF TakeResult(c, id) # "kHit" THEN c
  ELSE [c EXCEPT !.q = SubSeq(c.q, Hit(c, id) + 1, Len(c.q))]
===============================================================================
