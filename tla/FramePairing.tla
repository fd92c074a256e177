----------------------------- MODULE FramePairing -----------------------------
(***************************************************************************)
(* Which two camera frames bigmodeld encodes as one pair, and which index  *)
(* a pair gets (bigmodeld/pair_matcher.h, FrameIndexer of                  *)
(* frame_scheduler.cpp, place_frame of main.cc).                           *)
(*                                                                         *)
(* A trigger exposes both cameras; each may miss it, and the wide one      *)
(* starts a little later.  Frames reach place_frame in the order of their  *)
(* camera, each camera on a thread of its own: the other camera's frame of *)
(* the same trigger may come before, after, much later or never.  The      *)
(* cameras count their frames apart, so frames are told by their start of  *)
(* frame (sof) alone.  The trigger a frame belongs to is known to the      *)
(* model only.                                                             *)
(***************************************************************************)
EXTENDS Integers, Sequences, FiniteSets

CONSTANTS
  Tolerance,    \* kPairToleranceNs: 10 ms
  Period,       \* kFramePeriodNs: 50 ms
  Gaps,         \* the times between two triggers: 50 to 66 ms
  Staggers,     \* how much later the wide camera starts: below 1.3 ms
  MaxTriggers,  \* bound on the triggers of a behaviour
  MaxDelay      \* how far a camera's thread may be behind, at most

Cameras == {"road", "wide"}
Other(c) == CHOOSE d \in Cameras : d # c

ASSUME TimesAssumption ==
  /\ Tolerance \in Nat /\ Period \in Nat \ {0}
  /\ Gaps \subseteq Nat /\ Staggers \subseteq Nat
  /\ MaxTriggers \in Nat /\ MaxDelay \in Nat \ {0}

\* Frames of one trigger are close, frames of two are not ("frames are at least 49 ms apart,
\* more than twice the tolerance").
ASSUME SyncAssumption ==
  /\ \A s \in Staggers : s <= Tolerance
  /\ \A g \in Gaps, s \in Staggers : g - s > Tolerance

\* A trigger comes a period after the one before, or later (frame_scheduler.cpp:21: "50 to 66 ms").
ASSUME GapsAssumption == \A g \in Gaps : g >= Period

VARIABLES
  delay,     \* bound on the frames of a camera that wait for its thread; never changes
  trigger,   \* how many triggers there were
  sof,       \* the time of the last one
  arriving,  \* per camera, the frames its thread has not placed yet
  slot,      \* per camera, the frame that waits for its other half, if any
  pairs,     \* the pairs encoded so far
  dead,      \* the frames that were given up
  ix         \* FrameIndexer: base, {} before the first frame of a connection; last; and,
             \* as history, the indices given on this connection

cameraVars == <<trigger, sof, arriving>>
matcherVars == <<slot, pairs, dead>>
vars == <<delay, cameraVars, matcherVars, ix>>

NewIndexer == [base |-> {}, last |-> 0, given |-> {}]

Init == /\ delay \in 1 .. MaxDelay
        /\ trigger = 0 /\ sof = 0
        /\ arriving = [c \in Cameras |-> <<>>]
        /\ slot = [c \in Cameras |-> {}]
        /\ pairs = {} /\ dead = {}
        /\ ix = NewIndexer
-------------------------------------------------------------------------------
\* The cameras in seen take the next picture.
Expose(seen, gap, stagger) ==
    /\ trigger < MaxTriggers
    /\ \A c \in Cameras : Len(arriving[c]) < delay
    /\ trigger' = trigger + 1
    /\ sof' = sof + gap
    /\ arriving' = [c \in Cameras |->
         IF c \notin seen THEN arriving[c]
         ELSE Append(arriving[c],
                     [cam |-> c, trigger |-> trigger',
                      sof |-> IF c = "wide" THEN sof' + stagger ELSE sof'])]
    /\ UNCHANGED <<delay, matcherVars, ix>>

(* Fault: whatever waits is the other half. *)
Pairable_Any(f, g) == TRUE

Pairable(f, g) == /\ f.sof - g.sof <= Tolerance
                  /\ g.sof - f.sof <= Tolerance

\* The nearest time slot, but never one that was given before.
IndexOf(x, f) ==
    LET delta   == f.sof - (CHOOSE b \in x.base : TRUE)
        nearest == IF 2 * (delta % Period) >= Period THEN delta \div Period + 1
                                                     ELSE delta \div Period
    IN  IF nearest <= x.last THEN x.last + 1 ELSE nearest

Indexed(x, f) ==
    LET idx == IF x.base = {} THEN 0 ELSE IndexOf(x, f)
    IN  [base  |-> IF x.base = {} THEN {f.sof} ELSE x.base,
         last  |-> idx,
         given |-> x.given \cup {[idx |-> idx, sof |-> f.sof]}]

\* fs holds one frame at most.
IndexedAll(x, fs) == IF fs = {} THEN x ELSE Indexed(x, CHOOSE f \in fs : TRUE)

Road(fs) == {f \in fs : f.cam = "road"}

(* Fault: the frame that was given up is numbered after the pair. *)
Numbered_PairFirst(x, gone, pair) == IndexedAll(IndexedAll(x, Road(pair)), Road(gone))

\* Road frames that were given up have a number too, before the pair's.
Numbered(x, gone, pair) == IndexedAll(IndexedAll(x, Road(gone)), Road(pair))

\* The other camera's frame that f pairs with, if it waits.
Half(f) == {g \in slot[Other(f.cam)] : Pairable(f, g)}

\* The other camera's frame, when f is already past its window.
Evicted(f) == {g \in slot[Other(f.cam)] : g.sof + Tolerance < f.sof}

\* f pairs with what waits, or else waits; in both cases the frame of its own camera that
\* waited before is given up.
Gone(f) == slot[f.cam] \cup (IF Half(f) = {} THEN Evicted(f) ELSE {})

(* Fault: the other half stays where it waited. *)
Waiting_Paired(f) == [slot EXCEPT
    ![f.cam] = IF Half(f) = {} THEN {f} ELSE {},
    ![Other(f.cam)] = @ \ Gone(f)]

Waiting(f) == [slot EXCEPT
    ![f.cam] = IF Half(f) = {} THEN {f} ELSE {},
    ![Other(f.cam)] = @ \ (Half(f) \cup Gone(f))]

Push(f) ==
    LET pair == IF Half(f) = {} THEN {} ELSE Half(f) \cup {f}
    IN  /\ slot'  = Waiting(f)
        /\ dead'  = dead \cup Gone(f)
        /\ pairs' = pairs \cup ({pair} \ {{}})
        /\ ix'    = Numbered(ix, Gone(f), pair)

\* place_frame of the thread of camera c.
PlaceFrame(c) ==
    /\ arriving[c] # <<>>
    /\ Push(Head(arriving[c]))
    /\ arriving' = [arriving EXCEPT ![c] = Tail(@)]
    /\ UNCHANGED <<delay, trigger, sof>>

\* A new connection, taken from the events at the head of place_frame: the numbers begin
\* again, the frames that wait stay.
Reconnect ==
    /\ ix' = NewIndexer
    /\ UNCHANGED <<delay, cameraVars, matcherVars>>

Next == \/ \E seen \in SUBSET Cameras, gap \in Gaps, stagger \in Staggers :
              Expose(seen, gap, stagger)
        \/ \E c \in Cameras : PlaceFrame(c)
        \/ Reconnect

Spec == Init /\ [][Next]_vars
-------------------------------------------------------------------------------
Frames(c) == [cam : {c}, trigger : 1 .. trigger, sof : Nat]

\* Types; a camera has one frame waiting at most.
TypeOK ==
    /\ delay \in 1 .. MaxDelay
    /\ trigger \in Nat /\ sof \in Nat
    /\ \A c \in Cameras : /\ \A i \in 1 .. Len(arriving[c]) : arriving[c][i] \in Frames(c)
                          /\ slot[c] \subseteq Frames(c)
                          /\ \A f, g \in slot[c] : f = g
    /\ \A p \in pairs : /\ Cardinality(p) = 2
                        /\ {f.cam : f \in p} = Cameras
    /\ \A f \in (UNION pairs) \cup dead : f \in Frames("road") \cup Frames("wide")

\* The two halves of a pair are pictures of one moment, although the matcher does not know
\* which frames belong together (pair_matcher.h: no pair of different frames).
SamePicture == \A p \in pairs : \A f, g \in p : f.trigger = g.trigger

UsedOnce == /\ \A p, q \in pairs : p # q => p \cap q = {}
            /\ \A p \in pairs : p \cap (dead \cup slot["road"] \cup slot["wide"]) = {}
            /\ dead \cap (slot["road"] \cup slot["wide"]) = {}

NoneLost == \A f \in dead :
    \A g \in dead \cup slot[Other(f.cam)] \cup
             {arriving[Other(f.cam)][i] : i \in 1 .. Len(arriving[Other(f.cam)])} :
        f.cam # g.cam => f.trigger # g.trigger

\* A frame leaves the matcher once, encoded in one pair or given up (pair_matcher.h:76-108);
\* and when no thread is later than the next picture, none is given up whose other half was
\* taken: it came, comes or waits.
OnceAndNoneLost == UsedOnce /\ (delay = 1 => NoneLost)

\* The number of a frame is that of the time slot of 50 ms nearest to its start, whatever
\* was given up or missed before it.
NearestSlot ==
    \A i \in ix.given, b \in ix.base :
        LET off == 2 * (i.idx * Period - (i.sof - b)) IN off <= Period /\ -off <= Period
===============================================================================
