----------------------------- MODULE BigReplyLatch -----------------------------
(***************************************************************************)
(* What modeld drives with: the reply of the phone to the frame of now, if *)
(* it comes in time, or the small model (modeld/big_model.py).  A reader   *)
(* thread takes the replies from a socket that keeps the newest only and   *)
(* puts each into the latch; the main thread asks the latch for its frame, *)
(* waits until the deadline of the frame, and blends what it got.          *)
(*                                                                         *)
(* Time enters as the order of pictures and of their deadlines: pictures   *)
(* are 50 ms apart or more, a deadline is 60 ms after its picture.  A reply *)
(* is named by its frame; it carries the sequence of the phone it was made *)
(* in and its position there, which are the model's: modeld sees only the  *)
(* flag of the first reply of a sequence.  The big model is enabled, and   *)
(* the replies have the full length.                                       *)
(***************************************************************************)
EXTENDS Integers

CONSTANTS
  Warmup,        \* BIG_WARMUP_FRAMES: replies, and frames of modeld, that are not used
  Fade,          \* frames of a whole fade
  MaxFrames,     \* bound on the pictures
  MaxSequences   \* bound on the sequences the phone begins

ASSUME LatchConstants == Warmup \in Nat /\ Fade \in Nat \ {0}
                         /\ MaxFrames \in Nat /\ MaxSequences \in Nat

VARIABLES
  shown,      \* pictures taken so far
  passed,     \* how many of their deadlines have passed
  phone,      \* the phone: frame it answered last, sequence, position of the next reply
  msg,        \* the socket of bigModelReply, {} or the newest reply
  taken,      \* {} or what the reader thread carries: reply and time of arrival
  last,       \* _last
  since,      \* _replies_since_reset, up to Warmup
  gave_up,    \* _gave_up_t_eof
  alive,      \* was there a reply in the last alive_s (_last_seen)
  pc,         \* where the main thread is
  frame,      \* the frame it works on
  runs,       \* run_count, up to Warmup + 1
  patient,    \* it found the link alive: it waits for the deadline
  answer,     \* what select_frame got of the phone, {} or a reply
  w,          \* SourceBlender.w, in frames of a fade
  held,       \* is there a big_last
  resets,     \* history: the sequences whose first reply came to the latch
  counted,    \* history: how often the reply of a frame was counted as late, up to 2
  misses      \* history: frames without an output of the phone since the last with one

worldVars  == <<shown, passed, phone>>
readerVars == <<msg, taken>>
latchVars  == <<last, since, gave_up, alive, resets, counted>>
mainVars   == <<frame, runs, patient, answer>>
blendVars  == <<w, held, misses>>
vars == <<worldVars, readerVars, latchVars, pc, mainVars, blendVars>>

Frames == 1 .. MaxFrames

\* What is in a reply: a prediction, one the phone flags because a frame of the pair was
\* missing (REPLY_FLAG_ZERO_PAIR), or nothing but zeros.
Kinds == {"prediction", "zero pair", "zeros"}

AtMost(n, bound) == IF n < bound THEN n ELSE bound

Init ==
  /\ shown = 0 /\ passed = 0
  /\ phone = [frame |-> 0, seq |-> 0, pos |-> Warmup]
  /\ msg = {} /\ taken = {}
  /\ last = {} /\ since = Warmup /\ gave_up = 0 /\ alive = FALSE
  /\ pc = "recv" /\ frame = 0 /\ runs = 0 /\ patient = FALSE /\ answer = {}
  /\ w = 0 /\ held = FALSE
  /\ resets = {} /\ counted = [f \in Frames |-> 0] /\ misses = 0
-------------------------------------------------------------------------------
(* Cameras, time and the phone                                             *)

Show ==
  /\ shown < MaxFrames
  /\ shown <= passed + 1
  /\ shown' = shown + 1
  /\ UNCHANGED <<passed, phone, readerVars, latchVars, pc, mainVars, blendVars>>

Expire ==
  /\ passed < shown
  /\ passed' = passed + 1
  /\ UNCHANGED <<shown, phone, readerVars, latchVars, pc, mainVars, blendVars>>

\* The phone answers the frames it got in their order, some not at all; a sequence begins
\* when it lost its way or was restarted.  bigmodeld passes the reply on at once; one that
\* the reader has not taken is gone.
Answer(f, fresh, kind) ==
  LET seq == IF fresh THEN phone.seq + 1 ELSE phone.seq
      pos == IF fresh THEN 0 ELSE phone.pos
  IN  /\ phone.frame < f /\ f <= shown
      /\ fresh => phone.seq < MaxSequences
      /\ phone' = [frame |-> f, seq |-> seq, pos |-> AtMost(pos + 1, Warmup)]
      /\ msg' = {[frame |-> f, seq |-> seq, kind |-> kind, reset |-> fresh, pos |-> pos]}
      /\ UNCHANGED <<shown, passed, taken, latchVars, pc, mainVars, blendVars>>

\* Two seconds without a reply, the frames of which are not all pictures of the model; the
\* reader has nothing in hand.
Silence ==
  /\ alive /\ msg = {} /\ taken = {}
  /\ alive' = FALSE
  /\ UNCHANGED <<worldVars, readerVars, last, since, gave_up, resets, counted, pc,
                 mainVars, blendVars>>
-------------------------------------------------------------------------------
(* The reader thread                                                       *)

\* The time of arrival is taken before the lock: before or after the deadline of its frame,
\* and before or after the main thread looked at the clock for want of a link.
Take ==
  /\ taken = {}
  /\ \E r \in msg : taken' = {[reply   |-> r,
                               in_time |-> passed < r.frame,
                               at_hand |-> ~(pc = "look" /\ ~patient /\ frame = r.frame)]}
  /\ msg' = {}
  /\ UNCHANGED <<worldVars, latchVars, pc, mainVars, blendVars>>

(* Fault: the flag of a new sequence is counted like any other reply. *)
SinceReset_NoFlag(r) == AtMost(since + 1, Warmup)

SinceReset(r) == IF r.reset THEN 0 ELSE AtMost(since + 1, Warmup)

CountLate(f) == counted' = [counted EXCEPT ![f] = AtMost(@ + 1, 2)]

(* Fault: a reply that is late but still may be asked for counts as well. *)
TooLate_OnArrival(t) == t.reply.frame <= gave_up \/ ~t.in_time

TooLate(t) == t.reply.frame <= gave_up

OnReply ==
  /\ \E t \in taken :
       /\ since' = SinceReset(t.reply)
       /\ IF TooLate(t) THEN CountLate(t.reply.frame) ELSE UNCHANGED counted
       /\ last' = {[reply   |-> t.reply, in_time |-> t.in_time, at_hand |-> t.at_hand,
                    warming |-> t.reply.kind = "zero pair" \/ since' < Warmup]}
       /\ resets' = IF t.reply.reset THEN resets \cup {t.reply.seq} ELSE resets
  /\ taken' = {}
  /\ alive' = TRUE
  /\ pc' = IF pc = "asleep" THEN "look" ELSE pc
  /\ UNCHANGED <<worldVars, msg, gave_up, mainVars, blendVars>>
-------------------------------------------------------------------------------
(* The main thread                                                         *)

\* The next picture, or a later one when modeld is behind.
Recv ==
  /\ pc = "recv"
  /\ frame' \in frame + 1 .. shown
  /\ runs' = AtMost(runs + 1, Warmup + 1)
  /\ pc' = IF runs' > Warmup THEN "alive" ELSE "blend"
  /\ UNCHANGED <<worldVars, readerVars, latchVars, patient, answer, blendVars>>

LinkAlive ==
  /\ pc = "alive"
  /\ patient' = alive
  /\ pc' = "look"
  /\ UNCHANGED <<worldVars, readerVars, latchVars, frame, runs, answer, blendVars>>

Own == {r \in last : r.reply.frame = frame}

\* The deadline is 60 ms after the picture, or now when the link is dead.
OnTime(r) == IF patient THEN r.in_time ELSE r.at_hand

Usable(r) == OnTime(r) /\ ~r.warming

Expired == patient => frame <= passed

Decide(a) == answer' = a /\ pc' = "blend"

\* wait_for under the lock: what it finds, or the wait for the reader or the deadline.
Use ==
  /\ pc = "look"
  /\ \E r \in Own : OnTime(r) /\ Decide(IF Usable(r) THEN {r.reply} ELSE {})
  /\ UNCHANGED <<worldVars, readerVars, latchVars, frame, runs, patient, blendVars>>

RefuseLate ==
  /\ pc = "look"
  /\ \E r \in Own : ~OnTime(r)
  /\ gave_up' = frame
  /\ CountLate(frame)
  /\ Decide({})
  /\ UNCHANGED <<worldVars, readerVars, last, since, alive, resets, frame, runs,
                 patient, blendVars>>

TimeOut ==
  /\ pc = "look"
  /\ Own = {} /\ Expired
  /\ gave_up' = frame
  /\ Decide({})
  /\ UNCHANGED <<worldVars, readerVars, last, since, alive, resets, counted, frame,
                 runs, patient, blendVars>>

Wait ==
  /\ pc = "look"
  /\ Own = {} /\ ~Expired
  /\ pc' = "asleep"
  /\ UNCHANGED <<worldVars, readerVars, latchVars, mainVars, blendVars>>

\* The wait for the condition ends at the deadline.
Wake ==
  /\ pc = "asleep" /\ Expired
  /\ pc' = "look"
  /\ UNCHANGED <<worldVars, readerVars, latchVars, mainVars, blendVars>>

Big == {r \in answer : r.kind # "zeros"}

(* Fault: the fade begins when the reply of a frame is refused, not when it is missing. *)
Faded_OnRefusal == IF Big # {} THEN AtMost(w + 1, Fade)
                   ELSE IF answer # {} /\ w > 0 THEN w - 1 ELSE w

Faded == IF Big # {} THEN AtMost(w + 1, Fade) ELSE IF w > 0 THEN w - 1 ELSE 0

\* SourceBlender.step; the same weight goes into the action.
Blend ==
  /\ pc = "blend"
  /\ w' = Faded
  /\ held' = (held \/ Big # {})
  /\ misses' = IF Big # {} THEN 0 ELSE AtMost(misses + 1, Fade)
  /\ pc' = "recv" /\ answer' = {} /\ patient' = FALSE
  /\ UNCHANGED <<worldVars, readerVars, latchVars, frame, runs>>

Reader == Take \/ OnReply

Main == \/ Recv \/ LinkAlive
        \/ Use \/ RefuseLate \/ TimeOut \/ Wait \/ Wake
        \/ Blend

Next ==
  \/ Show \/ Expire
  \/ \E f \in Frames, fresh \in BOOLEAN, kind \in Kinds : Answer(f, fresh, kind)
  \/ Silence
  \/ Reader
  \/ Main

Spec == Init /\ [][Next]_vars
-------------------------------------------------------------------------------
Replies == [frame : Frames, seq : 0 .. MaxSequences, kind : Kinds, reset : BOOLEAN,
            pos : 0 .. Warmup]

AtMostOne(S) == {{}} \cup {{x} : x \in S}

TypeOK ==
  /\ shown \in 0 .. MaxFrames /\ passed \in 0 .. shown
  /\ phone \in [frame : 0 .. shown, seq : 0 .. MaxSequences, pos : 0 .. Warmup]
  /\ msg \in AtMostOne(Replies)
  /\ taken \in AtMostOne([reply : Replies, in_time : BOOLEAN, at_hand : BOOLEAN])
  /\ last \in AtMostOne([reply : Replies, in_time : BOOLEAN, at_hand : BOOLEAN,
                       warming : BOOLEAN])
  /\ since \in 0 .. Warmup /\ gave_up \in 0 .. frame /\ alive \in BOOLEAN
  /\ pc \in {"recv", "alive", "look", "asleep", "blend"}
  /\ frame \in 0 .. shown /\ runs \in 0 .. Warmup + 1 /\ patient \in BOOLEAN
  /\ answer \in AtMostOne(Replies)
  /\ w \in 0 .. Fade /\ held \in BOOLEAN /\ misses \in 0 .. Fade

\* An output of the phone is used for the frame it was made of and by no other; of a
\* sequence whose beginning was seen it is not among the first, whatever was lost on the
\* way, and neither is it among the first frames of modeld itself (big_model.py:137-147,
\* 169-192, 235-247).
AnswerIsSound == \A r \in answer :
  /\ r.frame = frame /\ r.kind # "zero pair"
  /\ r.seq \in resets => r.pos >= Warmup
  /\ runs > Warmup

\* A reply has one fate: it is counted as late once at most, whether it is refused in the
\* latch or comes after its frame was given up, and one that is used is not counted
\* (big_model.py:143-145, 176-192).
OneFate == /\ \A f \in Frames : counted[f] <= 1
           /\ \A r \in answer : counted[r.frame] = 0

\* An output of the phone that is no longer renewed leaves the action within one fade: what
\* is held has a weight only while fewer frames than that went without (big_model.py:87-103).
HoldEnds == w > 0 => held /\ misses < Fade
===============================================================================
