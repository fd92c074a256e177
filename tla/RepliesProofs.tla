------------------------------- MODULE RepliesProofs -------------------------------
(***************************************************************************)
(* What modeld uses of the phone is of its frame and past the warm-up, no   *)
(* reply has two fates, and the hold has an end: for any warm-up and fade,  *)
(* any number of pictures and sequences, and every order of the two threads,*)
(* the phone and the clock.  And the curve targets that the phone computes   *)
(* are of the connection that is up.                                        *)
(*                                                                         *)
(* The latch knows neither sequences nor positions: it counts the replies   *)
(* since the last flag it saw.  The proof compares the two.  Replies reach  *)
(* the latch in the order they were made, so that since the flag of a       *)
(* sequence came no more than its position of them can have come; when the  *)
(* flag was lost, the sequence is not among those seen.                     *)
(***************************************************************************)
EXTENDS BigReplyLatch, ReplyLink, SequenceTheorems, TLAPS

Taken == [reply : Replies, in_time : BOOLEAN, at_hand : BOOLEAN]
Kept  == [reply : Replies, in_time : BOOLEAN, at_hand : BOOLEAN, warming : BOOLEAN]

OneOf(S, T) == S \subseteq T /\ \A x, y \in S : x = y

WorldOK  == /\ shown \in 0 .. MaxFrames /\ passed \in 0 .. shown
            /\ phone \in [frame : 0 .. shown, seq : 0 .. MaxSequences, pos : 0 .. Warmup]
ReaderOK == OneOf(msg, Replies) /\ OneOf(taken, Taken)
LatchOK  == /\ OneOf(last, Kept) /\ since \in 0 .. Warmup /\ resets \subseteq 0 .. MaxSequences
            /\ gave_up \in 0 .. frame /\ alive \in BOOLEAN
MainOK   == /\ pc \in {"recv", "alive", "look", "asleep", "blend"}
            /\ frame \in 0 .. shown /\ runs \in 0 .. Warmup + 1 /\ patient \in BOOLEAN
            /\ OneOf(answer, Replies)
FateOK   == counted \in [Frames -> Nat]

(* s is a later reply than r: of a later frame, and further in the sequence *)
(* or in another one.                                                       *)
Later(s, r) == /\ r.frame < s.frame /\ r.seq <= s.seq
               /\ r.seq = s.seq => ~s.reset /\ AtMost(r.pos + 1, Warmup) <= s.pos

(* The phone is past r.                                                     *)
Past(r) == /\ r.frame <= phone.frame /\ r.seq <= phone.seq
           /\ r.seq = phone.seq => AtMost(r.pos + 1, Warmup) <= phone.pos

(* Replies are on their way in the order they were made.                    *)
InOrder == /\ \A m \in msg : Past(m)
           /\ \A t \in taken : Past(t.reply) /\ \A m \in msg : Later(m, t.reply)
           /\ \A l \in last : /\ Past(l.reply)
                              /\ \A m \in msg : Later(m, l.reply)
                              /\ \A t \in taken : Later(t.reply, l.reply)

(* What was seen to begin is no later than what was seen last.              *)
SeenBefore == \A s \in resets : \E l \in last : s <= l.reply.seq

(* Of a sequence whose beginning was seen, no more replies came than its    *)
(* position says.                                                           *)
Counted == \A l \in last : /\ l.reply.seq \in resets => since <= l.reply.pos
                           /\ ~l.warming => since = Warmup /\ l.reply.kind # "zero pair"

(* The frame in hand was not given up, and is past the warm-up of modeld.   *)
InHand == /\ pc \in {"alive", "look", "asleep"} => gave_up < frame /\ runs > Warmup
          /\ pc # "blend" => answer = {}
          /\ \A a \in answer : /\ a.frame = frame /\ a.kind # "zero pair" /\ gave_up < frame
                               /\ a.seq \in resets => a.pos >= Warmup
                               /\ runs > Warmup
                               /\ \E l \in last : a.seq <= l.reply.seq

(* What was counted was given up, and its reply came.                       *)
Fates == \A f \in Frames : /\ counted[f] <= 1
                           /\ counted[f] > 0 => f <= gave_up /\ \E l \in last : f <= l.reply.frame

(* The weight is gone when a whole fade went without an output.             *)
Fading == w \in 0 .. Fade /\ misses \in 0 .. Fade /\ w + misses <= Fade
          /\ held \in BOOLEAN /\ (w > 0 => held)

LInv == /\ WorldOK /\ ReaderOK /\ LatchOK /\ MainOK /\ FateOK
        /\ InOrder /\ SeenBefore /\ Counted /\ InHand /\ Fates /\ Fading

-----------------------------------------------------------------------------
(* Where things are; the flags of times say nothing here.                   *)
LEMMA TypesOfRecords ==
  /\ \A r \in Replies : r.frame \in Frames /\ r.seq \in 0 .. MaxSequences /\ r.pos \in 0 .. Warmup
                        /\ r.kind \in Kinds /\ r.reset \in BOOLEAN
  /\ \A t \in Taken : t.reply \in Replies /\ t.in_time \in BOOLEAN /\ t.at_hand \in BOOLEAN
  /\ \A l \in Kept : l.reply \in Replies /\ l.warming \in BOOLEAN
BY DEF Replies, Taken, Kept

LEMMA AtMostIsLeast ==
  ASSUME NEW n \in Nat, NEW bound \in Nat
  PROVE  AtMost(n, bound) \in 0 .. bound /\ AtMost(n, bound) <= n
         /\ (n <= bound => AtMost(n, bound) = n) /\ (n >= bound => AtMost(n, bound) = bound)
BY DEF AtMost

LEMMA LatchStarts == Init => LInv
<1> SUFFICES ASSUME Init PROVE LInv
    OBVIOUS
<1>a. Warmup \in 0 .. Warmup /\ 0 \in 0 .. Warmup /\ 0 \in 0 .. Warmup + 1 /\ 0 \in 0 .. MaxFrames
      /\ 0 \in 0 .. MaxSequences /\ 0 \in 0 .. Fade /\ 0 \in 0 .. 0 /\ 0 + 0 <= Fade /\ ~(0 > 0)
  BY LatchConstants
<1>b. phone \in [frame : 0 .. 0, seq : 0 .. MaxSequences, pos : 0 .. Warmup]
  BY <1>a, Zenon DEF Init
<1>1. WorldOK /\ ReaderOK /\ LatchOK /\ MainOK
  BY <1>a, <1>b, Zenon DEF Init, WorldOK, ReaderOK, LatchOK, MainOK, OneOf
<1>2. FateOK /\ Fates
  BY DEF Init, FateOK, Fates
<1>3. InOrder /\ SeenBefore /\ Counted /\ InHand
  BY Zenon DEF Init, InOrder, SeenBefore, Counted, InHand
<1>4. Fading
  BY <1>a, Zenon DEF Init, Fading
<1> QED
  BY <1>1, <1>2, <1>3, <1>4 DEF LInv

(* Pictures and their deadlines.                                            *)
LEMMA ClockKeeps ==
  ASSUME LInv, Show \/ Expire PROVE LInv'
<1>1. /\ UNCHANGED <<phone, msg, taken, last, since, gave_up, alive, resets, counted, pc, frame, runs,
                     patient, answer, w, held, misses>>
      /\ shown' \in {shown, shown + 1} /\ passed' \in 0 .. shown' /\ shown' \in 0 .. MaxFrames
  BY LatchConstants DEF Show, Expire, readerVars, latchVars, mainVars, blendVars, LInv, WorldOK
<1>2. WorldOK'
  BY <1>1, LatchConstants DEF LInv, WorldOK
<1>3. MainOK'
  BY <1>1 DEF LInv, WorldOK, MainOK
<1>4. ReaderOK' /\ LatchOK' /\ FateOK' /\ Fates' /\ Fading'
  BY <1>1 DEF LInv, ReaderOK, LatchOK, FateOK, Fates, Fading
<1>5. InOrder' /\ SeenBefore' /\ Counted' /\ InHand'
  BY <1>1 DEF LInv, InOrder, Past, SeenBefore, Counted, InHand
<1> QED
  BY <1>2, <1>3, <1>4, <1>5 DEF LInv

(* The phone makes a reply that is later than all there are.                *)
LEMMA AnswerKeeps ==
  ASSUME LInv, NEW f \in Frames, NEW fresh \in BOOLEAN, NEW kind \in Kinds, Answer(f, fresh, kind)
  PROVE  LInv'
<1>1. UNCHANGED <<shown, passed, taken, last, since, gave_up, alive, resets, counted, pc, frame, runs,
                  patient, answer, w, held, misses>>
  BY DEF Answer, latchVars, mainVars, blendVars
<1>2. phone.frame \in 0 .. shown /\ phone.seq \in 0 .. MaxSequences /\ phone.pos \in 0 .. Warmup
      /\ shown \in Nat /\ f \in Nat
  BY LatchConstants DEF LInv, WorldOK, Frames
<1>3. PICK seq \in 0 .. MaxSequences, pos \in 0 .. Warmup :
        /\ phone.frame < f /\ f <= shown
        /\ phone.seq <= seq /\ (phone.seq = seq => ~fresh /\ pos = phone.pos)
        /\ phone' = [frame |-> f, seq |-> seq, pos |-> AtMost(pos + 1, Warmup)]
        /\ msg' = {[frame |-> f, seq |-> seq, kind |-> kind, reset |-> fresh, pos |-> pos]}
  <2>1. CASE fresh
    <3>1. /\ phone.frame < f /\ f <= shown /\ phone.seq < MaxSequences
          /\ phone' = [frame |-> f, seq |-> phone.seq + 1, pos |-> AtMost(0 + 1, Warmup)]
          /\ msg' = {[frame |-> f, seq |-> phone.seq + 1, kind |-> kind, reset |-> fresh, pos |-> 0]}
      BY <2>1 DEF Answer
    <3>2. phone.seq + 1 \in 0 .. MaxSequences /\ 0 \in 0 .. Warmup /\ phone.seq <= phone.seq + 1
          /\ phone.seq # phone.seq + 1
      BY <1>2, <3>1, LatchConstants
    <3> QED
      BY <3>1, <3>2
  <2>2. CASE ~fresh
    <3>1. /\ phone.frame < f /\ f <= shown
          /\ phone' = [frame |-> f, seq |-> phone.seq, pos |-> AtMost(phone.pos + 1, Warmup)]
          /\ msg' = {[frame |-> f, seq |-> phone.seq, kind |-> kind, reset |-> fresh, pos |-> phone.pos]}
      BY <2>2 DEF Answer
    <3> QED
      BY <1>2, <2>2, <3>1
  <2> QED
    BY <2>1, <2>2
<1>4. PICK made \in Replies : /\ msg' = {made} /\ made.frame = f /\ made.seq = seq
                             /\ made.pos = pos /\ made.reset = fresh
  <2>1. [frame |-> f, seq |-> seq, kind |-> kind, reset |-> fresh, pos |-> pos] \in Replies
    BY DEF Replies
  <2> QED
    BY <1>3, <2>1
<1>5. \A r \in Replies : Past(r) => Later(made, r)
  BY <1>2, <1>3, <1>4, TypesOfRecords DEF Past, Later, Frames
<1>6. AtMost(pos + 1, Warmup) \in 0 .. Warmup
  BY <1>3, LatchConstants DEF AtMost
<1>7. phone' \in [frame : 0 .. shown, seq : 0 .. MaxSequences, pos : 0 .. Warmup]
      /\ phone'.frame = f /\ phone'.seq = seq /\ phone'.pos = AtMost(pos + 1, Warmup)
  BY <1>1, <1>2, <1>3, <1>6
<1>8. \A r \in Replies : Past(r) => Past(r)'
  <2> SUFFICES ASSUME NEW r \in Replies, Past(r) PROVE Past(r)'
      OBVIOUS
  <2>1. r.pos \in Nat /\ r.seq \in Nat /\ r.frame \in Nat
    BY TypesOfRecords, LatchConstants DEF Frames
  <2>2. r.seq = seq => AtMost(r.pos + 1, Warmup) <= AtMost(pos + 1, Warmup)
    BY <1>2, <1>3, <2>1, LatchConstants DEF Past, AtMost
  <2> QED
    BY <1>1, <1>2, <1>3, <1>7, <2>1, <2>2 DEF Past
<1>9. Past(made)'
  <2>1. f <= f /\ seq <= seq
    BY <1>2, <1>3
  <2>2. AtMost(pos + 1, Warmup) <= AtMost(pos + 1, Warmup)
    BY <1>6
  <2> QED
    BY <1>4, <1>7, <2>1, <2>2 DEF Past
<1>10. WorldOK' /\ ReaderOK'
  BY <1>1, <1>4, <1>7 DEF LInv, WorldOK, ReaderOK, OneOf
<1>11. InOrder'
  <2>1. /\ \A m \in msg : m \in Replies
        /\ \A t \in taken : t.reply \in Replies
        /\ \A l \in last : l.reply \in Replies
    <3>1. msg \subseteq Replies /\ taken \subseteq Taken /\ last \subseteq Kept
      BY DEF LInv, ReaderOK, LatchOK, OneOf
    <3> QED
      BY <3>1, TypesOfRecords, Zenon
  <2>2. \A m \in msg' : Past(m)'
    BY <1>4, <1>9
  <2>3. \A t \in taken' : Past(t.reply)' /\ \A m \in msg' : Later(m, t.reply)
    <3> SUFFICES ASSUME NEW t \in taken PROVE Past(t.reply)' /\ Later(made, t.reply)
        BY <1>1, <1>4
    <3> QED
      BY <1>5, <1>8, <2>1 DEF LInv, InOrder
  <2>4. \A l \in last' : Past(l.reply)' /\ (\A m \in msg' : Later(m, l.reply))
                          /\ \A t \in taken' : Later(t.reply, l.reply)
    <3> SUFFICES ASSUME NEW l \in last
                 PROVE  Past(l.reply)' /\ Later(made, l.reply) /\ \A t \in taken : Later(t.reply, l.reply)
        BY <1>1, <1>4
    <3> QED
      BY <1>5, <1>8, <2>1 DEF LInv, InOrder
  <2> QED
    BY <2>2, <2>3, <2>4 DEF InOrder
<1>12. LatchOK' /\ MainOK' /\ FateOK' /\ SeenBefore' /\ Counted' /\ InHand' /\ Fates' /\ Fading'
  BY <1>1 DEF LInv, LatchOK, MainOK, FateOK, SeenBefore, Counted, InHand, Fates, Fading
<1> QED
  BY <1>10, <1>11, <1>12 DEF LInv

(* The link is quiet, the main thread sleeps, wakes or asks.                *)
LEMMA WaitingKeeps ==
  ASSUME LInv, Silence \/ LinkAlive \/ Wait \/ Wake PROVE LInv'
<1>1. /\ UNCHANGED <<shown, passed, phone, msg, taken, last, since, gave_up, resets, counted, frame, runs,
                     answer, w, held, misses>>
      /\ alive' \in BOOLEAN /\ patient' \in BOOLEAN
      /\ \/ pc' = pc
         \/ pc \in {"alive", "look", "asleep"} /\ pc' \in {"alive", "look", "asleep"}
  BY DEF Silence, LinkAlive, Wait, Wake, worldVars, readerVars, latchVars, mainVars, blendVars, LInv,
         LatchOK, MainOK
<1>2. WorldOK' /\ ReaderOK' /\ LatchOK' /\ MainOK' /\ FateOK'
  BY <1>1 DEF LInv, WorldOK, ReaderOK, LatchOK, MainOK, FateOK
<1>3. InOrder' /\ SeenBefore' /\ Counted' /\ InHand' /\ Fates' /\ Fading'
  BY <1>1 DEF LInv, InOrder, Past, SeenBefore, Counted, InHand, Fates, Fading
<1> QED
  BY <1>2, <1>3 DEF LInv

LEMMA TakeKeeps ==
  ASSUME LInv, Take PROVE LInv'
<1>1. /\ UNCHANGED <<shown, passed, phone, last, since, gave_up, alive, resets, counted, pc, frame, runs,
                     patient, answer, w, held, misses>>
      /\ taken = {} /\ msg' = {}
  BY DEF Take, worldVars, latchVars, mainVars, blendVars
<1>2. PICK r \in msg : taken' = {[reply   |-> r, in_time |-> passed < r.frame,
                                 at_hand |-> ~(pc = "look" /\ ~patient /\ frame = r.frame)]}
  BY DEF Take
<1>3. PICK late \in BOOLEAN, hand \in BOOLEAN : taken' = {[reply |-> r, in_time |-> late, at_hand |-> hand]}
  <2>1. (passed < r.frame) \in BOOLEAN /\ (~(pc = "look" /\ ~patient /\ frame = r.frame)) \in BOOLEAN
    OBVIOUS
  <2> QED
    BY <1>2, <2>1, Zenon
<1>4. r \in Replies
  BY DEF LInv, ReaderOK, OneOf
<1>5. WorldOK' /\ LatchOK' /\ MainOK' /\ FateOK' /\ SeenBefore' /\ Counted' /\ InHand' /\ Fates' /\ Fading'
  BY <1>1 DEF LInv, WorldOK, LatchOK, MainOK, FateOK, SeenBefore, Counted, InHand, Fates, Fading
<1>6. ReaderOK'
  BY <1>1, <1>3, <1>4 DEF ReaderOK, OneOf, Taken
<1>7. InOrder'
  BY <1>1, <1>3 DEF LInv, InOrder, Past
<1> QED
  BY <1>5, <1>6, <1>7 DEF LInv

(* A reply comes to the latch.  It is later than what the latch had: no      *)
(* frame in hand is of its sequence if it begins one, and it was not counted. *)
LEMMA OnReplyKeeps ==
  ASSUME LInv, OnReply PROVE LInv'
<1>1. /\ UNCHANGED <<shown, passed, phone, msg, gave_up, frame, runs, patient, answer, w, held, misses>>
      /\ taken' = {} /\ alive' = TRUE /\ pc' = IF pc = "asleep" THEN "look" ELSE pc
  BY DEF OnReply, worldVars, mainVars, blendVars
<1>2. PICK t \in taken :
        /\ since' = SinceReset(t.reply)
        /\ IF TooLate(t) THEN CountLate(t.reply.frame) ELSE UNCHANGED counted
        /\ last' = {[reply |-> t.reply, in_time |-> t.in_time, at_hand |-> t.at_hand,
                     warming |-> t.reply.kind = "zero pair" \/ since' < Warmup]}
        /\ resets' = IF t.reply.reset THEN resets \cup {t.reply.seq} ELSE resets
  BY DEF OnReply
<1>3. t \in Taken /\ last \subseteq Kept /\ msg \subseteq Replies /\ since \in 0 .. Warmup
      /\ gave_up \in Nat /\ counted \in [Frames -> Nat]
  BY LatchConstants DEF LInv, ReaderOK, LatchOK, MainOK, WorldOK, FateOK, OneOf
<1>4. PICK r \in Replies : r = t.reply /\ t.in_time \in BOOLEAN /\ t.at_hand \in BOOLEAN
  BY <1>3, TypesOfRecords
<1>5. r.frame \in Frames /\ r.frame \in Nat /\ r.seq \in Nat /\ r.pos \in 0 .. Warmup /\ r.reset \in BOOLEAN
  BY TypesOfRecords, LatchConstants DEF Frames
<1>6. /\ Past(r) /\ \A m \in msg : Later(m, r)
      /\ \A l \in last : Later(r, l.reply)
  BY <1>4 DEF LInv, InOrder
<1>7. since' \in 0 .. Warmup /\ (r.reset => since' = 0) /\ (~r.reset => since' = AtMost(since + 1, Warmup))
  <2>1. since' = IF r.reset THEN 0 ELSE AtMost(since + 1, Warmup)
    BY <1>2, <1>4, Zenon DEF SinceReset
  <2>2. AtMost(since + 1, Warmup) \in 0 .. Warmup /\ 0 \in 0 .. Warmup
    BY <1>3, LatchConstants DEF AtMost
  <2> QED
    BY <1>5, <2>1, <2>2, Zenon
<1>8. PICK warming \in BOOLEAN :
        /\ warming = (r.kind = "zero pair" \/ since' < Warmup)
        /\ last' = {[reply |-> r, in_time |-> t.in_time, at_hand |-> t.at_hand, warming |-> warming]}
  <2>1. (r.kind = "zero pair" \/ since' < Warmup) \in BOOLEAN
    OBVIOUS
  <2> QED
    BY <1>2, <1>4, <2>1, Zenon
<1>9. PICK new \in Kept : last' = {new} /\ new.reply = r /\ new.warming = warming
  <2>1. [reply |-> r, in_time |-> t.in_time, at_hand |-> t.at_hand, warming |-> warming] \in Kept
    BY <1>4 DEF Kept
  <2> QED
    BY <1>8, <2>1
<1>10. resets' = IF r.reset THEN resets \cup {r.seq} ELSE resets
  BY <1>2, <1>4
<1>11. WorldOK' /\ ReaderOK' /\ LatchOK' /\ MainOK'
  <2>1. resets' \subseteq 0 .. MaxSequences
    BY <1>10, TypesOfRecords DEF LInv, LatchOK
  <2> QED
    BY <1>1, <1>7, <1>9, <2>1 DEF LInv, WorldOK, ReaderOK, LatchOK, MainOK, OneOf
<1>12. InOrder'
  <2>1. Past(r)' /\ \A m \in msg : Past(m)'
    BY <1>1, <1>6 DEF LInv, InOrder, Past
  <2> QED
    BY <1>1, <1>6, <1>9, <2>1 DEF InOrder
<1>13. \A s \in resets : s <= r.seq
  <2> TAKE s \in resets
  <2>1. PICK l \in last : s <= l.reply.seq
    BY DEF LInv, SeenBefore
  <2>2. l.reply.seq \in Nat /\ s \in Nat
    <3>1. resets \subseteq 0 .. MaxSequences /\ l.reply.seq \in 0 .. MaxSequences
      BY <1>3, TypesOfRecords DEF LInv, LatchOK
    <3> QED
      BY <3>1, LatchConstants
  <2> QED
    BY <1>5, <1>6, <2>1, <2>2 DEF Later
<1>14. SeenBefore'
  BY <1>5, <1>9, <1>10, <1>13 DEF SeenBefore
<1>15. Counted'
  <2>1. r.seq \in resets' => since' <= r.pos
    <3>1. CASE r.reset
      BY <1>5, <1>7, <3>1
    <3>2. CASE ~r.reset /\ r.seq \in resets
      <4>1. PICK l \in last : r.seq <= l.reply.seq
        BY <3>2 DEF LInv, SeenBefore
      <4>2. l.reply \in Replies /\ l.reply.seq \in Nat /\ l.reply.pos \in Nat
        BY <1>3, TypesOfRecords, LatchConstants
      <4>3. l.reply.seq = r.seq /\ AtMost(l.reply.pos + 1, Warmup) <= r.pos
        BY <1>5, <1>6, <4>1, <4>2 DEF Later
      <4>4. since <= l.reply.pos
        BY <3>2, <4>3 DEF LInv, Counted
      <4> QED
        BY <1>3, <1>5, <1>7, <3>2, <4>2, <4>3, <4>4, LatchConstants DEF AtMost
    <3> QED
      BY <1>10, <3>1, <3>2
  <2>2. ~warming => since' = Warmup /\ r.kind # "zero pair"
    <3>1. ~warming => ~(since' < Warmup) /\ r.kind # "zero pair"
      BY <1>8, Zenon
    <3>2. since' \in 0 .. Warmup
      BY <1>7
    <3>3. ~(since' < Warmup) => since' = Warmup
      BY <3>2, LatchConstants
    <3> QED
      BY <3>1, <3>3, Zenon
  <2> QED
    BY <1>9, <2>1, <2>2 DEF Counted
<1>16. \A a \in answer : a.seq <= r.seq /\ (r.reset => a.seq # r.seq)
  <2> TAKE a \in answer
  <2>1. PICK l \in last : a.seq <= l.reply.seq
    BY DEF LInv, InHand
  <2>2. a.seq \in Nat /\ l.reply.seq \in Nat
    BY <1>3, TypesOfRecords, LatchConstants DEF LInv, MainOK, OneOf
  <2> QED
    BY <1>5, <1>6, <2>1, <2>2 DEF Later
<1>17. InHand'
  <2>1. \A a \in answer : a.seq \in resets' => a.seq \in resets
    BY <1>10, <1>16
  <2> QED
    BY <1>1, <1>9, <1>16, <2>1 DEF LInv, InHand
<1>18. FateOK' /\ Fates'
  <2>1. \A f \in Frames : counted[f] > 0 => f < r.frame
    <3> SUFFICES ASSUME NEW f \in Frames, counted[f] > 0 PROVE f < r.frame
        OBVIOUS
    <3>1. PICK l \in last : f <= l.reply.frame
      BY DEF LInv, Fates
    <3>2. l.reply.frame \in Nat
      BY <1>3, TypesOfRecords, LatchConstants DEF Frames
    <3> QED
      BY <1>5, <1>6, <3>1, <3>2 DEF Later, Frames
  <2>2. \A f \in Frames : f \in Nat /\ counted[f] \in Nat /\ counted[f] <= 1
                         /\ (counted[f] > 0 => f <= gave_up)
    BY <1>3, LatchConstants DEF LInv, Fates, Frames
  <2>3. CASE r.frame <= gave_up
    <3>1. counted' = [counted EXCEPT ![r.frame] = AtMost(counted[r.frame] + 1, 2)]
      BY <1>2, <1>4, <2>3 DEF TooLate, CountLate
    <3>2. counted[r.frame] = 0
      BY <1>5, <2>1, <2>2
    <3>3. counted' = [counted EXCEPT ![r.frame] = 1]
      BY <3>1, <3>2 DEF AtMost
    <3> QED
      BY <1>1, <1>3, <1>5, <1>9, <2>1, <2>2, <2>3, <3>3 DEF FateOK, Fates
  <2>4. CASE ~(r.frame <= gave_up)
    <3>1. counted' = counted
      BY <1>2, <1>4, <2>4 DEF TooLate
    <3> QED
      BY <1>1, <1>3, <1>5, <1>9, <2>1, <2>2, <3>1 DEF FateOK, Fates
  <2> QED
    BY <2>3, <2>4
<1>19. Fading'
  BY <1>1 DEF LInv, Fading
<1> QED
  BY <1>11, <1>12, <1>14, <1>15, <1>17, <1>18, <1>19 DEF LInv

-----------------------------------------------------------------------------
(* The next frame: nothing that was given up is of it.                      *)
LEMMA RecvKeeps ==
  ASSUME LInv, Recv PROVE LInv'
<1>1. /\ UNCHANGED <<shown, passed, phone, msg, taken, last, since, gave_up, alive, resets, counted,
                     patient, answer, w, held, misses>>
      /\ pc = "recv" /\ frame' \in frame + 1 .. shown
      /\ runs' = AtMost(runs + 1, Warmup + 1)
      /\ pc' = IF runs' > Warmup THEN "alive" ELSE "blend"
  BY DEF Recv, worldVars, readerVars, latchVars, blendVars
<1>2. frame \in 0 .. shown /\ shown \in Nat /\ gave_up \in 0 .. frame /\ runs \in 0 .. Warmup + 1
      /\ answer = {}
  <2>1. answer = {}
    BY <1>1, Zenon DEF LInv, InHand
  <2> QED
    BY <2>1, LatchConstants DEF LInv, MainOK, LatchOK, WorldOK
<1>3. /\ frame' \in 0 .. shown /\ gave_up < frame' /\ gave_up \in 0 .. frame'
      /\ runs' \in 0 .. Warmup + 1
  BY <1>1, <1>2, LatchConstants DEF AtMost
<1>4. WorldOK' /\ ReaderOK' /\ LatchOK' /\ MainOK' /\ FateOK'
  BY <1>1, <1>3 DEF LInv, WorldOK, ReaderOK, LatchOK, MainOK, FateOK
<1>5. InHand'
  BY <1>1, <1>2, <1>3 DEF InHand
<1>6. InOrder' /\ SeenBefore' /\ Counted' /\ Fates' /\ Fading'
  BY <1>1 DEF LInv, InOrder, Past, SeenBefore, Counted, Fates, Fading
<1> QED
  BY <1>4, <1>5, <1>6 DEF LInv

(* The latch has the reply of the frame and the main thread uses it, or not. *)
LEMMA UseKeeps ==
  ASSUME LInv, Use PROVE LInv'
<1>1. /\ UNCHANGED <<shown, passed, phone, msg, taken, last, since, gave_up, alive, resets, counted,
                     frame, runs, patient, w, held, misses>>
      /\ pc = "look" /\ pc' = "blend"
  BY DEF Use, Decide, worldVars, readerVars, latchVars, blendVars
<1>2. PICK l \in last : l.reply.frame = frame /\ answer' = IF Usable(l) THEN {l.reply} ELSE {}
  BY DEF Use, Own, Decide
<1>3. l \in Kept /\ l.reply \in Replies /\ l.reply.seq \in Nat
  BY TypesOfRecords, LatchConstants DEF LInv, LatchOK, OneOf
<1>4. gave_up < frame /\ runs > Warmup
  BY <1>1 DEF LInv, InHand
<1>5. \A a \in answer' : a = l.reply /\ since = Warmup /\ a.kind # "zero pair"
                         /\ (a.seq \in resets => since <= a.pos)
  BY <1>2 DEF Usable, LInv, Counted
<1>6. WorldOK' /\ ReaderOK' /\ LatchOK' /\ FateOK' /\ InOrder' /\ SeenBefore' /\ Counted' /\ Fates' /\ Fading'
  BY <1>1 DEF LInv, WorldOK, ReaderOK, LatchOK, FateOK, InOrder, Past, SeenBefore, Counted, Fates, Fading
<1>7. MainOK'
  BY <1>1, <1>3, <1>5 DEF LInv, MainOK, OneOf
<1>8. InHand'
  <2>1. \A a \in answer' : a.seq \in resets' => a.pos >= Warmup
    BY <1>1, <1>3, <1>5, TypesOfRecords, LatchConstants
  <2>2. l.reply.seq <= l.reply.seq
    BY <1>3
  <2>3. \A a \in answer' : a.frame = frame /\ \E k \in last : a.seq <= k.reply.seq
    BY <1>2, <1>5, <2>2, Zenon
  <2> QED
    BY <1>1, <1>4, <1>5, <2>1, <2>3 DEF InHand
<1> QED
  BY <1>6, <1>7, <1>8 DEF LInv

(* The frame is given up, and what came too late for it is counted.         *)
LEMMA GiveUpKeeps ==
  ASSUME LInv, RefuseLate \/ TimeOut PROVE LInv'
<1>1. /\ UNCHANGED <<shown, passed, phone, msg, taken, last, since, alive, resets, frame, runs, patient,
                     w, held, misses>>
      /\ pc = "look" /\ pc' = "blend" /\ gave_up' = frame /\ answer' = {}
  BY DEF RefuseLate, TimeOut, Decide, worldVars, readerVars, latchVars, blendVars
<1>2. gave_up < frame /\ frame \in 0 .. shown /\ shown \in 0 .. MaxFrames /\ gave_up \in 0 .. frame
  BY <1>1 DEF LInv, InHand, MainOK, WorldOK, LatchOK
<1>3. WorldOK' /\ ReaderOK' /\ LatchOK' /\ MainOK'
  BY <1>1, <1>2, LatchConstants DEF LInv, WorldOK, ReaderOK, LatchOK, MainOK, OneOf
<1>4. InOrder' /\ SeenBefore' /\ Counted' /\ Fading' /\ InHand'
  BY <1>1 DEF LInv, InOrder, Past, SeenBefore, Counted, Fading, InHand
<1>5. FateOK' /\ Fates'
  <2>1. \A f \in Frames : f \in Nat /\ counted[f] \in Nat /\ counted[f] <= 1
                         /\ (counted[f] > 0 => f <= gave_up /\ \E l \in last : f <= l.reply.frame)
    BY LatchConstants DEF LInv, Fates, FateOK, Frames
  <2>2. CASE RefuseLate
    <3>1. PICK l \in last : l.reply.frame = frame
      BY <2>2 DEF RefuseLate, Own
    <3>2. frame \in Frames /\ frame \in Nat
      BY <3>1, TypesOfRecords, <1>2, LatchConstants DEF LInv, LatchOK, OneOf
    <3>3. counted[frame] = 0
      BY <1>2, <2>1, <3>2, LatchConstants
    <3>4. counted' = [counted EXCEPT ![frame] = 1]
      BY <2>2, <3>3 DEF RefuseLate, CountLate, AtMost
    <3>5. frame <= frame
      BY <3>2
    <3> QED
      BY <1>1, <1>2, <2>1, <3>1, <3>2, <3>4, <3>5, LatchConstants DEF LInv, FateOK, Fates
  <2>3. CASE TimeOut
    <3>1. counted' = counted
      BY <2>3 DEF TimeOut
    <3> QED
      BY <1>1, <1>2, <2>1, <3>1, LatchConstants DEF LInv, FateOK, Fates
  <2> QED
    BY <2>2, <2>3
<1> QED
  BY <1>3, <1>4, <1>5 DEF LInv

(* A fade goes one way or the other.                                        *)
LEMMA BlendKeeps ==
  ASSUME LInv, Blend PROVE LInv'
<1>1. /\ UNCHANGED <<shown, passed, phone, msg, taken, last, since, gave_up, alive, resets, counted,
                     frame, runs>>
      /\ pc' = "recv" /\ answer' = {} /\ patient' = FALSE
      /\ w' = Faded /\ held' = (held \/ Big # {})
      /\ misses' = IF Big # {} THEN 0 ELSE AtMost(misses + 1, Fade)
  BY DEF Blend, worldVars, readerVars, latchVars
<1>2. WorldOK' /\ ReaderOK' /\ LatchOK' /\ MainOK' /\ FateOK'
  BY <1>1 DEF LInv, WorldOK, ReaderOK, LatchOK, MainOK, FateOK, OneOf
<1>3. InOrder' /\ SeenBefore' /\ Counted' /\ InHand' /\ Fates'
  BY <1>1 DEF LInv, InOrder, Past, SeenBefore, Counted, InHand, Fates
<1>4. Fading'
  <2>1. w \in 0 .. Fade /\ misses \in 0 .. Fade /\ w + misses <= Fade /\ (w > 0 => held)
    BY DEF LInv, Fading
  <2>2. w' \in 0 .. Fade /\ misses' \in 0 .. Fade /\ w' + misses' <= Fade
        /\ (w' > 0 => w > 0 \/ Big # {})
    BY <1>1, <2>1, LatchConstants DEF Faded, AtMost
  <2>3. held' \in BOOLEAN /\ (held' <=> held \/ Big # {})
    BY <1>1
  <2> QED
    BY <2>1, <2>2, <2>3 DEF Fading
<1> QED
  BY <1>2, <1>3, <1>4 DEF LInv

-----------------------------------------------------------------------------
THEOREM LatchInvariant == Spec => []LInv
<1>1. Init => LInv
  BY LatchStarts
<1>2. LInv /\ [Next]_vars => LInv'
  <2> SUFFICES ASSUME LInv, [Next]_vars PROVE LInv'
      OBVIOUS
  <2>1. CASE UNCHANGED vars
    <3>1. UNCHANGED <<shown, passed, phone, msg, taken, last, since, gave_up, alive, resets, counted, pc,
                      frame, runs, patient, answer, w, held, misses>>
      BY <2>1 DEF vars, worldVars, readerVars, latchVars, mainVars, blendVars
    <3>2. WorldOK' /\ ReaderOK' /\ LatchOK' /\ MainOK' /\ FateOK'
      BY <3>1 DEF LInv, WorldOK, ReaderOK, LatchOK, MainOK, FateOK
    <3> QED
      BY <3>1, <3>2 DEF LInv, InOrder, Past, SeenBefore, Counted, InHand, Fates, Fading
  <2> QED
    BY <2>1, ClockKeeps, AnswerKeeps, WaitingKeeps, TakeKeeps, OnReplyKeeps, RecvKeeps, UseKeeps,
       GiveUpKeeps, BlendKeeps DEF Next, Reader, Main
<1> QED
  BY <1>1, <1>2, PTL DEF Spec

(* Types, whatever the warm-up, the fade and the bounds.                    *)
THEOREM LatchTypeCorrect == Spec => []TypeOK
<1>1. ASSUME NEW S, NEW T, OneOf(S, T) PROVE S \in AtMostOne(T)
  <2>1. CASE S = {}
    BY <2>1 DEF AtMostOne
  <2>2. CASE S # {}
    <3>1. PICK x \in S : S = {x}
      BY <1>1, <2>2 DEF OneOf
    <3> QED
      BY <1>1, <3>1 DEF AtMostOne, OneOf
  <2> QED
    BY <2>1, <2>2
<1>2. LInv => TypeOK
  <2> SUFFICES ASSUME LInv PROVE TypeOK
      OBVIOUS
  <2>1. /\ msg \in AtMostOne(Replies) /\ taken \in AtMostOne(Taken) /\ last \in AtMostOne(Kept)
        /\ answer \in AtMostOne(Replies)
    BY <1>1 DEF LInv, ReaderOK, LatchOK, MainOK
  <2> QED
    BY <2>1 DEF LInv, WorldOK, LatchOK, MainOK, Fading, TypeOK, Taken, Kept
<1> QED
  BY <1>2, LatchInvariant, PTL

(* An output of the phone is of the frame it is used for and past both      *)
(* warm-ups, whatever replies were replaced or lost on their way, the flag  *)
(* of their sequence included (big_model.py:137-147, 169-192).              *)
THEOREM OutputIsSound == Spec => []AnswerIsSound
<1>1. LInv => AnswerIsSound
  BY DEF LInv, InHand, AnswerIsSound
<1> QED
  BY <1>1, LatchInvariant, PTL

(* No reply is counted twice, and none that is used is counted, in whatever *)
(* order the reader, the deadline and the main thread take the lock         *)
(* (big_model.py:143-145, 176-192).                                         *)
THEOREM RepliesHaveOneFate == Spec => []OneFate
<1>1. LInv => OneFate
  <2> SUFFICES ASSUME LInv PROVE OneFate
      OBVIOUS
  <2>1. \A f \in Frames : counted[f] <= 1 /\ (counted[f] > 0 => f <= gave_up)
    BY DEF LInv, Fates
  <2>2. \A a \in answer : a.frame \in Frames /\ a.frame \in Nat /\ gave_up < a.frame /\ gave_up \in Nat
    <3>1. answer \subseteq Replies /\ gave_up \in 0 .. frame /\ frame \in 0 .. shown /\ shown \in 0 .. MaxFrames
      BY DEF LInv, MainOK, LatchOK, WorldOK, OneOf
    <3>2. \A a \in answer : gave_up < a.frame
      BY Zenon DEF LInv, InHand
    <3> QED
      BY <3>1, <3>2, TypesOfRecords, LatchConstants DEF Frames
  <2>3. \A a \in answer : counted[a.frame] \in Nat
    BY <2>2 DEF LInv, FateOK
  <2> QED
    BY <2>1, <2>2, <2>3 DEF OneFate
<1> QED
  BY <1>1, LatchInvariant, PTL

(* What is held of the phone leaves the action within one fade, for a fade  *)
(* of any length (big_model.py:87-103).                                     *)
THEOREM HoldIsBounded == Spec => []HoldEnds
<1>1. LInv => HoldEnds
  BY LatchConstants DEF LInv, Fading, HoldEnds
<1> QED
  BY <1>1, LatchInvariant, PTL

-----------------------------------------------------------------------------
(* The way back: the reply thread, the socket and the parameter.            *)
(*                                                                          *)
(* What the thread has read, cached and decided is of one socket only while *)
(* the epoch it knows is that of the connection that is up: the sender      *)
(* changes the connection behind its back, and a socket is open before the  *)
(* epoch says so.  So the invariant says nothing of the other states, and   *)
(* every step into this one is a look at the epoch.                         *)

Steps == {"epoch", "connected", "read", "idle", "parse", "fail", "failed"}

(* A socket is a connection of its own, and the newest one is the last.     *)
SocketOK  == /\ connected \in BOOLEAN /\ greeted \in BOOLEAN
             /\ sockets \in 0 .. MaxSockets /\ conn_epoch \in 0 .. sockets /\ fd \in {0, sockets}
             /\ connected => fd # 0
             /\ fd # 0 /\ ~connected => conn_epoch < sockets
             /\ OneOf(tracked, 0 .. conn_epoch)

AllFrom(s, socket) == \A i \in 1 .. Len(s) : s[i].from = socket

UnreadOK  == unread \in Seq(Pieces) /\ Len(unread) <= MaxUnread /\ AllFrom(unread, fd)

(* What the framer keeps between two passes is less than a message.         *)
FramerOK  == /\ framer \in Seq(Pieces) /\ Len(framer) <= MaxUnread + 2
             /\ step \in {"epoch", "connected", "read", "idle"} => Len(framer) <= 2

SessionOK == /\ step \in Steps /\ hello_seen \in BOOLEAN /\ link \in {"connecting", "up"}
             /\ cache \in Points /\ param \in Points
             /\ OneOf(decided, Points) /\ OneOf(slot, Points) /\ OneOf(writing, Points)

(* While the epoch the thread knows is that of the connection that is up,   *)
(* all it has is of this connection.                                        *)
OfNow == connected /\ tracked = {conn_epoch} =>
           /\ AllFrom(framer, fd)
           /\ cache \in {NoPoints, fd}
           /\ decided # {} /\ decided \subseteq {NoPoints, fd}

(* What was decided last is in the parameter, or the last on its way there. *)
OnItsWay == /\ decided = {} => slot = {}
            /\ decided # {} => \/ slot = decided
                               \/ slot = {} /\ writing = decided
                               \/ slot = {} /\ writing = {} /\ decided = {param}

LinkInv == SocketOK /\ UnreadOK /\ FramerOK /\ SessionOK /\ OfNow /\ OnItsWay

(* A part of a sequence has the elements of its place.                      *)
LEMMA PartOfSeq ==
  ASSUME NEW S, NEW s \in Seq(S), NEW m \in 1 .. Len(s) + 1, NEW n \in (m - 1) .. Len(s)
  PROVE  /\ SubSeq(s, m, n) \in Seq(S) /\ Len(SubSeq(s, m, n)) = n - m + 1
         /\ \A i \in 1 .. Len(SubSeq(s, m, n)) : \E j \in 1 .. Len(s) : SubSeq(s, m, n)[i] = s[j]
<1>1. Len(s) \in Nat /\ m \in Nat \ {0} /\ n \in Nat /\ n + 1 >= m
  BY LenProperties
<1>2. \A i \in m .. n : s[i] \in S
  BY <1>1, ElementOfSeq
<1>3. /\ SubSeq(s, m, n) \in Seq(S)
      /\ Len(SubSeq(s, m, n)) = IF m <= n THEN n - m + 1 ELSE 0
      /\ \A i \in 1 .. n - m + 1 : SubSeq(s, m, n)[i] = s[m + i - 1]
  BY <1>1, <1>2, SubSeqProperties
<1>4. Len(SubSeq(s, m, n)) = n - m + 1
  BY <1>1, <1>3
<1>5. ASSUME NEW i \in 1 .. n - m + 1 PROVE \E j \in 1 .. Len(s) : SubSeq(s, m, n)[i] = s[j]
  <2>1. m + i - 1 \in 1 .. Len(s)
    BY <1>1
  <2> QED
    BY <1>3, <2>1
<1> QED
  BY <1>3, <1>4, <1>5

(* A joined sequence has the elements of both.                              *)
LEMMA JoinOfSeqs ==
  ASSUME NEW S, NEW s \in Seq(S), NEW t \in Seq(S)
  PROVE  /\ s \o t \in Seq(S) /\ Len(s \o t) = Len(s) + Len(t)
         /\ \A i \in 1 .. Len(s \o t) : \/ \E j \in 1 .. Len(s) : (s \o t)[i] = s[j]
                                        \/ \E j \in 1 .. Len(t) : (s \o t)[i] = t[j]
<1>1. /\ s \o t \in Seq(S) /\ Len(s \o t) = Len(s) + Len(t)
      /\ \A i \in 1 .. Len(s) + Len(t) : (s \o t)[i] = IF i <= Len(s) THEN s[i] ELSE t[i - Len(s)]
  BY ConcatProperties
<1>2. Len(s) \in Nat /\ Len(t) \in Nat
  BY LenProperties
<1>3. ASSUME NEW i \in 1 .. Len(s) + Len(t)
      PROVE  \/ \E j \in 1 .. Len(s) : (s \o t)[i] = s[j]
             \/ \E j \in 1 .. Len(t) : (s \o t)[i] = t[j]
  <2>1. CASE i <= Len(s)
    <3>1. i \in 1 .. Len(s)
      BY <1>2, <2>1
    <3> QED
      BY <1>1, <2>1, <3>1
  <2>2. CASE ~(i <= Len(s))
    <3>1. i - Len(s) \in 1 .. Len(t)
      BY <1>2, <2>2
    <3> QED
      BY <1>1, <2>2, <3>1
  <2> QED
    BY <2>1, <2>2
<1> QED
  BY <1>1, <1>3

(* No element, and one.                                                     *)
LEMMA NoneOrOne ==
  ASSUME NEW T
  PROVE  OneOf({}, T) /\ \A x \in T : OneOf({x}, T)
BY DEF OneOf

(* A decision replaces what is on its way, or keeps what was decided.       *)
LEMMA DecisionReplaces ==
  ASSUME SessionOK, OnItsWay, NEW p \in Points, DecideTargets(p), UNCHANGED calibVars
  PROVE  /\ OneOf(decided', Points) /\ OneOf(slot', Points) /\ decided' # {} /\ OnItsWay'
         /\ decided' # {p} => decided' = decided
         /\ p = NoPoints => decided' = {NoPoints}
<1>1. writing' = writing /\ param' = param
  BY DEF calibVars
<1>2. CASE decided' = {p} /\ slot' = {p}
  <2>1. OneOf(decided', Points) /\ OneOf(slot', Points)
    BY <1>2, NoneOrOne
  <2>2. decided' # {} /\ OnItsWay'
    BY <1>2 DEF OnItsWay
  <2> QED
    BY <1>2, <2>1, <2>2
<1>3. CASE decided # {} /\ (p # NoPoints \/ decided = {NoPoints}) /\ UNCHANGED <<decided, slot>>
  BY <1>1, <1>3 DEF SessionOK, OneOf, OnItsWay
<1> QED
  BY <1>2, <1>3 DEF DecideTargets

(* A message ends within three pieces.                                      *)
LEMMA EndWithinThree == MessageEnd \in 1 .. 3
BY DEF MessageEnd

LEMMA InvInit == LinkInit => LinkInv
<1> SUFFICES ASSUME LinkInit PROVE LinkInv
    OBVIOUS
<1>1. Len(<<>>) = 0 /\ <<>> \in Seq(Pieces)
  BY EmptySeq
<1>2. SocketOK
  <2>1. connected = FALSE /\ conn_epoch = 0 /\ fd = 0 /\ sockets = 0 /\ greeted = FALSE /\ tracked = {}
    BY DEF LinkInit
  <2>2. OneOf(tracked, 0 .. conn_epoch)
    BY <2>1, NoneOrOne
  <2>3. connected \in BOOLEAN /\ greeted \in BOOLEAN /\ ~connected
    BY <2>1
  <2>4. sockets \in 0 .. MaxSockets /\ conn_epoch \in 0 .. sockets /\ fd \in {0, sockets} /\ fd = 0
    BY <2>1, ReplyConstants
  <2> QED
    BY <2>2, <2>3, <2>4 DEF SocketOK
<1>3. UnreadOK /\ FramerOK
  BY <1>1, ReplyConstants DEF LinkInit, UnreadOK, FramerOK, AllFrom
<1>4. SessionOK
  BY DEF LinkInit, SessionOK, Steps, Points, NoPoints, OneOf
<1> QED
  BY <1>2, <1>3, <1>4 DEF LinkInit, LinkInv, OfNow, OnItsWay

-----------------------------------------------------------------------------
(* The writer thread and the phone.                                         *)

LEMMA InvOpenSocket == LinkInv /\ OpenSocket => LinkInv'
<1> SUFFICES ASSUME LinkInv, OpenSocket PROVE LinkInv'
    OBVIOUS
<1>1. SocketOK'
  <2>1. tracked' = tracked /\ conn_epoch' = conn_epoch /\ OneOf(tracked, 0 .. conn_epoch)
    BY DEF LinkInv, SocketOK, OpenSocket, replyVars
  <2>2. OneOf(tracked', 0 .. conn_epoch')
    BY <2>1
  <2>3. /\ sockets' \in 0 .. MaxSockets /\ conn_epoch' \in 0 .. sockets' /\ fd' \in {0, sockets'}
        /\ fd' # 0 /\ conn_epoch' < sockets'
    BY ReplyConstants DEF LinkInv, SocketOK, OpenSocket
  <2>4. connected' \in BOOLEAN /\ greeted' \in BOOLEAN
    BY DEF LinkInv, SocketOK, OpenSocket
  <2> QED
    BY <2>2, <2>3, <2>4 DEF SocketOK, OneOf
<1>2. UnreadOK'
  BY EmptySeq, ReplyConstants DEF OpenSocket, UnreadOK, AllFrom
<1>3. FramerOK' /\ SessionOK' /\ OnItsWay'
  BY DEF LinkInv, OpenSocket, replyVars, calibVars, FramerOK, SessionOK, OnItsWay, OneOf
<1>4. OfNow'
  BY DEF OpenSocket, OfNow
<1> QED
  BY <1>1, <1>2, <1>3, <1>4 DEF LinkInv

LEMMA InvNewConnection == LinkInv /\ NewConnection => LinkInv'
<1> SUFFICES ASSUME LinkInv, NewConnection PROVE LinkInv'
    OBVIOUS
<1>1. SocketOK' /\ tracked' # {conn_epoch'}
  BY ReplyConstants DEF LinkInv, SocketOK, NewConnection, replyVars, OneOf
<1>2. UnreadOK' /\ FramerOK' /\ SessionOK' /\ OnItsWay'
  BY DEF LinkInv, NewConnection, replyVars, calibVars, UnreadOK, AllFrom, FramerOK, SessionOK, OnItsWay, OneOf
<1> QED
  BY <1>1, <1>2 DEF LinkInv, OfNow

(* A connection that is dropped leaves nothing to read.                     *)
LEMMA DropKeeps ==
  ASSUME SocketOK, DropConnection, tracked' = tracked
  PROVE  SocketOK' /\ UnreadOK' /\ OfNow'
<1>1. SocketOK' /\ OfNow'
  BY DEF SocketOK, DropConnection, OneOf, OfNow
<1>2. UnreadOK'
  BY EmptySeq, ReplyConstants DEF DropConnection, UnreadOK, AllFrom
<1> QED
  BY <1>1, <1>2

LEMMA InvWriterDrops == LinkInv /\ WriterDrops => LinkInv'
<1> SUFFICES ASSUME LinkInv, WriterDrops PROVE LinkInv'
    OBVIOUS
<1>1. SocketOK' /\ UnreadOK' /\ OfNow'
  BY DropKeeps DEF LinkInv, WriterDrops, replyVars
<1>2. FramerOK' /\ SessionOK' /\ OnItsWay'
  BY DEF LinkInv, WriterDrops, replyVars, calibVars, FramerOK, SessionOK, OnItsWay, OneOf
<1> QED
  BY <1>1, <1>2 DEF LinkInv

LEMMA InvPhoneSends == LinkInv /\ PhoneSends => LinkInv'
<1> SUFFICES ASSUME LinkInv, PhoneSends PROVE LinkInv'
    OBVIOUS
<1>1. SocketOK' /\ FramerOK' /\ SessionOK' /\ OnItsWay' /\ OfNow'
  BY DEF LinkInv, PhoneSends, replyVars, calibVars, SocketOK, FramerOK, SessionOK, OnItsWay, OfNow, AllFrom, OneOf
<1>2. ASSUME NEW kind \in {"hello", "head", "tail"} PROVE Piece(kind) \in Pieces /\ Piece(kind).from = fd
  BY ReplyConstants DEF LinkInv, SocketOK, PhoneSends, Piece, Pieces, Sockets
<1>3. fd' = fd
  BY DEF PhoneSends
<1>4. ASSUME unread' = <<Piece("hello")>> PROVE UnreadOK'
  <2> PICK hello : hello = Piece("hello")
      OBVIOUS
  <2>1. hello \in Pieces /\ hello.from = fd /\ unread' = <<hello>>
    BY <1>2, <1>4
  <2> QED
    BY <1>3, <2>1, ReplyConstants DEF UnreadOK, AllFrom
<1>5. ASSUME Len(unread) + 2 <= MaxUnread, unread' = unread \o <<Piece("head"), Piece("tail")>>
      PROVE  UnreadOK'
  <2> PICK head, tail : head = Piece("head") /\ tail = Piece("tail")
      OBVIOUS
  <2> PICK reply : reply = <<head, tail>>
      OBVIOUS
  <2>1. reply \in Seq(Pieces) /\ Len(reply) = 2 /\ AllFrom(reply, fd)
    BY <1>2 DEF AllFrom
  <2>2. unread \in Seq(Pieces) /\ AllFrom(unread, fd) /\ Len(unread) + 2 <= MaxUnread
    BY <1>5 DEF LinkInv, UnreadOK
  <2>3. unread' = unread \o reply
    BY <1>5
  <2>4. unread' \in Seq(Pieces) /\ Len(unread') = Len(unread) + 2
    BY <2>1, <2>2, <2>3, JoinOfSeqs
  <2>5. AllFrom(unread', fd)
    BY <2>1, <2>2, <2>3, JoinOfSeqs DEF AllFrom
  <2>6. Len(unread') <= MaxUnread
    BY <2>2, <2>4
  <2> QED
    BY <1>3, <2>4, <2>5, <2>6 DEF UnreadOK, AllFrom
<1>6. UnreadOK'
  <2>1. \/ unread' = <<Piece("hello")>>
        \/ Len(unread) + 2 <= MaxUnread /\ unread' = unread \o <<Piece("head"), Piece("tail")>>
    BY Zenon DEF PhoneSends
  <2> QED
    BY <1>4, <1>5, <2>1
<1> QED
  BY <1>1, <1>6 DEF LinkInv

-----------------------------------------------------------------------------
(* The reply thread.                                                        *)

(* A reset leaves no points.                                                *)
LEMMA ResetKeeps ==
  ASSUME SessionOK, OnItsWay, Reset, UNCHANGED calibVars, step' \in Steps, link' \in {"connecting", "up"}
  PROVE  SessionOK' /\ OnItsWay' /\ cache' = NoPoints /\ decided' = {NoPoints}
<1>1. NoPoints \in Points
  BY DEF Points
<1>2. OneOf(decided', Points) /\ OneOf(slot', Points) /\ OnItsWay' /\ decided' = {NoPoints}
  BY <1>1, DecisionReplaces DEF Reset
<1> QED
  BY <1>1, <1>2 DEF SessionOK, Reset, calibVars, OneOf

LEMMA InvCheckEpoch == LinkInv /\ CheckEpoch => LinkInv'
<1> SUFFICES ASSUME LinkInv, CheckEpoch PROVE LinkInv'
    OBVIOUS
<1>1. UNCHANGED connVars /\ UNCHANGED calibVars /\ link' = link /\ step = "epoch" /\ step' = "connected"
  BY DEF CheckEpoch, At, Goto
<1>2. UnreadOK'
  BY <1>1 DEF LinkInv, UnreadOK, AllFrom, connVars
<1>3. CASE UNCHANGED <<tracked, hello_seen, cache, decided, slot, framer>>
  <2>1. SocketOK' /\ OfNow' /\ OnItsWay'
    BY <1>1, <1>3 DEF LinkInv, SocketOK, OfNow, OnItsWay, AllFrom, OneOf, connVars, calibVars
  <2>2. FramerOK' /\ SessionOK'
    BY <1>1, <1>3 DEF LinkInv, FramerOK, SessionOK, Steps, OneOf, calibVars
  <2> QED
    BY <1>2, <2>1, <2>2 DEF LinkInv
<1>4. CASE tracked' = {conn_epoch} /\ framer' = <<>> /\ Reset
  <2>1. SocketOK'
    BY <1>1, <1>4 DEF LinkInv, SocketOK, OneOf, connVars
  <2>2. Len(framer') = 0 /\ FramerOK'
    BY <1>4, EmptySeq, ReplyConstants DEF FramerOK
  <2>3. SessionOK' /\ OnItsWay' /\ cache' = NoPoints /\ decided' = {NoPoints}
    BY <1>1, <1>4, ResetKeeps DEF LinkInv, SessionOK, Steps
  <2>4. OfNow'
    BY <2>2, <2>3 DEF OfNow, AllFrom
  <2> QED
    BY <1>2, <2>1, <2>2, <2>3, <2>4 DEF LinkInv
<1> QED
  BY <1>3, <1>4 DEF CheckEpoch, OnEpoch

(* What a step of the session alone leaves of the rest.                     *)
LEMMA SessionStep ==
  ASSUME LinkInv, UNCHANGED connVars, UNCHANGED <<tracked, framer>>,
         step' \in {"epoch", "connected", "read", "idle"} => Len(framer) <= 2
  PROVE  SocketOK' /\ UnreadOK' /\ FramerOK'
BY DEF LinkInv, SocketOK, UnreadOK, FramerOK, AllFrom, OneOf, connVars

(* A reset keeps OfNow with any framer that is of now.                      *)
LEMMA InvReset ==
  ASSUME LinkInv, Reset, UNCHANGED connVars, UNCHANGED <<tracked, framer>>, UNCHANGED calibVars, link' = link,
         step' \in Steps, step' \in {"epoch", "connected", "read", "idle"} => Len(framer) <= 2
  PROVE  LinkInv'
<1>1. SocketOK' /\ UnreadOK' /\ FramerOK'
  BY SessionStep
<1>2. SessionOK' /\ OnItsWay' /\ cache' = NoPoints /\ decided' = {NoPoints}
  <2>1. SessionOK /\ OnItsWay /\ link' \in {"connecting", "up"}
    BY DEF LinkInv, SessionOK
  <2> QED
    BY <2>1, ResetKeeps
<1>3. OfNow'
  BY <1>2 DEF LinkInv, OfNow, AllFrom, connVars
<1> QED
  BY <1>1, <1>2, <1>3 DEF LinkInv

(* Nothing but the place in the loop changes.                               *)
LEMMA InvGoto ==
  ASSUME LinkInv, UNCHANGED connVars, UNCHANGED <<tracked, framer>>, UNCHANGED sessionVars,
         UNCHANGED calibVars, link' = link,
         step' \in Steps, step' \in {"epoch", "connected", "read", "idle"} => Len(framer) <= 2
  PROVE  LinkInv'
<1>1. SocketOK' /\ UnreadOK' /\ FramerOK'
  BY SessionStep
<1>2. SessionOK' /\ OnItsWay' /\ OfNow'
  BY DEF LinkInv, SessionOK, OnItsWay, OfNow, AllFrom, OneOf, connVars, sessionVars, calibVars
<1> QED
  BY <1>1, <1>2 DEF LinkInv

LEMMA InvCheckConnected == LinkInv /\ CheckConnected => LinkInv'
<1> SUFFICES ASSUME LinkInv, CheckConnected PROVE LinkInv'
    OBVIOUS
<1>1. /\ UNCHANGED connVars /\ UNCHANGED <<tracked, framer>> /\ UNCHANGED calibVars /\ link' = link
      /\ step = "connected" /\ Len(framer) <= 2
  BY DEF CheckConnected, At, LinkInv, FramerOK
<1>2. CASE Goto("read") /\ UNCHANGED sessionVars
  <2>1. step' \in Steps
    BY <1>2 DEF Goto, Steps
  <2> QED
    BY <1>1, <1>2, <2>1, InvGoto
<1>3. CASE Goto("epoch") /\ Reset
  <2>1. step' \in Steps
    BY <1>3 DEF Goto, Steps
  <2> QED
    BY <1>1, <1>3, <2>1, InvReset
<1> QED
  BY <1>2, <1>3 DEF CheckConnected

LEMMA InvRead == LinkInv /\ Read => LinkInv'
<1> SUFFICES ASSUME LinkInv, Read PROVE LinkInv'
    OBVIOUS
<1>1. /\ tracked' = tracked /\ UNCHANGED sessionVars /\ UNCHANGED calibVars /\ link' = link
      /\ step = "read" /\ Len(framer) <= 2
  BY DEF Read, At, LinkInv, FramerOK
<1>2. CASE (Goto("fail") \/ Goto("idle")) /\ UNCHANGED <<connVars, framer>>
  <2>1. step' \in Steps
    BY <1>2 DEF Goto, Steps
  <2> QED
    BY <1>1, <1>2, <2>1, InvGoto
<1>3. CASE Goto("parse") /\ \E n \in 1 .. Len(unread) : ReadSome(n)
  <2> PICK n \in 1 .. Len(unread) : ReadSome(n)
      BY <1>3
  <2>1. /\ unread \in Seq(Pieces) /\ Len(unread) <= MaxUnread /\ AllFrom(unread, fd) /\ framer \in Seq(Pieces)
        /\ Len(unread) \in Nat /\ Len(framer) \in Nat /\ MaxUnread \in Nat
    BY LenProperties, ReplyConstants DEF LinkInv, UnreadOK, FramerOK
  <2> DEFINE part == SubSeq(unread, 1, n)
             kept == SubSeq(unread, n + 1, Len(unread))
  <2>2. framer' = framer \o part /\ unread' = kept /\ UNCHANGED <<connected, conn_epoch, fd, sockets, greeted>>
    BY DEF ReadSome
  <2>3. part \in Seq(Pieces) /\ Len(part) = n /\ AllFrom(part, fd)
    <3>1. 1 \in 1 .. Len(unread) + 1 /\ n \in (1 - 1) .. Len(unread) /\ n - 1 + 1 = n
      BY <2>1
    <3> QED
      BY <2>1, <3>1, PartOfSeq DEF AllFrom
  <2>4. kept \in Seq(Pieces) /\ Len(kept) = Len(unread) - n /\ AllFrom(kept, fd)
    <3>1. /\ n + 1 \in 1 .. Len(unread) + 1 /\ Len(unread) \in ((n + 1) - 1) .. Len(unread)
          /\ Len(unread) - (n + 1) + 1 = Len(unread) - n
      BY <2>1
    <3>2. PICK m \in 1 .. Len(unread) + 1 : m = n + 1
      BY <3>1
    <3>3. kept = SubSeq(unread, m, Len(unread))
      BY <3>2
    <3>4. kept \in Seq(Pieces) /\ Len(kept) = Len(unread) - n
      BY ZenonT(40), <2>1, <3>1, <3>2, <3>3, PartOfSeq
    <3>5. \A i \in 1 .. Len(kept) : \E j \in 1 .. Len(unread) : kept[i] = unread[j]
      BY <2>1, <3>1, <3>2, <3>3, PartOfSeq
    <3> QED
      BY SMTT(30), <2>1, <3>4, <3>5 DEF AllFrom
  <2> HIDE DEF part, kept
  <2>5. UnreadOK'
    BY <2>1, <2>2, <2>4 DEF UnreadOK
  <2>6. framer' \in Seq(Pieces) /\ Len(framer') = Len(framer) + n
    BY <2>1, <2>2, <2>3, JoinOfSeqs
  <2>7. AllFrom(framer, fd) => AllFrom(framer', fd)
    BY <2>1, <2>2, <2>3, JoinOfSeqs DEF AllFrom
  <2>8. FramerOK'
    BY <1>1, <1>3, <2>1, <2>6 DEF FramerOK, Goto
  <2>9. SocketOK' /\ SessionOK' /\ OnItsWay'
    BY <1>1, <1>3, <2>2 DEF LinkInv, SocketOK, SessionOK, Steps, OnItsWay, OneOf, Goto, sessionVars, calibVars
  <2>10. OfNow'
    BY <1>1, <2>2, <2>7 DEF LinkInv, OfNow, sessionVars
  <2> QED
    BY <2>5, <2>8, <2>9, <2>10 DEF LinkInv
<1> QED
  BY <1>2, <1>3 DEF Read

LEMMA InvIdle == LinkInv /\ Idle => LinkInv'
<1> SUFFICES ASSUME LinkInv, Idle PROVE LinkInv'
    OBVIOUS
<1>1. /\ UNCHANGED connVars /\ UNCHANGED <<tracked, framer>> /\ UNCHANGED calibVars /\ link' = link
      /\ Len(framer) <= 2 /\ step' \in Steps
  BY DEF Idle, At, Goto, LinkInv, FramerOK, Steps
<1>2. CASE DecideOnCache /\ UNCHANGED <<hello_seen, cache>>
  <2>1. SocketOK' /\ UnreadOK' /\ FramerOK'
    BY <1>1, SessionStep
  <2>2. PICK p \in {cache, NoPoints} : DecideTargets(p)
    BY <1>2 DEF DecideOnCache
  <2>3. p \in Points /\ SessionOK /\ OnItsWay
    BY DEF LinkInv, SessionOK, Points
  <2>4. /\ OneOf(decided', Points) /\ OneOf(slot', Points) /\ decided' # {} /\ OnItsWay'
        /\ decided' # {p} => decided' = decided
    BY <1>1, <2>2, <2>3, DecisionReplaces
  <2>5. SessionOK'
    BY <1>1, <1>2, <2>3, <2>4 DEF SessionOK, OneOf, calibVars
  <2>6. OfNow'
    BY <1>1, <1>2, <2>4 DEF LinkInv, OfNow, AllFrom, connVars
  <2> QED
    BY <2>1, <2>4, <2>5, <2>6 DEF LinkInv
<1>3. CASE Reset
  BY <1>1, <1>3, InvReset
<1> QED
  BY <1>2, <1>3 DEF Idle

LEMMA InvParsed == LinkInv /\ Parsed => LinkInv'
<1> SUFFICES ASSUME LinkInv, Parsed PROVE LinkInv'
    OBVIOUS
<1>1. Len(framer) \in Nat /\ Len(framer) <= 2
  BY EndWithinThree, LenProperties DEF LinkInv, FramerOK, Parsed, NeedMore
<1>2. step' \in Steps
  BY DEF Parsed, Goto, Steps
<1> QED
  BY <1>1, <1>2, InvGoto DEF Parsed

LEMMA InvParse == LinkInv /\ Parse => LinkInv'
<1> SUFFICES ASSUME LinkInv, Parse PROVE LinkInv'
    OBVIOUS
<1>1. UNCHANGED connVars /\ tracked' = tracked /\ UNCHANGED calibVars /\ step' = "parse"
  BY DEF Parse, Goto
<1>2. /\ framer \in Seq(Pieces) /\ Len(framer) \in Nat /\ Len(framer) <= MaxUnread + 2
      /\ MessageEnd \in 1 .. 3 /\ MessageEnd <= Len(framer)
  BY EndWithinThree, LenProperties DEF LinkInv, FramerOK, Parse, NeedMore
<1>3. PICK end \in 1 .. Len(framer) : end = MessageEnd
  BY <1>2
<1>4. /\ framer' \in Seq(Pieces) /\ Len(framer') = Len(framer) - end
      /\ AllFrom(framer, fd) => AllFrom(framer', fd)
  <2>1. /\ end + 1 \in 1 .. Len(framer) + 1 /\ Len(framer) \in ((end + 1) - 1) .. Len(framer)
        /\ Len(framer) - (end + 1) + 1 = Len(framer) - end
    BY <1>2
  <2>2. framer' = SubSeq(framer, end + 1, Len(framer))
    BY <1>3 DEF Parse, Consumed
  <2> QED
    BY SMTT(30), <1>2, <2>1, <2>2, PartOfSeq DEF AllFrom
<1>5. FramerOK'
  BY <1>1, <1>2, <1>4, ReplyConstants DEF FramerOK
<1>6. SocketOK' /\ UnreadOK'
  BY <1>1 DEF LinkInv, SocketOK, UnreadOK, AllFrom, OneOf, connVars
<1>7. CASE Hello
  <2>1. SessionOK' /\ OnItsWay'
    BY <1>1, <1>7 DEF LinkInv, SessionOK, Steps, OnItsWay, OneOf, Hello, calibVars
  <2>2. OfNow'
    BY <1>1, <1>4, <1>7 DEF LinkInv, OfNow, Hello, connVars
  <2> QED
    BY <1>5, <1>6, <2>1, <2>2 DEF LinkInv
<1>8. CASE Reply
  <2>0. framer[end] \in Pieces
    BY <1>2, ElementOfSeq
  <2>1. framer[end].from \in Sockets
    BY <2>0 DEF Pieces
  <2>2. cache' \in {framer[end].from, NoPoints} /\ cache' \in Points
    BY <1>3, <1>8, <2>1 DEF Reply, Points
  <2>3. PICK p \in {cache', NoPoints} : DecideTargets(p)
    BY <1>8 DEF Reply
  <2>4. p \in Points /\ SessionOK /\ OnItsWay
    BY <2>2 DEF LinkInv, Points
  <2>5. /\ OneOf(decided', Points) /\ OneOf(slot', Points) /\ decided' # {} /\ OnItsWay'
        /\ decided' # {p} => decided' = decided
    BY <1>1, <2>3, <2>4, DecisionReplaces
  <2>6. SessionOK'
    BY <1>1, <1>8, <2>2, <2>4, <2>5 DEF SessionOK, Steps, Reply, OneOf, calibVars
  <2>7. OfNow'
    <3> SUFFICES ASSUME connected, tracked = {conn_epoch}
                 PROVE  /\ AllFrom(framer', fd) /\ cache' \in {NoPoints, fd}
                        /\ decided' # {} /\ decided' \subseteq {NoPoints, fd}
        BY <1>1 DEF OfNow, connVars
    <3>1. AllFrom(framer, fd) /\ decided \subseteq {NoPoints, fd}
      BY DEF LinkInv, OfNow
    <3>2. framer[end].from = fd
      BY <3>1 DEF AllFrom
    <3> QED
      BY <1>4, <2>2, <2>5, <3>1, <3>2
  <2> QED
    BY <1>5, <1>6, <2>5, <2>6, <2>7 DEF LinkInv
<1> QED
  BY <1>7, <1>8 DEF Parse

LEMMA InvBadStream == LinkInv /\ BadStream => LinkInv'
<1> SUFFICES ASSUME LinkInv, BadStream PROVE LinkInv'
    OBVIOUS
<1>1. step' \in Steps /\ step' = "fail"
  BY DEF BadStream, Goto, Steps
<1> QED
  BY <1>1, InvGoto DEF BadStream

LEMMA InvFail == LinkInv /\ Fail => LinkInv'
<1> SUFFICES ASSUME LinkInv, Fail PROVE LinkInv'
    OBVIOUS
<1>1. step' \in Steps /\ step' = "failed"
  BY DEF Fail, Goto, Steps
<1>2. CASE UNCHANGED connVars
  BY <1>1, <1>2, InvGoto DEF Fail
<1>3. CASE DropConnection
  <2>1. SocketOK' /\ UnreadOK' /\ OfNow'
    BY <1>3, DropKeeps DEF LinkInv, Fail
  <2>2. FramerOK' /\ SessionOK' /\ OnItsWay'
    BY <1>1 DEF LinkInv, Fail, FramerOK, SessionOK, OnItsWay, OneOf, sessionVars, calibVars
  <2> QED
    BY <2>1, <2>2 DEF LinkInv
<1> QED
  BY <1>2, <1>3 DEF Fail

LEMMA InvFailed == LinkInv /\ Failed => LinkInv'
<1> SUFFICES ASSUME LinkInv, Failed PROVE LinkInv'
    OBVIOUS
<1>1. /\ UNCHANGED connVars /\ tracked' = tracked /\ UNCHANGED calibVars /\ framer' = <<>> /\ Reset
      /\ step' \in Steps /\ link' \in {"connecting", "up"}
  BY DEF Failed, Goto, Steps
<1>2. SocketOK' /\ UnreadOK'
  BY <1>1 DEF LinkInv, SocketOK, UnreadOK, AllFrom, OneOf, connVars
<1>3. Len(framer') = 0 /\ FramerOK'
  BY <1>1, EmptySeq, ReplyConstants DEF FramerOK
<1>4. SessionOK' /\ OnItsWay' /\ cache' = NoPoints /\ decided' = {NoPoints}
  BY <1>1, ResetKeeps DEF LinkInv
<1>5. OfNow'
  BY <1>3, <1>4 DEF OfNow, AllFrom
<1> QED
  BY <1>2, <1>3, <1>4, <1>5 DEF LinkInv

-----------------------------------------------------------------------------
(* The calib thread.                                                        *)

LEMMA InvCalibThread == LinkInv /\ CalibThread => LinkInv'
<1> SUFFICES ASSUME LinkInv, CalibThread PROVE LinkInv'
    OBVIOUS
<1>1. UNCHANGED connVars /\ UNCHANGED replyVars /\ link' = link
  BY DEF CalibThread, TakePending, WriteParam
<1>2. SocketOK' /\ UnreadOK' /\ FramerOK' /\ OfNow'
  BY <1>1 DEF LinkInv, SocketOK, UnreadOK, FramerOK, OfNow, AllFrom, OneOf, connVars, replyVars
<1>3. CASE TakePending
  BY <1>1, <1>2, <1>3 DEF LinkInv, SessionOK, OnItsWay, TakePending, OneOf, replyVars
<1>4. CASE WriteParam
  <2>1. PICK v \in writing : param' = v
    BY <1>4 DEF WriteParam
  <2>2. writing' = {} /\ slot' = slot /\ writing = {v}
    BY <1>4 DEF WriteParam, LinkInv, SessionOK, OneOf
  <2>3. SessionOK'
    BY <1>1, <2>1, <2>2 DEF LinkInv, SessionOK, OneOf, replyVars
  <2>4. OnItsWay'
    BY <1>1, <2>1, <2>2 DEF LinkInv, OnItsWay, replyVars
  <2> QED
    BY <1>2, <2>3, <2>4 DEF LinkInv
<1> QED
  BY <1>3, <1>4 DEF CalibThread

LEMMA LinkInvariant == LinkSpec => []LinkInv
<1>1. LinkInv /\ [LinkNext]_linkVars => LinkInv'
  <2> SUFFICES ASSUME LinkInv, [LinkNext]_linkVars PROVE LinkInv'
      OBVIOUS
  <2>1. CASE OpenSocket \/ NewConnection \/ WriterDrops \/ PhoneSends \/ CalibThread
    BY <2>1, InvOpenSocket, InvNewConnection, InvWriterDrops, InvPhoneSends, InvCalibThread
  <2>2. CASE CheckEpoch \/ CheckConnected \/ Read \/ Idle
    BY <2>2, InvCheckEpoch, InvCheckConnected, InvRead, InvIdle
  <2>3. CASE Parsed \/ Parse \/ BadStream \/ Fail \/ Failed
    BY <2>3, InvParsed, InvParse, InvBadStream, InvFail, InvFailed
  <2>4. CASE UNCHANGED linkVars
    <3>1. SocketOK' /\ UnreadOK' /\ FramerOK' /\ OfNow'
      BY <2>4 DEF LinkInv, SocketOK, UnreadOK, FramerOK, OfNow, AllFrom, OneOf, linkVars, connVars, replyVars
    <3>2. SessionOK' /\ OnItsWay'
      BY <2>4 DEF LinkInv, SessionOK, OnItsWay, OneOf, linkVars, replyVars, calibVars
    <3> QED
      BY <3>1, <3>2 DEF LinkInv
  <2> QED
    BY <2>1, <2>2, <2>3, <2>4 DEF LinkNext, ReplyThread
<1> QED
  BY <1>1, InvInit, PTL DEF LinkSpec

(* Whatever the threads and the phone do, the framer, the session and the   *)
(* slot hold what their types say, for any number of connections and any    *)
(* socket (main.cc:373-529, nav_outputs.h:101-132).                         *)
THEOREM LinkTypeCorrect == LinkSpec => []LinkTypeOK
<1>1. ASSUME NEW S, NEW T, OneOf(S, T) PROVE S \in OneOrNone(T)
  <2>1. CASE S = {}
    BY <2>1 DEF OneOrNone
  <2>2. CASE S # {}
    <3>1. PICK x \in S : TRUE
      BY <2>2
    <3>2. S = {x} /\ x \in T
      BY <1>1, <3>1 DEF OneOf
    <3> QED
      BY <3>2 DEF OneOrNone
  <2> QED
    BY <2>1, <2>2
<1>2. LinkInv => LinkTypeOK
  <2> SUFFICES ASSUME LinkInv PROVE LinkTypeOK
      OBVIOUS
  <2>1. OneOf(tracked, 0 .. MaxSockets)
    BY ReplyConstants DEF LinkInv, SocketOK, OneOf
  <2>2. tracked \in OneOrNone(0 .. MaxSockets)
    BY <1>1, <2>1
  <2>3. decided \in OneOrNone(Points) /\ slot \in OneOrNone(Points) /\ writing \in OneOrNone(Points)
    BY <1>1 DEF LinkInv, SessionOK
  <2>4. fd \in Points
    BY ReplyConstants DEF LinkInv, SocketOK, Points, Sockets, NoPoints
  <2> QED
    BY <2>2, <2>3, <2>4 DEF LinkInv, SocketOK, UnreadOK, FramerOK, SessionOK, Steps, LinkTypeOK
<1> QED
  BY <1>2, LinkInvariant, PTL

(* Once the reply thread has looked at the connection that is up, what it   *)
(* decided last is of it or none: a decision on points of a connection that *)
(* is gone does not survive the epoch, nor a REPLY whose halves came from   *)
(* two sockets (nav_outputs.h:216-222, main.cc:388-391).                    *)
THEOREM DecidedTargetsAreOfNow == LinkSpec => []DecidedForNow
<1>1. LinkInv => DecidedForNow
  BY DEF LinkInv, OfNow, DecidedForNow, Looked
<1> QED
  BY <1>1, LinkInvariant, PTL

(* Nor does the parameter then hold others, when nothing waits to be        *)
(* written: the calib thread takes and writes in two steps, and the slot    *)
(* keeps only the last decision (main.cc:877-885).                          *)
THEOREM WrittenTargetsAreOfNow == LinkSpec => []WrittenForNow
<1>1. LinkInv => WrittenForNow
  BY DEF LinkInv, OfNow, OnItsWay, WrittenForNow, Looked
<1> QED
  BY <1>1, LinkInvariant, PTL
(* A connection whose HELLO the reply thread has taken, and that is the one *)
(* it knows of, is served at once: it is never left reported as connecting, *)
(* whatever the writer does to the link between two steps of the reply      *)
(* thread.  The safety half of ServedOrDropped (main.cc:379-398, 445-465,   *)
(* 900-905, uplink_sender.cpp:243-253).                                     *)
GreetedIsServed == connected /\ tracked = {conn_epoch} /\ hello_seen => Serving

THEOREM GreetedConnectionServed == LinkSpec => []GreetedIsServed
<1>1. LinkInit => GreetedIsServed
  BY DEF LinkInit, GreetedIsServed
<1>2. LinkInv /\ GreetedIsServed /\ [LinkNext]_linkVars => GreetedIsServed'
  <2> SUFFICES ASSUME LinkInv, GreetedIsServed, [LinkNext]_linkVars PROVE GreetedIsServed'
      OBVIOUS
  <2> USE DEF GreetedIsServed, Serving
  <2>1. CASE NewConnection
    <3>1. tracked' # {conn_epoch'}
      BY <2>1 DEF NewConnection, replyVars, LinkInv, SocketOK, OneOf
    <3> QED
      BY <3>1
  <2>2. CASE OpenSocket \/ WriterDrops \/ PhoneSends
    BY <2>2 DEF OpenSocket, WriterDrops, PhoneSends, DropConnection, replyVars
  <2>3. CASE CalibThread \/ UNCHANGED linkVars
    BY <2>3 DEF CalibThread, TakePending, WriteParam, linkVars, connVars, replyVars
  <2>4. CASE CheckEpoch \/ CheckConnected \/ Idle
    BY <2>4 DEF CheckEpoch, OnEpoch, CheckConnected, Idle, Reset, connVars, sessionVars
  <2>5. CASE Read \/ Parsed \/ BadStream
    BY <2>5 DEF Read, ReadSome, Parsed, BadStream, connVars, sessionVars
  <2>6. CASE Parse
    BY <2>6 DEF Parse, Hello, Reply, connVars
  <2>7. CASE Fail \/ Failed
    BY <2>7 DEF Fail, Failed, DropConnection, Reset, connVars, sessionVars
  <2> QED
    BY <2>1, <2>2, <2>3, <2>4, <2>5, <2>6, <2>7 DEF LinkNext, ReplyThread
<1> QED
  BY <1>1, <1>2, LinkInvariant, PTL DEF LinkSpec

-----------------------------------------------------------------------------
(* The points of a socket that is closed only run out: the framer gets no   *)
(* piece of it any more, and each place on the way to the parameter gets    *)
(* them from the places before it alone.                                    *)
Old(s) == s <= sockets /\ fd # s
InFramer(s) == \E i \in 1 .. Len(framer) : framer[i].from = s
InSession(s) == InFramer(s) \/ cache = s

FlowsOut(s) ==
  /\ InFramer(s)' => InFramer(s)
  /\ cache' = s => InSession(s)
  /\ s \in decided' => s \in decided \/ InSession(s)
  /\ s \in slot' => s \in slot \/ InSession(s)
  /\ s \in writing' => s \in writing \/ s \in slot
  /\ param' = s => param = s \/ s \in writing

(* A decision is on the points it is given, or keeps the last one.          *)
LEMMA DecisionFlows ==
  ASSUME NEW p, NEW s, DecideTargets(p)
  PROVE  (s \in decided' => s \in decided \/ p = s) /\ (s \in slot' => s \in slot \/ p = s)
BY DEF DecideTargets

LEMMA ResetFlows ==
  ASSUME Reset, NEW s \in Sockets
  PROVE  cache' # s /\ (s \in decided' => s \in decided) /\ (s \in slot' => s \in slot)
<1>1. s # NoPoints
  BY ReplyConstants DEF Sockets, NoPoints
<1> QED
  BY <1>1, DecisionFlows DEF Reset

LEMMA ReadFlows ==
  ASSUME LinkInv, Read, NEW s \in Sockets, Old(s)
  PROVE  InFramer(s)' => InFramer(s)
<1>1. CASE framer' = framer
  BY <1>1 DEF InFramer
<1>2. CASE \E n \in 1 .. Len(unread) : ReadSome(n)
  <2> PICK n \in 1 .. Len(unread) : ReadSome(n)
      BY <1>2
  <2>1. /\ unread \in Seq(Pieces) /\ AllFrom(unread, fd) /\ framer \in Seq(Pieces) /\ Len(unread) \in Nat
    BY LenProperties DEF LinkInv, UnreadOK, FramerOK
  <2>2. PICK part : part = SubSeq(unread, 1, n)
    OBVIOUS
  <2>3. part \in Seq(Pieces) /\ AllFrom(part, fd)
    <3>1. 1 \in 1 .. Len(unread) + 1 /\ n \in (1 - 1) .. Len(unread) /\ n - 1 + 1 = n
      BY <2>1
    <3> QED
      BY <2>1, <2>2, <3>1, PartOfSeq DEF AllFrom
  <2>4. framer' = framer \o part
    BY <2>2 DEF ReadSome
  <2>5. \A i \in 1 .. Len(framer') : \/ \E j \in 1 .. Len(framer) : framer'[i] = framer[j]
                                     \/ \E j \in 1 .. Len(part) : framer'[i] = part[j]
    BY <2>1, <2>3, <2>4, JoinOfSeqs
  <2> QED
    BY <2>3, <2>5 DEF InFramer, AllFrom, Old
<1> QED
  BY <1>1, <1>2 DEF Read

LEMMA ParseFlows ==
  ASSUME LinkInv, Parse, NEW s \in Sockets
  PROVE  /\ InFramer(s)' => InFramer(s)
         /\ cache' = s => InSession(s)
         /\ s \in decided' => s \in decided \/ InSession(s)
         /\ s \in slot' => s \in slot \/ InSession(s)
<1>1. /\ framer \in Seq(Pieces) /\ Len(framer) \in Nat
      /\ MessageEnd \in 1 .. 3 /\ MessageEnd <= Len(framer)
  BY EndWithinThree, LenProperties DEF LinkInv, FramerOK, Parse, NeedMore
<1>2. PICK end \in 1 .. Len(framer) : end = MessageEnd
  BY <1>1
<1>3. InFramer(s)' => InFramer(s)
  <2>1. /\ end + 1 \in 1 .. Len(framer) + 1 /\ Len(framer) \in ((end + 1) - 1) .. Len(framer)
    BY <1>1
  <2>2. framer' = SubSeq(framer, end + 1, Len(framer))
    BY <1>2 DEF Parse, Consumed
  <2> DEFINE rest == SubSeq(framer, end + 1, Len(framer))
  <2>3. PICK m \in 1 .. Len(framer) + 1 : m = end + 1
    BY <2>1
  <2>4. framer \in Seq(Pieces) /\ Len(framer) \in Nat /\ rest = SubSeq(framer, m, Len(framer))
    BY <1>1, <2>3
  <2>5. \A i \in 1 .. Len(rest) : \E j \in 1 .. Len(framer) : rest[i] = framer[j]
    BY <2>1, <2>3, <2>4, PartOfSeq
  <2> QED
    BY <2>2, <2>5 DEF InFramer
<1>4. s # NoPoints
  BY ReplyConstants DEF Sockets, NoPoints
<1>5. CASE Hello
  BY <1>3, <1>5 DEF Hello, InSession
<1>6. CASE Reply
  <2>1. cache' \in {framer[end].from, NoPoints}
    BY <1>2, <1>6 DEF Reply
  <2>2. cache' = s => InFramer(s)
    BY <1>2, <1>4, <2>1 DEF InFramer
  <2>3. PICK p \in {cache', NoPoints} : DecideTargets(p)
    BY <1>6 DEF Reply
  <2> QED
    BY <1>3, <1>4, <2>2, <2>3, DecisionFlows DEF InSession
<1> QED
  BY <1>3, <1>5, <1>6 DEF Parse

(* The points of a socket that is closed do not come back: what the reply   *)
(* thread, the slot, the calib thread and the parameter still have of it    *)
(* only moves on towards the parameter, and the places behind stay empty,   *)
(* whatever was in flight when the connection was dropped.  With            *)
(* DecidedForNow, the safety half of OldPointsGo (main.cc:373-529, 877-885, *)
(* nav_outputs.h:101-132).                                                  *)
THEOREM OldPointsFlowOut ==
  LinkSpec => [][\A s \in Sockets : Old(s) => Old(s)' /\ FlowsOut(s)]_linkVars
<1>1. LinkInv /\ [LinkNext]_linkVars => [\A s \in Sockets : Old(s) => Old(s)' /\ FlowsOut(s)]_linkVars
  <2> SUFFICES ASSUME LinkInv, LinkNext, NEW s \in Sockets, Old(s) PROVE Old(s)' /\ FlowsOut(s)
      OBVIOUS
  <2>1. s \in Nat \ {0} /\ s # NoPoints /\ sockets \in Nat
    BY ReplyConstants DEF Sockets, NoPoints, LinkInv, SocketOK
  <2>2. CASE OpenSocket \/ NewConnection \/ WriterDrops \/ PhoneSends
    <3>1. Old(s)'
      BY <2>1, <2>2 DEF Old, OpenSocket, NewConnection, WriterDrops, PhoneSends, DropConnection
    <3>2. UNCHANGED <<framer, cache, decided, slot, writing, param>>
      BY <2>2 DEF OpenSocket, NewConnection, WriterDrops, PhoneSends, replyVars, calibVars
    <3> QED
      BY <3>1, <3>2 DEF FlowsOut, InFramer, InSession
  <2>3. CASE CalibThread
    <3>1. UNCHANGED <<framer, cache, decided>> /\ Old(s)'
      BY <2>3 DEF CalibThread, TakePending, WriteParam, connVars, replyVars, Old
    <3>2. /\ s \in slot' => s \in slot
          /\ s \in writing' => s \in writing \/ s \in slot
          /\ param' = s => param = s \/ s \in writing
      BY <2>3 DEF CalibThread, TakePending, WriteParam
    <3> QED
      BY <3>1, <3>2 DEF FlowsOut, InFramer, InSession
  <2>4. CASE ReplyThread
    <3>1. Old(s)' /\ UNCHANGED calibVars
      BY <2>1, <2>4 DEF ReplyThread, CheckEpoch, CheckConnected, Read, ReadSome, Idle, Parsed, Parse, BadStream,
                        Fail, Failed, DropConnection, connVars, Old
    <3>2. ASSUME /\ InFramer(s)' => InFramer(s)
                 /\ cache' = s => InSession(s)
                 /\ s \in decided' => s \in decided \/ InSession(s)
                 /\ s \in slot' => s \in slot \/ InSession(s)
          PROVE  Old(s)' /\ FlowsOut(s)
      BY <3>1, <3>2 DEF FlowsOut, calibVars
    <3>3. CASE UNCHANGED sessionVars /\ UNCHANGED framer
      <4>1. UNCHANGED <<framer, cache, decided, slot>>
        BY <3>3 DEF sessionVars
      <4> QED
        BY <3>2, <4>1 DEF InFramer, InSession
    <3>4. CASE Reset /\ framer' \in {framer, <<>>}
      <4>1. InFramer(s)' => InFramer(s)
        BY <3>4 DEF InFramer
      <4> QED
        BY <3>2, <3>4, <4>1, ResetFlows
    <3>5. CASE CheckEpoch \/ CheckConnected
      BY <3>3, <3>4, <3>5 DEF CheckEpoch, OnEpoch, CheckConnected, sessionVars
    <3>6. CASE Read
      <4>1. UNCHANGED <<cache, decided, slot>>
        BY <3>6 DEF Read, sessionVars
      <4> QED
        BY <3>2, <3>6, <4>1, ReadFlows DEF InSession
    <3>7. CASE Idle
      <4>1. CASE DecideOnCache /\ UNCHANGED <<framer, cache>>
        <5>1. PICK p \in {cache, NoPoints} : DecideTargets(p)
          BY <4>1 DEF DecideOnCache
        <5>2. /\ s \in decided' => s \in decided \/ cache = s
              /\ s \in slot' => s \in slot \/ cache = s
          BY <2>1, <5>1, DecisionFlows
        <5> QED
          BY <3>2, <4>1, <5>2 DEF InFramer, InSession
      <4> QED
        BY <3>4, <3>7, <4>1 DEF Idle
    <3>8. CASE Parse
      BY <3>2, <3>8, ParseFlows
    <3>9. CASE Parsed \/ BadStream \/ Fail
      BY <3>3, <3>9 DEF Parsed, BadStream, Fail
    <3>10. CASE Failed
      BY <3>4, <3>10 DEF Failed
    <3> QED
      BY <2>4, <3>5, <3>6, <3>7, <3>8, <3>9, <3>10 DEF ReplyThread
  <2> QED
    BY <2>2, <2>3, <2>4 DEF LinkNext
<1> QED
  BY <1>1, LinkInvariant, PTL DEF LinkSpec
=============================================================================
