------------------------- MODULE FramePairingProofs -------------------------
(***************************************************************************)
(* For any tolerance, gaps and staggers that satisfy SyncAssumption, any   *)
(* delay of the camera threads and any number of frames:                   *)
(*   - a pair is two pictures of one moment.  The matcher compares times   *)
(*     and nothing else, so IInv says what the times of the frames that    *)
(*     are on their way or wait tell: those of two triggers are further    *)
(*     apart than the tolerance (Apart), because none is later than the    *)
(*     last trigger and its stagger (NotAhead);                            *)
(*   - a frame leaves the matcher once, and with threads that keep up none *)
(*     is given up whose other half was taken (OnceInv, on top of IInv);   *)
(*   - a road frame has the number of the nearest slot, because it is a    *)
(*     period later than all that have one (IndexInv, on top of both).     *)
(***************************************************************************)
EXTENDS FramePairing, SequenceTheorems, TLAPS

Queued(c) == {arriving[c][i] : i \in 1 .. Len(arriving[c])}
Live == UNION {Queued(c) \cup slot[c] : c \in Cameras}

Frame == [cam : Cameras, trigger : Nat, sof : Int]

Sorted == /\ trigger \in Nat /\ sof \in Int
          /\ arriving \in [Cameras -> Seq(Frame)]
          /\ slot \in [Cameras -> SUBSET Frame]
          /\ \A c \in Cameras : \A f \in Queued(c) \cup slot[c] : f.cam = c

NotAhead == \A f \in Live : /\ f.trigger <= trigger
                            /\ f.sof <= sof \/ \E s \in Staggers : f.sof <= sof + s

Apart == \A f, g \in Live : f.trigger < g.trigger => g.sof - f.sof > Tolerance

IInv == Sorted /\ NotAhead /\ Apart /\ SamePicture
-----------------------------------------------------------------------------
LEMMA OtherCamera == \A c \in Cameras : Other(c) \in Cameras /\ Other(c) # c
<1>1. \A c \in Cameras : \E d \in Cameras : d # c
  BY DEF Cameras
<1> QED  BY <1>1 DEF Other

LEMMA LiveType == Sorted => /\ \A c \in Cameras : Queued(c) \subseteq Frame
                            /\ Live \subseteq Frame
BY DEF Sorted, Queued, Live

LEMMA InitIInv == Init => IInv
BY DEF Init, IInv, Sorted, NotAhead, Apart, SamePicture, Live, Queued, Cameras

\* The frames of a camera that takes the next picture: the old ones, and the new one.
LEMMA ExposeLive ==
  ASSUME IInv, NEW seen \in SUBSET Cameras, NEW gap \in Gaps, NEW stagger \in Staggers,
         Expose(seen, gap, stagger)
  PROVE  /\ Sorted'
         /\ \A f \in Live' : \/ f \in Live
                             \/ /\ f.trigger = trigger + 1
                                /\ f.sof \in {sof + gap, sof + gap + stagger}
                                /\ f.cam = "road" => f.sof = sof + gap
<1> DEFINE New(c) == [cam |-> c, trigger |-> trigger',
                      sof |-> IF c = "wide" THEN sof' + stagger ELSE sof']
<1>1. trigger' = trigger + 1 /\ sof' = sof + gap /\ trigger' \in Nat /\ sof' \in Int
  BY TimesAssumption DEF Expose, IInv, Sorted
<1>2. ASSUME NEW c \in Cameras
      PROVE  /\ New(c) \in Frame
             /\ arriving[c] \in Seq(Frame)
             /\ arriving'[c] = IF c \notin seen THEN arriving[c] ELSE Append(arriving[c], New(c))
  <2>1. (IF c = "wide" THEN sof' + stagger ELSE sof') \in Int
    BY <1>1, TimesAssumption
  <2>2. New(c) \in Frame
    BY <1>1, <2>1 DEF Frame
  <2>3. arriving[c] \in Seq(Frame)
    BY DEF IInv, Sorted
  <2>4. arriving'[c] = IF c \notin seen THEN arriving[c] ELSE Append(arriving[c], New(c))
    BY DEF Expose
  <2> QED  BY <2>2, <2>3, <2>4
<1>3. \A c \in Cameras : /\ arriving'[c] \in Seq(Frame)
                         /\ Queued(c)' \subseteq Queued(c) \cup {New(c)}
  <2> SUFFICES ASSUME NEW c \in Cameras
               PROVE  arriving'[c] \in Seq(Frame) /\ Queued(c)' \subseteq Queued(c) \cup {New(c)}
      OBVIOUS
  <2>1. CASE c \notin seen
    BY <1>2, <2>1 DEF Queued
  <2>2. CASE c \in seen
    <3>1. arriving'[c] = Append(arriving[c], New(c))
      BY <1>2, <2>2
    <3>2. Len(arriving'[c]) = Len(arriving[c]) + 1
      BY <1>2, <3>1, AppendProperties
    <3>3. \A i \in 1 .. Len(arriving'[c]) : \/ arriving'[c][i] = New(c)
                                            \/ i \in 1 .. Len(arriving[c]) /\ arriving'[c][i] = arriving[c][i]
      BY <1>2, <3>1, <3>2, AppendProperties
    <3> QED  BY <1>2, <3>1, <3>3, AppendProperties DEF Queued
  <2> QED  BY <2>1, <2>2
<1>4. slot' = slot /\ arriving' = [c \in Cameras |-> arriving'[c]]
  BY DEF Expose, matcherVars
<1>5. Sorted'
  BY <1>1, <1>3, <1>4 DEF IInv, Sorted
<1>6. \A f \in Live' : \/ f \in Live
                       \/ /\ f.trigger = trigger + 1
                          /\ f.sof \in {sof + gap, sof + gap + stagger}
                          /\ f.cam = "road" => f.sof = sof + gap
  BY <1>1, <1>3, <1>4 DEF Live
<1> QED  BY <1>5, <1>6

LEMMA ExposeStep ==
  ASSUME IInv, NEW seen \in SUBSET Cameras, NEW gap \in Gaps, NEW stagger \in Staggers,
         Expose(seen, gap, stagger)
  PROVE  IInv'
<1>1. gap \in Nat /\ stagger \in Nat /\ Tolerance \in Nat /\ sof \in Int /\ trigger \in Nat
  BY TimesAssumption DEF IInv, Sorted
<1>2. trigger' = trigger + 1 /\ sof' = sof + gap /\ pairs' = pairs
  BY DEF Expose, matcherVars
<1>3. \A f \in Live : f \in Frame
  BY LiveType DEF IInv
<1>4. NotAhead'
  <2> SUFFICES ASSUME NEW f \in Live'
               PROVE  /\ f.trigger <= trigger'
                      /\ f.sof <= sof' \/ \E s \in Staggers : f.sof <= sof' + s
      BY DEF NotAhead
  <2>1. CASE f \in Live
    <3>1. f.trigger \in Nat /\ f.sof \in Int /\ f.trigger <= trigger
      BY <1>3, <2>1 DEF Frame, IInv, NotAhead
    <3>2. CASE f.sof <= sof
      BY <1>1, <1>2, <3>1, <3>2
    <3>3. ASSUME NEW s \in Staggers, f.sof <= sof + s PROVE f.sof <= sof' + s
      BY <1>1, <1>2, <3>1, <3>3, TimesAssumption
    <3> QED  BY <1>1, <1>2, <2>1, <3>1, <3>2, <3>3 DEF IInv, NotAhead
  <2>2. CASE f \notin Live
    BY <1>1, <1>2, <2>2, ExposeLive
  <2> QED  BY <2>1, <2>2
<1>5. Apart'
  <2> SUFFICES ASSUME NEW f \in Live', NEW g \in Live', f.trigger < g.trigger
               PROVE  g.sof - f.sof > Tolerance
      BY DEF Apart
  <2>1. CASE f \in Live /\ g \in Live
    BY <2>1 DEF IInv, Apart
  <2>2. CASE f \in Live /\ g \notin Live
    <3>1. g.sof >= sof + gap /\ g.sof \in Int /\ f.sof \in Int
      BY <1>1, <1>3, <2>2, ExposeLive DEF Frame
    <3>2. gap - stagger > Tolerance
      BY SyncAssumption
    <3>3. CASE f.sof <= sof
      BY <1>1, <3>1, <3>2, <3>3
    <3>4. ASSUME NEW s \in Staggers, f.sof <= sof + s PROVE g.sof - f.sof > Tolerance
      <4>1. gap - s > Tolerance /\ s \in Nat
        BY SyncAssumption, TimesAssumption
      <4> QED  BY <1>1, <3>1, <3>4, <4>1
    <3> QED  BY <2>2, <3>3, <3>4 DEF IInv, NotAhead
  <2>3. CASE f \notin Live
    <3>1. f.trigger = trigger + 1
      BY <2>3, ExposeLive
    <3>2. g.trigger <= trigger + 1 /\ g.trigger \in Nat
      BY <1>1, <1>3, ExposeLive DEF IInv, NotAhead, Frame
    <3> QED  BY <1>1, <3>1, <3>2
  <2> QED  BY <2>1, <2>2, <2>3
<1> QED  BY <1>2, <1>4, <1>5, ExposeLive DEF IInv, SamePicture
-----------------------------------------------------------------------------
\* place_frame moves the first frame of its camera's queue to the slots, and forgets others.
LEMMA PlaceLive ==
  ASSUME IInv, NEW c \in Cameras, PlaceFrame(c)
  PROVE  Sorted' /\ Live' \subseteq Live /\ Head(arriving[c]) \in Queued(c)
<1> DEFINE f == Head(arriving[c])
<1> Sorted
  BY DEF IInv
<1>1. arriving[c] \in Seq(Frame) /\ arriving[c] # <<>>
  BY DEF PlaceFrame, Sorted
<1>2. f \in Queued(c)
  BY <1>1, HeadTailProperties DEF Queued
<1>3. f \in Frame /\ f.cam = c /\ Other(c) \in Cameras /\ Other(c) # c
  BY <1>2, LiveType, OtherCamera DEF Sorted
<1>4. slot' = Waiting(f)
  BY DEF PlaceFrame, Push
<1>5. /\ slot' \in [Cameras -> SUBSET Frame]
      /\ slot'[c] \subseteq {f}
      /\ \A d \in Cameras : d # c => slot'[d] \subseteq slot[d]
  BY <1>3, <1>4 DEF Waiting, Sorted
<1>6. arriving' \in [Cameras -> Seq(Frame)]
  BY <1>1, HeadTailProperties DEF PlaceFrame, Sorted
<1>7. \A d \in Cameras : Queued(d)' \subseteq Queued(d)
  <2>1. CASE arriving'[c] = Tail(arriving[c])
    <3>1. \A i \in 1 .. Len(arriving'[c]) : i + 1 \in 1 .. Len(arriving[c])
                                           /\ arriving'[c][i] = arriving[c][i + 1]
      BY <1>1, <2>1, HeadTailProperties
    <3>2. Queued(c)' \subseteq Queued(c)
      BY <3>1 DEF Queued
    <3>3. \A d \in Cameras : d # c => Queued(d)' = Queued(d)
      BY DEF PlaceFrame, Queued, Sorted
    <3> QED  BY <3>2, <3>3
  <2> QED  BY <2>1 DEF PlaceFrame, Sorted
<1>8. \A d \in Cameras : \A g \in Queued(d)' \cup slot'[d] : g.cam = d
  <2>1. \A d \in Cameras : \A g \in Queued(d) \cup slot[d] : g.cam = d
    BY DEF Sorted
  <2>2. ASSUME NEW d \in Cameras, NEW g \in Queued(d)' PROVE g.cam = d
    BY <1>7, <2>1, <2>2
  <2>3. ASSUME NEW d \in Cameras, NEW g \in slot'[d] PROVE g.cam = d
    <3>1. CASE d = c
      BY <1>3, <1>5, <2>3, <3>1
    <3>2. CASE d # c
      BY <1>5, <2>1, <2>3, <3>2
    <3> QED  BY <3>1, <3>2
  <2> QED  BY <2>2, <2>3
<1>9. trigger' \in Nat /\ sof' \in Int
  BY DEF PlaceFrame, Sorted
<1>10. Live' \subseteq Live
  BY <1>2, <1>5, <1>7 DEF Live
<1> QED  BY <1>2, <1>5, <1>6, <1>8, <1>9, <1>10 DEF Sorted

\* Frames that are on their way or wait, and are within the tolerance, are of one trigger.
LEMMA PairableSame ==
  ASSUME IInv, NEW f \in Live, NEW g \in Live, Pairable(f, g)
  PROVE  f.trigger = g.trigger
<1>1. /\ f.trigger \in Nat /\ f.sof \in Int
      /\ g.trigger \in Nat /\ g.sof \in Int /\ Tolerance \in Nat
  BY LiveType, TimesAssumption DEF IInv, Frame
<1>2. ~(f.trigger < g.trigger) /\ ~(g.trigger < f.trigger)
  BY <1>1 DEF IInv, Apart, Pairable
<1> QED  BY <1>1, <1>2

LEMMA PlaceStep ==
  ASSUME IInv, NEW c \in Cameras, PlaceFrame(c)
  PROVE  IInv'
<1> DEFINE f == Head(arriving[c])
<1>1. Sorted' /\ Live' \subseteq Live /\ f \in Live /\ f.cam \in Cameras
  BY PlaceLive, LiveType DEF IInv, Live, Sorted
<1>2. NotAhead' /\ Apart'
  BY <1>1 DEF IInv, NotAhead, Apart, PlaceFrame
<1>3. SamePicture'
  <2>1. pairs' = pairs \cup ({IF Half(f) = {} THEN {} ELSE Half(f) \cup {f}} \ {{}})
    BY DEF PlaceFrame, Push
  <2>2. \A g \in Half(f) : g \in Live /\ Pairable(f, g)
    BY <1>1, OtherCamera DEF Half, Live
  <2>3. \A g \in Half(f) \cup {f} : g.trigger = f.trigger
    BY <1>1, <2>2, PairableSame
  <2> QED  BY <2>1, <2>3 DEF IInv, SamePicture
<1> QED  BY <1>1, <1>2, <1>3 DEF IInv

\* A reconnection moves no frame.
LEMMA QuietStep ==
  ASSUME IInv, UNCHANGED <<trigger, sof, arriving, slot, pairs, dead>>
  PROVE  IInv'
<1>1. \A c \in Cameras : Queued(c)' = Queued(c)
  BY DEF Queued
<1>2. Live' = Live
  BY <1>1 DEF Live
<1>3. Sorted'
  BY <1>1 DEF IInv, Sorted
<1>4. NotAhead' /\ Apart'
  BY <1>2 DEF IInv, NotAhead, Apart
<1>5. SamePicture'
  BY DEF IInv, SamePicture
<1> QED  BY <1>3, <1>4, <1>5 DEF IInv

\* pair_matcher.h 56-86: the two halves of every pair show one moment.
THEOREM PairsMatch == Spec => []SamePicture
<1>1. Init => IInv
  BY InitIInv
<1>2. IInv /\ [Next]_vars => IInv'
  <2> SUFFICES ASSUME IInv, [Next]_vars PROVE IInv'
      OBVIOUS
  <2>1. CASE UNCHANGED <<cameraVars, matcherVars>>
    BY <2>1, QuietStep DEF cameraVars, matcherVars
  <2> QED  BY <2>1, ExposeStep, PlaceStep DEF Next, Reconnect, vars
<1>3. IInv => SamePicture
  BY DEF IInv
<1> QED  BY <1>1, <1>2, <1>3, PTL DEF Spec
-----------------------------------------------------------------------------
\* A frame leaves the matcher once.  The frames that wait for a thread are in the order of
\* their triggers, behind all that was placed; frames of one trigger are within the
\* tolerance, so the second to come finds the first.

Used == (UNION pairs) \cup dead

Past == \A f \in Used : f \in Frame /\ f.trigger <= trigger

InTurn == \A c \in Cameras :
  /\ \A i, j \in 1 .. Len(arriving[c]) : i < j => arriving[c][i].trigger < arriving[c][j].trigger
  /\ \A f \in Queued(c), g \in slot[c] \cup Used : g.cam = c => g.trigger < f.trigger

Near == \A f, g \in Live : f.trigger = g.trigger => Pairable(f, g)

KeepingUp ==
  /\ \A c \in Cameras : \A f \in Queued(c) : f.trigger = trigger
  /\ \A c \in Cameras : \A f \in slot[c], g \in slot[Other(c)] : f.trigger # g.trigger
  /\ NoneLost

OnceInv == Past /\ InTurn /\ UsedOnce /\ Near /\ (delay = 1 => KeepingUp)

LEMMA InitOnce == Init => OnceInv
BY DEF Init, OnceInv, Used, Past, InTurn, UsedOnce, Near, KeepingUp, NoneLost, Live, Queued, Cameras

\* The queue of a camera stays or gets the new picture.
LEMMA ExposeQueue ==
  ASSUME IInv, NEW seen \in SUBSET Cameras, NEW gap \in Gaps, NEW stagger \in Staggers,
         Expose(seen, gap, stagger), NEW c \in Cameras
  PROVE  \/ arriving'[c] = arriving[c] /\ Queued(c)' = Queued(c)
         \/ \E n \in Frame :
              /\ n.trigger = trigger + 1
              /\ n.sof \in {sof + gap, sof + gap + stagger}
              /\ Len(arriving'[c]) = Len(arriving[c]) + 1
              /\ \A i \in 1 .. Len(arriving[c]) : arriving'[c][i] = arriving[c][i]
              /\ arriving'[c][Len(arriving[c]) + 1] = n
              /\ Queued(c)' \subseteq Queued(c) \cup {n}
<1> DEFINE n == [cam |-> c, trigger |-> trigger',
                 sof |-> IF c = "wide" THEN sof' + stagger ELSE sof']
<1>1. trigger' = trigger + 1 /\ sof' = sof + gap /\ trigger' \in Nat /\ sof' \in Int
  BY TimesAssumption DEF Expose, IInv, Sorted
<1>2. (IF c = "wide" THEN sof' + stagger ELSE sof') \in {sof + gap, sof + gap + stagger}
  BY <1>1
<1>3. (IF c = "wide" THEN sof' + stagger ELSE sof') \in Int
  BY <1>1, TimesAssumption
<1>4. n \in Frame /\ n.trigger = trigger + 1 /\ n.sof \in {sof + gap, sof + gap + stagger}
  BY <1>1, <1>2, <1>3 DEF Frame
<1>5. arriving[c] \in Seq(Frame) /\ Len(arriving[c]) \in Nat
  BY LenProperties DEF IInv, Sorted
<1>6. arriving'[c] = IF c \notin seen THEN arriving[c] ELSE Append(arriving[c], n)
  BY DEF Expose
<1> HIDE DEF n
<1>7. CASE c \in seen
  <2>1. arriving'[c] = Append(arriving[c], n)
    BY <1>6, <1>7
  <2>2. /\ Len(arriving'[c]) = Len(arriving[c]) + 1
        /\ \A i \in 1 .. Len(arriving[c]) : arriving'[c][i] = arriving[c][i]
        /\ arriving'[c][Len(arriving[c]) + 1] = n
    BY <1>4, <1>5, <2>1, AppendProperties
  <2>3. \A i \in 1 .. Len(arriving'[c]) :
          i \in 1 .. Len(arriving[c]) \/ i = Len(arriving[c]) + 1
    BY <1>5, <2>2
  <2>4. Queued(c)' \subseteq Queued(c) \cup {n}
    BY <2>2, <2>3 DEF Queued
  <2> QED  BY <1>4, <2>2, <2>4
<1>8. CASE c \notin seen
  BY <1>6, <1>8 DEF Queued
<1> QED  BY <1>7, <1>8

LEMMA ExposeOnce ==
  ASSUME IInv, OnceInv,
         NEW seen \in SUBSET Cameras, NEW gap \in Gaps, NEW stagger \in Staggers,
         Expose(seen, gap, stagger)
  PROVE  OnceInv'
<1>1. gap \in Nat /\ stagger \in Nat /\ Tolerance \in Nat /\ sof \in Int /\ trigger \in Nat
      /\ stagger <= Tolerance
  BY TimesAssumption, SyncAssumption DEF IInv, Sorted
<1>2. trigger' = trigger + 1 /\ sof' = sof + gap /\ UNCHANGED <<delay, slot, pairs, dead>>
  BY DEF Expose, matcherVars
<1>3. Used' = Used
  BY <1>2 DEF Used
<1>4. \A g \in Used : g \in Frame /\ g.trigger \in Nat /\ g.trigger <= trigger
  BY DEF OnceInv, Past, Frame
<1>5. \A g \in Live : g \in Frame /\ g.trigger \in Nat /\ g.trigger <= trigger
  BY LiveType DEF IInv, NotAhead, Frame
<1>6. \A c \in Cameras : Queued(c) \subseteq Live /\ slot[c] \subseteq Live
  BY DEF Live
<1>7. Past'
  BY <1>1, <1>2, <1>3, <1>4 DEF Past
<1>8. UsedOnce'
  BY <1>2 DEF OnceInv, UsedOnce
<1>9. InTurn'
  <2> SUFFICES ASSUME NEW c \in Cameras
               PROVE  /\ \A i, j \in 1 .. Len(arriving'[c]) :
                           i < j => arriving'[c][i].trigger < arriving'[c][j].trigger
                      /\ \A f \in Queued(c)', g \in slot[c] \cup Used :
                           g.cam = c => g.trigger < f.trigger
    BY <1>2, <1>3 DEF InTurn
  <2>1. /\ \A i, j \in 1 .. Len(arriving[c]) :
             i < j => arriving[c][i].trigger < arriving[c][j].trigger
        /\ \A f \in Queued(c), g \in slot[c] \cup Used : g.cam = c => g.trigger < f.trigger
    BY DEF OnceInv, InTurn
  <2>2. CASE arriving'[c] = arriving[c] /\ Queued(c)' = Queued(c)
    BY <2>1, <2>2
  <2>3. ASSUME NEW n \in Frame, n.trigger = trigger + 1,
               Len(arriving'[c]) = Len(arriving[c]) + 1,
               \A i \in 1 .. Len(arriving[c]) : arriving'[c][i] = arriving[c][i],
               arriving'[c][Len(arriving[c]) + 1] = n,
               Queued(c)' \subseteq Queued(c) \cup {n}
        PROVE  /\ \A i, j \in 1 .. Len(arriving'[c]) :
                    i < j => arriving'[c][i].trigger < arriving'[c][j].trigger
               /\ \A f \in Queued(c)', g \in slot[c] \cup Used :
                    g.cam = c => g.trigger < f.trigger
    <3>1. Len(arriving[c]) \in Nat
      BY LenProperties DEF IInv, Sorted
    <3>2. \A i \in 1 .. Len(arriving[c]) : arriving[c][i].trigger < n.trigger
      <4>1. \A f \in Queued(c) : f.trigger < n.trigger
        BY <1>1, <1>5, <1>6, <2>3
      <4> QED  BY <4>1 DEF Queued
    <3>3. ASSUME NEW i \in 1 .. Len(arriving'[c]), NEW j \in 1 .. Len(arriving'[c]), i < j
          PROVE  arriving'[c][i].trigger < arriving'[c][j].trigger
      <4>1. i \in 1 .. Len(arriving[c])
        BY <2>3, <3>1, <3>3
      <4>2. j \in 1 .. Len(arriving[c]) \/ j = Len(arriving[c]) + 1
        BY <2>3, <3>1
      <4> QED  BY <2>1, <2>3, <3>2, <3>3, <4>1, <4>2
    <3>4. \A g \in slot[c] \cup Used : g.trigger < n.trigger
      BY <1>1, <1>4, <1>5, <1>6, <2>3
    <3> QED  BY <2>1, <2>3, <3>3, <3>4
  <2> QED  BY <2>2, <2>3, ExposeQueue
<1>10. Near'
  <2> SUFFICES ASSUME NEW f \in Live', NEW g \in Live', f.trigger = g.trigger
               PROVE  Pairable(f, g)
    BY DEF Near, Pairable
  <2>1. CASE f \in Live /\ g \in Live
    BY <2>1 DEF OnceInv, Near
  <2>2. CASE f \notin Live /\ g \notin Live
    <3>1. f.sof \in {sof + gap, sof + gap + stagger} /\ g.sof \in {sof + gap, sof + gap + stagger}
      BY <2>2, ExposeLive
    <3> QED  BY <1>1, <3>1 DEF Pairable
  <2>3. CASE f \in Live /\ g \notin Live
    <3>1. g.trigger = trigger + 1 /\ f.trigger \in Nat /\ f.trigger <= trigger
      BY <1>5, <2>3, ExposeLive
    <3> QED  BY <1>1, <3>1
  <2>4. CASE f \notin Live /\ g \in Live
    <3>1. f.trigger = trigger + 1 /\ g.trigger \in Nat /\ g.trigger <= trigger
      BY <1>5, <2>4, ExposeLive
    <3> QED  BY <1>1, <3>1
  <2> QED  BY <2>1, <2>2, <2>3, <2>4
<1>11. ASSUME delay = 1
       PROVE  KeepingUp'
  <2>1. KeepingUp
    BY <1>11 DEF OnceInv
  <2>2. \A c \in Cameras : Queued(c) = {}
    <3> SUFFICES ASSUME NEW c \in Cameras PROVE Queued(c) = {}
      OBVIOUS
    <3>1. Len(arriving[c]) \in Nat /\ Len(arriving[c]) < 1
      BY <1>11, LenProperties DEF Expose, IInv, Sorted
    <3> QED  BY <3>1 DEF Queued
  <2>3. ASSUME NEW c \in Cameras, NEW f \in Queued(c)'
        PROVE  f.trigger = trigger + 1
    <3>1. CASE Queued(c)' = Queued(c)
      BY <2>2, <2>3, <3>1
    <3>2. ASSUME NEW n \in Frame, n.trigger = trigger + 1, Queued(c)' \subseteq Queued(c) \cup {n}
          PROVE  f.trigger = trigger + 1
      BY <2>2, <2>3, <3>2
    <3> QED  BY <3>1, <3>2, ExposeQueue
  <2>4. NoneLost'
    <3> SUFFICES ASSUME NEW f \in dead,
                        NEW g \in dead \cup slot[Other(f.cam)] \cup Queued(Other(f.cam))',
                        f.cam # g.cam
                 PROVE  f.trigger # g.trigger
      BY <1>2 DEF NoneLost, Queued
    <3>1. dead \subseteq Used
      BY DEF Used
    <3>2. f.trigger \in Nat /\ f.trigger <= trigger /\ f.cam \in Cameras
      BY <1>4, <3>1 DEF Frame
    <3>3. CASE g \in Queued(Other(f.cam))'
      BY <1>1, <2>3, <3>2, <3>3, OtherCamera
    <3>4. CASE g \in dead \cup slot[Other(f.cam)]
      BY <2>1, <3>4 DEF KeepingUp, NoneLost
    <3> QED  BY <3>3, <3>4
  <2> QED  BY <1>2, <2>1, <2>3, <2>4 DEF KeepingUp
<1> QED  BY <1>2, <1>7, <1>8, <1>9, <1>10, <1>11 DEF OnceInv
\* What place_frame does with the first frame of a camera's queue, as sets of frames.
Placed(c, o, f) ==
  /\ o \in Cameras /\ o # c /\ Cameras = {c, o} /\ Other(o) = c
  /\ f \in Queued(c) /\ f.cam = c /\ f \in Frame
  /\ \A g \in slot[c] : g.cam = c
  /\ \A g \in slot[o] : g.cam = o
  /\ slot'[c] = IF Half(f) = {} THEN {f} ELSE {}
  /\ slot'[o] = slot[o] \ (Half(f) \cup Gone(f))
  /\ Half(f) \subseteq slot[o]
  /\ Half(f) = {} => Gone(f) \subseteq slot[c] \cup slot[o] /\ slot[c] \subseteq Gone(f)
  /\ Half(f) # {} => Gone(f) = slot[c]
  /\ Queued(o)' = Queued(o) /\ arriving'[o] = arriving[o]
  /\ Queued(c)' \subseteq Queued(c)

LEMMA PlaceMoves ==
  ASSUME IInv, NEW c \in Cameras, PlaceFrame(c), NEW f, f = Head(arriving[c]),
         NEW o, o = Other(c)
  PROVE  Placed(c, o, f)
<1> Sorted
  BY DEF IInv
<1>1. o \in Cameras /\ o # c
  BY OtherCamera
<1>2. Cameras = {c, o}
  BY <1>1 DEF Cameras
<1>3. Other(o) = c
  BY <1>1, <1>2, OtherCamera
<1>4. f \in Queued(c)
  BY PlaceLive
<1>5. f.cam = c /\ f \in Frame
  BY <1>4, LiveType DEF Sorted
<1>6. slot' = Waiting(f) /\ slot \in [Cameras -> SUBSET Frame]
  BY DEF PlaceFrame, Push, Sorted
<1>7. f.cam = c /\ Other(f.cam) = o
  BY <1>5
<1>8. /\ slot'[c] = IF Half(f) = {} THEN {f} ELSE {}
      /\ slot'[o] = slot[o] \ (Half(f) \cup Gone(f))
  BY <1>1, <1>6, <1>7 DEF Waiting
<1>9. /\ Half(f) \subseteq slot[o]
      /\ Half(f) = {} => Gone(f) \subseteq slot[c] \cup slot[o] /\ slot[c] \subseteq Gone(f)
      /\ Half(f) # {} => Gone(f) = slot[c]
  BY <1>7 DEF Half, Gone, Evicted
<1>10. arriving'[o] = arriving[o]
  BY <1>1 DEF PlaceFrame, Sorted
<1>11. Queued(o)' = Queued(o)
  BY <1>10 DEF Queued
<1>12. Queued(c)' \subseteq Queued(c)
  <2>1. arriving[c] \in Seq(Frame) /\ arriving[c] # <<>> /\ arriving'[c] = Tail(arriving[c])
    BY DEF PlaceFrame, Sorted
  <2>2. \A i \in 1 .. Len(arriving'[c]) : i + 1 \in 1 .. Len(arriving[c])
                                          /\ arriving'[c][i] = arriving[c][i + 1]
    BY <2>1, HeadTailProperties
  <2> QED  BY <2>2 DEF Queued
<1>13. (\A g \in slot[c] : g.cam = c) /\ \A g \in slot[o] : g.cam = o
  BY <1>1 DEF Sorted
<1> QED  BY <1>1, <1>2, <1>3, <1>4, <1>5, <1>8, <1>9, <1>10, <1>11, <1>12, <1>13 DEF Placed

\* Frames behind the first are of later triggers.
LEMMA PlaceTurn ==
  ASSUME IInv, InTurn, NEW c \in Cameras, PlaceFrame(c)
  PROVE  /\ \A i, j \in 1 .. Len(arriving'[c]) :
              i < j => arriving'[c][i].trigger < arriving'[c][j].trigger
         /\ \A g \in Queued(c)' : Head(arriving[c]).trigger < g.trigger
<1>1. arriving[c] \in Seq(Frame) /\ arriving[c] # <<>> /\ arriving'[c] = Tail(arriving[c])
  BY DEF PlaceFrame, IInv, Sorted
<1>2. /\ Len(arriving'[c]) \in Nat
      /\ \A i \in 1 .. Len(arriving'[c]) : i + 1 \in 1 .. Len(arriving[c])
                                           /\ arriving'[c][i] = arriving[c][i + 1]
      /\ 1 \in 1 .. Len(arriving[c]) /\ Head(arriving[c]) = arriving[c][1]
  BY <1>1, HeadTailProperties
<1>3. \A i, j \in 1 .. Len(arriving[c]) : i < j => arriving[c][i].trigger < arriving[c][j].trigger
  BY DEF InTurn
<1>4. ASSUME NEW i \in 1 .. Len(arriving'[c]), NEW j \in 1 .. Len(arriving'[c]), i < j
      PROVE  arriving'[c][i].trigger < arriving'[c][j].trigger
  <2>1. i + 1 < j + 1
    BY <1>2, <1>4
  <2> QED  BY <1>2, <1>3, <2>1
<1>5. \A i \in 1 .. Len(arriving'[c]) : Head(arriving[c]).trigger < arriving'[c][i].trigger
  <2> TAKE i \in 1 .. Len(arriving'[c])
  <2>1. 1 < i + 1
    BY <1>2
  <2> QED  BY <1>2, <1>3, <2>1
<1>6. \A g \in Queued(c)' : Head(arriving[c]).trigger < g.trigger
  BY <1>5 DEF Queued
<1> QED  BY <1>4, <1>6

LEMMA PlaceOnce ==
  ASSUME IInv, OnceInv, NEW c \in Cameras, PlaceFrame(c)
  PROVE  OnceInv'
<1> SUFFICES ASSUME NEW f, f = Head(arriving[c]), NEW o, o = Other(c) PROVE OnceInv'
    OBVIOUS
<1> DEFINE pair == IF Half(f) = {} THEN {} ELSE Half(f) \cup {f}
<1>1. /\ o \in Cameras /\ o # c /\ Cameras = {c, o} /\ Other(o) = c
      /\ f \in Queued(c) /\ f.cam = c /\ f \in Frame
      /\ \A g \in slot[c] : g.cam = c
      /\ \A g \in slot[o] : g.cam = o
  BY PlaceMoves DEF Placed
<1>2. /\ slot'[c] = IF Half(f) = {} THEN {f} ELSE {}
      /\ slot'[o] = slot[o] \ (Half(f) \cup Gone(f))
      /\ Half(f) \subseteq slot[o]
      /\ Half(f) = {} => Gone(f) \subseteq slot[c] \cup slot[o] /\ slot[c] \subseteq Gone(f)
      /\ Half(f) # {} => Gone(f) = slot[c]
      /\ Queued(o)' = Queued(o) /\ arriving'[o] = arriving[o]
      /\ Queued(c)' \subseteq Queued(c)
  BY PlaceMoves DEF Placed
<1>3. /\ dead' = dead \cup Gone(f)
      /\ pairs' = pairs \cup ({pair} \ {{}})
      /\ delay' = delay /\ trigger' = trigger /\ sof' = sof
  BY DEF PlaceFrame, Push
<1>4. Past /\ InTurn /\ UsedOnce /\ Near
  BY DEF OnceInv
<1>5. /\ \A g \in Queued(c)' : f.trigger < g.trigger
      /\ \A i, j \in 1 .. Len(arriving'[c]) :
           i < j => arriving'[c][i].trigger < arriving'[c][j].trigger
  BY <1>4, PlaceTurn
<1>6. \A d \in Cameras : \A h \in Queued(d), g \in slot[d] \cup Used :
        g.cam = d => g.trigger < h.trigger
  BY <1>4 DEF InTurn
<1>7. Live' \subseteq Live /\ f \in Live
      /\ \A d \in Cameras : Queued(d) \subseteq Live /\ slot[d] \subseteq Live
  BY <1>1, PlaceLive DEF Live
<1>8. \A g \in Live : g \in Frame /\ g.trigger \in Nat /\ g.trigger <= trigger
  BY LiveType DEF IInv, NotAhead, Frame
<1>9. f \notin Used /\ f \notin slot[c] /\ f \notin slot[o] /\ f.trigger \in Nat
  BY <1>1, <1>6, <1>7, <1>8
<1>10. Used' \subseteq Used \cup slot[c] \cup slot[o] \cup {f}
  BY <1>2, <1>3 DEF Used
<1>11. Past'
  BY <1>1, <1>3, <1>4, <1>7, <1>8, <1>10 DEF Past
<1>12. InTurn'
  <2>1. ASSUME NEW h \in Queued(c)', NEW g \in slot'[c] \cup Used', g.cam = c
        PROVE  g.trigger < h.trigger
    <3>1. g \in slot[c] \cup Used \/ g = f
      BY <1>1, <1>2, <1>10, <2>1
    <3> QED  BY <1>1, <1>2, <1>5, <1>6, <2>1, <3>1
  <2>2. ASSUME NEW h \in Queued(o)', NEW g \in slot'[o] \cup Used', g.cam = o
        PROVE  g.trigger < h.trigger
    <3>1. g \in slot[o] \cup Used
      BY <1>1, <1>2, <1>10, <2>2
    <3> QED  BY <1>1, <1>2, <1>6, <2>2, <3>1
  <2>3. \A i, j \in 1 .. Len(arriving'[o]) :
          i < j => arriving'[o][i].trigger < arriving'[o][j].trigger
    BY <1>1, <1>2, <1>4 DEF InTurn
  <2> QED  BY <1>1, <1>5, <2>1, <2>2, <2>3 DEF InTurn
<1>13. UsedOnce'
  <2>1. /\ \A p, q \in pairs : p # q => p \cap q = {}
        /\ \A p \in pairs : p \cap (dead \cup slot[c] \cup slot[o]) = {}
        /\ dead \cap (slot[c] \cup slot[o]) = {}
    BY <1>1, <1>4 DEF UsedOnce, Cameras
  <2>2. \A p \in pairs : f \notin p
    BY <1>9 DEF Used
  <2>3. f \notin dead
    BY <1>9 DEF Used
  <2>4. slot[c] \cap slot[o] = {}
    BY <1>1
  <2>5. pair \subseteq slot[o] \cup {f}
    BY <1>2
  <2>6. \A p \in pairs : p \cap pair = {}
    BY <2>1, <2>2, <2>5
  <2>7. \A p \in pairs : p \cap (dead' \cup slot'[c] \cup slot'[o]) = {}
    BY <1>2, <1>3, <2>1, <2>2
  <2>8. pair \cap (dead' \cup slot'[c] \cup slot'[o]) = {}
    BY <1>2, <1>3, <1>9, <2>1, <2>3, <2>4
  <2>9. dead' \cap (slot'[c] \cup slot'[o]) = {}
    BY <1>2, <1>3, <1>9, <2>1, <2>3, <2>4
  <2>10. \A p \in pairs' : p \in pairs \/ p = pair
    BY <1>3
  <2> HIDE DEF pair
  <2>11. \A p, q \in pairs' : p # q => p \cap q = {}
    BY <2>1, <2>6, <2>10
  <2>12. \A p \in pairs' : p \cap (dead' \cup slot'[c] \cup slot'[o]) = {}
    BY <2>7, <2>8, <2>10
  <2>13. slot'[c] \cup slot'[o] = slot'["road"] \cup slot'["wide"]
    BY <1>1 DEF Cameras
  <2> QED  BY <2>9, <2>11, <2>12, <2>13 DEF UsedOnce
<1>14. Near'
  BY <1>4, <1>7 DEF Near, Pairable
<1>15. ASSUME delay = 1 PROVE KeepingUp'
  <2>1. /\ \A d \in Cameras : \A h \in Queued(d) : h.trigger = trigger
        /\ \A g \in slot[c], h \in slot[o] : g.trigger # h.trigger
        /\ NoneLost
    BY <1>1, <1>15 DEF OnceInv, KeepingUp
  <2>2. \A d \in Cameras : \A h \in Queued(d)' : h.trigger = trigger'
    BY <1>1, <1>2, <1>3, <2>1
  <2>3. Half(f) = {} => \A g \in slot[o] : g.trigger # f.trigger
    <3>1. \A g \in slot[o] : f.trigger = g.trigger => Pairable(f, g)
      BY <1>1, <1>4, <1>7 DEF Near
    <3> QED  BY <1>1, <3>1 DEF Half
  <2>4. \A g \in slot'[c], h \in slot'[o] : g.trigger # h.trigger
    BY <1>2, <2>3
  <2>5. \A d \in Cameras : \A g \in slot'[d], h \in slot'[Other(d)] : g.trigger # h.trigger
    BY <1>1, <2>4
  <2>6. f.trigger = trigger
    BY <1>1, <2>1
  <2>7. \A x \in Gone(f) : x.trigger # trigger /\ (x \in slot[c] \/ x \in slot[o])
    <3>1. \A x \in slot[c] : x.trigger # trigger
      BY <1>1, <1>6, <1>7, <1>8, <2>6
    <3> QED  BY <1>2, <2>3, <2>6, <3>1
  <2>8. ASSUME NEW x \in dead, NEW y \in dead \cup slot[c] \cup slot[o] \cup Queued(c) \cup Queued(o),
               x.cam # y.cam
        PROVE  x.trigger # y.trigger
    <3>1. x.cam \in Cameras
      BY <1>4 DEF Past, Used, Frame
    <3>2. Other(x.cam) \in {c, o} /\ Other(x.cam) # x.cam
      BY <1>1, <3>1, OtherCamera
    <3>3. \A g \in Queued(c) : g.cam = c
      BY DEF IInv, Sorted
    <3>4. \A g \in Queued(o) : g.cam = o
      BY <1>1 DEF IInv, Sorted
    <3>5. y \in dead \cup slot[Other(x.cam)] \cup Queued(Other(x.cam))
      BY <1>1, <2>8, <3>1, <3>2, <3>3, <3>4
    <3> QED  BY <2>1, <2>8, <3>5 DEF NoneLost, Queued
  <2>9. ASSUME NEW x \in Gone(f),
               NEW y \in dead \cup slot[c] \cup slot[o] \cup Queued(c) \cup Queued(o),
               x.cam # y.cam
        PROVE  x.trigger # y.trigger
    <3>1. CASE y \in dead
      BY <2>7, <2>8, <2>9, <3>1
    <3>2. CASE y \in slot[c] \cup slot[o]
      BY <1>1, <2>1, <2>7, <2>9, <3>2
    <3>3. CASE y \in Queued(c) \cup Queued(o)
      BY <1>1, <2>1, <2>7, <3>3
    <3> QED  BY <3>1, <3>2, <3>3
  <2>10. NoneLost'
    <3> SUFFICES ASSUME NEW x \in dead',
                        NEW y \in dead' \cup slot'[Other(x.cam)] \cup Queued(Other(x.cam))',
                        x.cam # y.cam
                 PROVE  x.trigger # y.trigger
      BY DEF NoneLost, Queued
    <3>1. x.cam \in Cameras
      BY <1>11 DEF Past, Used, Frame
    <3>2. Other(x.cam) \in {c, o}
      BY <1>1, <3>1, OtherCamera
    <3>3. y \in dead \cup slot[c] \cup slot[o] \cup Queued(c) \cup Queued(o)
      BY <1>1, <1>2, <1>3, <2>7, <3>2
    <3> QED  BY <1>3, <2>8, <2>9, <3>3
  <2> QED  BY <2>2, <2>5, <2>10 DEF KeepingUp
<1> QED  BY <1>3, <1>11, <1>12, <1>13, <1>14, <1>15 DEF OnceInv

LEMMA OnceStep == IInv /\ OnceInv /\ [Next]_vars => (IInv /\ OnceInv)'
<1> SUFFICES ASSUME IInv, OnceInv, [Next]_vars PROVE IInv' /\ OnceInv'
    OBVIOUS
<1>1. CASE UNCHANGED <<delay, cameraVars, matcherVars>>
  <2>1. UNCHANGED <<delay, trigger, sof, arriving, slot, pairs, dead>>
    BY <1>1 DEF cameraVars, matcherVars
  <2>2. IInv'
    BY <2>1, QuietStep
  <2>3. OnceInv'
    BY <2>1 DEF OnceInv, Past, InTurn, UsedOnce, Near, KeepingUp, NoneLost, Used, Live, Queued,
                Pairable
  <2> QED  BY <2>2, <2>3
<1>2. CASE \E seen \in SUBSET Cameras, gap \in Gaps, stagger \in Staggers :
             Expose(seen, gap, stagger)
  BY <1>2, ExposeStep, ExposeOnce
<1>3. CASE \E c \in Cameras : PlaceFrame(c)
  BY <1>3, PlaceStep, PlaceOnce
<1> QED  BY <1>1, <1>2, <1>3 DEF Next, Reconnect, vars

\* pair_matcher.h 76-108 and main.cc place_frame: a frame is encoded in one pair or given up,
\* never both and never twice; and with threads that keep up none is given up whose other
\* half was taken.
THEOREM FramesLeaveOnce == Spec => []OnceAndNoneLost
<1>1. Init => IInv /\ OnceInv
  BY InitIInv, InitOnce
<1>2. OnceInv => OnceAndNoneLost
  BY DEF OnceInv, OnceAndNoneLost, KeepingUp
<1> QED  BY <1>1, <1>2, OnceStep, PTL DEF Spec
-----------------------------------------------------------------------------
\* The number of a frame is that of the nearest slot.  The matcher numbers the road frames
\* in the order of their triggers, so a frame that is numbered is a period later than all
\* that were, and its nearest slot is free.

RoadLive == {f \in Live : f.cam = "road"}

\* A road frame starts with its trigger, and those of two triggers are a period apart.
Spaced == /\ \A f \in RoadLive : f.sof <= sof
          /\ \A f, g \in RoadLive : f.trigger < g.trigger => g.sof - f.sof >= Period

OneWaits == \A c \in Cameras : \A f, g \in slot[c] : f = g

Close(i, b) == /\ 2 * (i.idx * Period - (i.sof - b)) <= Period
               /\ 2 * ((i.sof - b) - i.idx * Period) <= Period

\* What the indexer has given: from one base, none above the last, none twice, each close to
\* its slot.
Counted(x) == /\ x.last \in Int /\ x.base \subseteq Int
              /\ \A b, d \in x.base : b = d
              /\ x.base = {} => x.given = {}
              /\ x.base # {} => \E i \in x.given : i.idx = x.last
              /\ \A i \in x.given : i.idx \in Int /\ i.sof \in Int /\ i.idx <= x.last
              /\ \A i, j \in x.given : i.idx = j.idx => i = j
              /\ \A i \in x.given, b \in x.base : Close(i, b)

\* The frames of F are later than all that have a number.
LaterThan(F, x) == \A f \in F, i \in x.given : f.sof - i.sof >= Period

IndexInv == /\ Spaced
            /\ OneWaits
            /\ Counted(ix)
            /\ \A i \in ix.given : i.sof <= sof
            /\ LaterThan(RoadLive, ix)

LEMMA Rounding ==
  ASSUME NEW d \in Int
  PROVE  LET n == IF 2 * (d % Period) >= Period THEN d \div Period + 1 ELSE d \div Period
         IN  /\ n \in Int
             /\ 2 * (n * Period - d) <= Period
             /\ 2 * (d - n * Period) < Period
<1> DEFINE q == d \div Period
           r == d % Period
<1>1. q \in Int /\ r \in Int /\ r >= 0 /\ r < Period /\ d = q * Period + r
  BY TimesAssumption
<1> HIDE DEF q, r
<1>2. q * Period \in Int /\ (q + 1) * Period = q * Period + Period
  BY TimesAssumption, <1>1
<1>3. CASE 2 * r >= Period
  BY TimesAssumption, <1>1, <1>2, <1>3 DEF q, r
<1>4. CASE ~ (2 * r >= Period)
  BY TimesAssumption, <1>1, <1>2, <1>4 DEF q, r
<1> QED  BY <1>3, <1>4

\* A period later is another slot.
LEMMA LaterSlot ==
  ASSUME NEW m \in Int, NEW n \in Int, NEW d \in Int, NEW e \in Int,
         2 * (m * Period - d) <= Period, 2 * (e - n * Period) < Period, e - d >= Period
  PROVE  m < n
<1> SUFFICES ASSUME n <= m PROVE FALSE
  OBVIOUS
<1>1. n * Period <= m * Period
  BY TimesAssumption
<1>2. n * Period \in Int /\ m * Period \in Int
  BY TimesAssumption
<1> QED  BY TimesAssumption, <1>1, <1>2

\* Numbering a frame that is a period later than all before.
LEMMA IndexedCounts ==
  ASSUME NEW x, Counted(x), NEW f, f.sof \in Int, LaterThan({f}, x)
  PROVE  /\ Counted(Indexed(x, f))
         /\ \A i \in Indexed(x, f).given : i \in x.given \/ i.sof = f.sof
<1> DEFINE y == Indexed(x, f)
<1>1. CASE x.base = {}
  <2>1. y = [base |-> {f.sof}, last |-> 0, given |-> x.given \cup {[idx |-> 0, sof |-> f.sof]}]
    BY <1>1 DEF Indexed
  <2>2. x.given = {}
    BY <1>1 DEF Counted
  <2>3. y.base = {f.sof} /\ y.last = 0 /\ y.given = {[idx |-> 0, sof |-> f.sof]}
    BY <2>1, <2>2
  <2>4. Close([idx |-> 0, sof |-> f.sof], f.sof)
    BY TimesAssumption DEF Close
  <2> HIDE DEF y
  <2>5. Counted(y) /\ \A i \in y.given : i.sof = f.sof
    BY <2>3, <2>4 DEF Counted
  <2> QED  BY <2>5 DEF y
<1>2. CASE x.base # {}
  <2> DEFINE b == CHOOSE b \in x.base : TRUE
             d == f.sof - b
             n == IF 2 * (d % Period) >= Period THEN d \div Period + 1 ELSE d \div Period
  <2>1. b \in x.base /\ x.base = {b} /\ b \in Int
    BY <1>2 DEF Counted
  <2>2. d \in Int
    BY <2>1
  <2>3. IndexOf(x, f) = IF n <= x.last THEN x.last + 1 ELSE n
    BY DEF IndexOf
  <2> HIDE DEF d
  <2>4. n \in Int /\ 2 * (n * Period - d) <= Period /\ 2 * (d - n * Period) < Period
    BY <2>2, Rounding
  <2> HIDE DEF b, n
  <2>5. PICK i \in x.given : i.idx = x.last
    BY <1>2 DEF Counted
  <2>6. i.sof \in Int /\ x.last \in Int /\ 2 * (x.last * Period - (i.sof - b)) <= Period
    BY <2>1, <2>5 DEF Counted, Close
  <2>7. d - (i.sof - b) >= Period
    BY <2>1, <2>5, <2>6, TimesAssumption DEF LaterThan, d
  <2>8. x.last < n
    BY <2>1, <2>2, <2>4, <2>6, <2>7, LaterSlot
  <2>9. IndexOf(x, f) = n
    BY <2>3, <2>4, <2>6, <2>8
  <2> DEFINE new == [idx |-> n, sof |-> f.sof]
  <2>10. y.base = x.base /\ y.last = n /\ y.given = x.given \cup {new}
    BY <1>2, <2>9 DEF Indexed
  <2>11. Close(new, b)
    <3>1. n * Period \in Int /\ Period \in Int
      BY <2>4, TimesAssumption
    <3> QED  BY <2>4, <3>1, <2>1 DEF Close, d
  <2>12. new.idx = n /\ new.sof = f.sof
    OBVIOUS
  <2> HIDE DEF y, new
  <2>13. \A j \in x.given : j.idx \in Int /\ j.sof \in Int /\ j.idx < n
    BY <2>4, <2>6, <2>8 DEF Counted
  <2>14. \A j, k \in y.given : j.idx = k.idx => j = k
    BY <2>4, <2>10, <2>12, <2>13 DEF Counted
  <2>15. \A j \in y.given : j.idx \in Int /\ j.sof \in Int /\ j.idx <= n
    BY <2>4, <2>10, <2>12, <2>13
  <2>16. \A j \in y.given, c \in y.base : Close(j, c)
    BY <2>1, <2>10, <2>11 DEF Counted
  <2>17. Counted(y)
    BY <1>2, <2>1, <2>4, <2>10, <2>12, <2>14, <2>15, <2>16 DEF Counted
  <2>18. \A j \in y.given : j \in x.given \/ j.sof = f.sof
    BY <2>10, <2>12
  <2> QED  BY <2>17, <2>18 DEF y
<1> QED  BY <1>1, <1>2

\* The same for a set of one frame at most.
LEMMA AllCounts ==
  ASSUME NEW x, Counted(x), NEW F, \A f, g \in F : f = g, \A f \in F : f.sof \in Int,
         LaterThan(F, x)
  PROVE  /\ Counted(IndexedAll(x, F))
         /\ \A i \in IndexedAll(x, F).given : i \in x.given \/ \E f \in F : i.sof = f.sof
<1>1. CASE F = {}
  BY <1>1 DEF IndexedAll
<1>2. CASE F # {}
  <2> DEFINE f == CHOOSE f \in F : TRUE
  <2>1. f \in F /\ IndexedAll(x, F) = Indexed(x, f)
    BY <1>2 DEF IndexedAll
  <2> HIDE DEF f
  <2>2. f.sof \in Int /\ LaterThan({f}, x)
    BY <2>1 DEF LaterThan
  <2> QED  BY <2>1, <2>2, IndexedCounts
<1> QED  BY <1>1, <1>2

LEMMA InitIndex == Init => IndexInv
BY DEF Init, IndexInv, NewIndexer, Spaced, OneWaits, Counted, LaterThan, RoadLive, Live, Queued,
       Cameras

LEMMA ExposeIndex ==
  ASSUME IInv, IndexInv,
         NEW seen \in SUBSET Cameras, NEW gap \in Gaps, NEW stagger \in Staggers,
         Expose(seen, gap, stagger)
  PROVE  IndexInv'
<1>1. gap \in Nat /\ stagger \in Nat /\ Period \in Nat \ {0} /\ gap >= Period
      /\ sof \in Int /\ trigger \in Nat
  BY TimesAssumption, GapsAssumption DEF IInv, Sorted
<1>2. trigger' = trigger + 1 /\ sof' = sof + gap /\ UNCHANGED <<slot, ix>>
  BY DEF Expose, matcherVars
<1>3. \A f \in RoadLive' : f \in RoadLive \/ (f.trigger = trigger + 1 /\ f.sof = sof + gap)
  BY ExposeLive DEF RoadLive
<1>4. \A f \in RoadLive : f.trigger \in Nat /\ f.trigger <= trigger /\ f.sof \in Int /\ f.sof <= sof
  BY LiveType DEF IInv, NotAhead, IndexInv, Spaced, RoadLive, Frame
<1>5. ASSUME NEW f \in RoadLive' PROVE f.sof \in Int /\ f.sof <= sof + gap
  BY <1>1, <1>3, <1>4
<1>6. ASSUME NEW f \in RoadLive', NEW g \in RoadLive', f.trigger < g.trigger
      PROVE  g.sof - f.sof >= Period
  <2>1. CASE f \in RoadLive /\ g \in RoadLive
    BY <1>6, <2>1 DEF IndexInv, Spaced
  <2>2. CASE f \in RoadLive /\ g.sof = sof + gap
    <3>1. f.sof \in Int /\ f.sof <= sof
      BY <1>4, <2>2
    <3> QED  BY <1>1, <2>2, <3>1
  <2>3. ~ (f.trigger = trigger + 1 /\ (g \in RoadLive \/ g.trigger = trigger + 1))
    BY <1>1, <1>4, <1>6
  <2> QED  BY <1>3, <2>1, <2>2, <2>3
<1>7. Spaced'
  BY <1>2, <1>5, <1>6 DEF Spaced
<1>8. \A i \in ix.given : i.sof \in Int /\ i.sof <= sof
  BY DEF IndexInv, Counted
<1>9. \A i \in ix'.given : i.sof <= sof'
  BY <1>1, <1>2, <1>8
<1>10. LaterThan(RoadLive, ix)'
  <2> SUFFICES ASSUME NEW f \in RoadLive', NEW i \in ix.given PROVE f.sof - i.sof >= Period
    BY <1>2 DEF LaterThan
  <2>1. CASE f \in RoadLive
    BY <2>1 DEF IndexInv, LaterThan
  <2>2. CASE f.sof = sof + gap
    BY <1>1, <1>8, <2>2
  <2> QED  BY <1>3, <2>1, <2>2
<1> QED  BY <1>2, <1>7, <1>9, <1>10 DEF IndexInv, OneWaits

LEMMA PlaceIndex ==
  ASSUME IInv, InTurn, IndexInv, NEW c \in Cameras, PlaceFrame(c)
  PROVE  IndexInv'
<1> SUFFICES ASSUME NEW f, f = Head(arriving[c]), NEW o, o = Other(c) PROVE IndexInv'
    OBVIOUS
<1>1. Placed(c, o, f)
  BY PlaceMoves
<1> DEFINE pair == IF Half(f) = {} THEN {} ELSE Half(f) \cup {f}
           A == Road(Gone(f))
           B == Road(pair)
           x == IndexedAll(ix, A)
<1>2. \A g \in Queued(c)' : f.trigger < g.trigger
  BY PlaceTurn
<1>3. ix' = IndexedAll(x, B) /\ UNCHANGED sof
  BY DEF PlaceFrame, Push, Numbered
<1>4. Live' \subseteq Live /\ f \in Live /\ slot[c] \cup slot[o] \subseteq Live
  BY <1>1 DEF Live, Placed
<1>5. RoadLive' \subseteq RoadLive
  BY <1>4 DEF RoadLive
<1>6. \A g \in RoadLive : g.sof \in Int /\ g.trigger \in Nat /\ g.sof <= sof
  BY LiveType DEF IInv, IndexInv, Spaced, RoadLive, Frame
<1>7. \A g \in Queued(c), h \in slot[c] : h.trigger < g.trigger
  BY <1>1 DEF InTurn, Placed
<1>8. \A g \in Queued(o), h \in slot[o] : h.trigger < g.trigger
  BY <1>1 DEF InTurn, Placed
<1>9. A \subseteq RoadLive /\ B \subseteq RoadLive
  BY <1>1, <1>4 DEF Road, RoadLive, Placed
<1>10. (\A g, h \in A : g = h) /\ \A g, h \in B : g = h
  <2>1. \A g, h \in slot[c] : g = h
    BY DEF IndexInv, OneWaits
  <2>2. \A g, h \in slot[o] : g = h
    BY <1>1 DEF IndexInv, OneWaits, Placed
  <2> QED  BY <1>1, <2>1, <2>2 DEF Road, Placed
\* The frame that is given up is before the pair's, and both before what is left.
<1>11. \A g \in A, h \in B : g.trigger < h.trigger
  BY <1>1, <1>7 DEF Road, Placed
<1>12. \A g \in A \cup B, h \in RoadLive' : g.trigger < h.trigger
  <2> SUFFICES ASSUME NEW g \in A \cup B, NEW h \in RoadLive' PROVE g.trigger < h.trigger
    OBVIOUS
  <2>1. g.cam = "road" /\ h.cam = "road"
    BY <1>9 DEF RoadLive
  <2>2. h \in Queued(c)' \cup slot'[c] \cup Queued(o) \cup slot'[o]
    BY <1>1 DEF RoadLive, Live, Placed
  <2>3. \A k \in Queued(o) : k.cam = o
    BY <1>1 DEF IInv, Sorted, Placed
  <2>4. \A k \in Queued(c)' : k.cam = c
    BY <1>1 DEF IInv, Sorted, Placed
  <2>5. CASE c = "road"
    <3>1. g \in slot[c] \/ (g = f /\ Half(f) # {})
      BY <1>1, <2>1, <2>5 DEF Road, Placed
    <3>2. h \in Queued(c)' \/ (h = f /\ Half(f) = {})
      BY <1>1, <2>1, <2>2, <2>3, <2>5 DEF Placed
    <3>3. g \in slot[c] => g.trigger < h.trigger
      BY <1>1, <1>7, <3>2 DEF Placed
    <3>4. h \in Queued(c)' => f.trigger < h.trigger
      BY <1>2
    <3> QED  BY <3>1, <3>2, <3>3, <3>4
  <2>6. CASE o = "road"
    <3>1. g \in slot[o] /\ g \in Half(f) \cup Gone(f)
      BY <1>1, <2>1, <2>6 DEF Road, Placed
    <3>2. h \in Queued(o) \/ h \in slot'[o]
      BY <1>1, <2>1, <2>2, <2>4, <2>6 DEF Placed
    <3>3. h \notin slot'[o]
      BY <1>1, <3>1 DEF IndexInv, OneWaits, Placed
    <3> QED  BY <1>8, <3>1, <3>2, <3>3
  <2> QED  BY <1>1, <2>5, <2>6 DEF Cameras, Placed
<1>13. \A g, h \in RoadLive : g.trigger < h.trigger => h.sof - g.sof >= Period
  BY DEF IndexInv, Spaced
<1>14. LaterThan(RoadLive, ix) /\ Counted(ix) /\ \A i \in ix.given : i.sof <= sof
  BY DEF IndexInv
<1> HIDE DEF A, B, x, pair
<1>15. LaterThan(A, ix)
  BY <1>9, <1>14 DEF LaterThan
<1>16. Counted(x) /\ \A i \in x.given : i \in ix.given \/ \E g \in A : i.sof = g.sof
  BY <1>6, <1>9, <1>10, <1>14, <1>15, AllCounts DEF x
<1>17. LaterThan(B, x)
  BY <1>9, <1>11, <1>13, <1>14, <1>16 DEF LaterThan
<1>18. Counted(ix') /\ \A i \in ix'.given : i \in x.given \/ \E g \in B : i.sof = g.sof
  BY <1>3, <1>6, <1>9, <1>10, <1>16, <1>17, AllCounts
<1>19. \A i \in ix'.given : i \in ix.given \/ \E g \in A \cup B : i.sof = g.sof
  BY <1>16, <1>18
<1>20. LaterThan(RoadLive, ix)'
  BY <1>5, <1>9, <1>12, <1>13, <1>14, <1>19 DEF LaterThan
<1>21. \A i \in ix'.given : i.sof <= sof'
  BY <1>3, <1>6, <1>9, <1>14, <1>19
<1>22. Spaced'
  BY <1>3, <1>5 DEF IndexInv, Spaced
<1>23. OneWaits'
  BY <1>1 DEF IndexInv, OneWaits, Placed
<1> QED  BY <1>18, <1>20, <1>21, <1>22, <1>23 DEF IndexInv

LEMMA ReconnectIndex == IndexInv /\ Reconnect => IndexInv'
<1> SUFFICES ASSUME IndexInv, Reconnect PROVE IndexInv'
  OBVIOUS
<1>1. ix' = NewIndexer /\ UNCHANGED <<sof, slot, Live>>
  BY DEF Reconnect, cameraVars, matcherVars, Live, Queued
<1>2. ix'.base = {} /\ ix'.given = {} /\ ix'.last = 0
  BY <1>1 DEF NewIndexer
<1>3. Counted(ix')
  BY <1>2 DEF Counted
<1> QED  BY <1>1, <1>2, <1>3 DEF IndexInv, Spaced, OneWaits, LaterThan, RoadLive

LEMMA IndexInvariant == Spec => [](IInv /\ OnceInv /\ IndexInv)
<1>1. Init => IInv /\ OnceInv /\ IndexInv
  BY InitIInv, InitOnce, InitIndex
<1>2. IInv /\ OnceInv /\ IndexInv /\ [Next]_vars => (IInv /\ OnceInv /\ IndexInv)'
  <2> SUFFICES ASSUME IInv, OnceInv, IndexInv, [Next]_vars PROVE (IInv /\ OnceInv /\ IndexInv)'
      OBVIOUS
  <2>1. (IInv /\ OnceInv)'
    BY OnceStep
  <2>2. CASE UNCHANGED vars
    <3>1. UNCHANGED <<sof, ix, slot, Live>>
      BY <2>2 DEF vars, cameraVars, matcherVars, Live, Queued
    <3> QED  BY <2>1, <3>1 DEF IndexInv, Spaced, OneWaits, LaterThan, RoadLive
  <2>3. CASE \E seen \in SUBSET Cameras, gap \in Gaps, stagger \in Staggers :
               Expose(seen, gap, stagger)
    BY <2>1, <2>3, ExposeIndex
  <2>4. CASE \E c \in Cameras : PlaceFrame(c)
    BY <2>1, <2>4, PlaceIndex DEF OnceInv
  <2> QED  BY <2>1, <2>2, <2>3, <2>4, ReconnectIndex DEF Next
<1> QED  BY <1>1, <1>2, PTL DEF Spec

\* frame_scheduler.cpp 9-25: the index of a frame is that of the slot of 50 ms nearest to its
\* start, whatever was missed or given up before it.
THEOREM NumbersAreSlots == Spec => []NearestSlot
<1>1. IndexInv => NearestSlot
  <2> SUFFICES ASSUME IndexInv, NEW i \in ix.given, NEW b \in ix.base
               PROVE  LET off == 2 * (i.idx * Period - (i.sof - b))
                      IN  off <= Period /\ -off <= Period
    BY DEF NearestSlot
  <2>1. Close(i, b) /\ i.idx \in Int /\ i.sof \in Int /\ b \in Int
    BY DEF IndexInv, Counted
  <2>2. i.idx * Period \in Int
    BY <2>1, TimesAssumption
  <2> QED  BY <2>1, <2>2, TimesAssumption DEF Close
<1> QED  BY <1>1, IndexInvariant, PTL

\* The guard against a slot that is given twice (frame_scheduler.cpp:22), on a connection.
SlotsDiffer == \A i, j \in ix.given : i.idx = j.idx => i = j

THEOREM NoSlotTwice == Spec => []SlotsDiffer
<1>1. IndexInv => SlotsDiffer
  BY DEF IndexInv, Counted, SlotsDiffer
<1> QED  BY <1>1, IndexInvariant, PTL
=============================================================================
