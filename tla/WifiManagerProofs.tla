----------------------------- MODULE WifiManagerProofs -----------------------------
(***************************************************************************)
(* The screen shows the network of the device once all is quiet, and no old *)
(* answer brings back what a tap replaced: for any networks and profiles,   *)
(* any number of workers, taps and turns of NetworkManager.                 *)
(*                                                                         *)
(* The signals that the monitor has not served stand in one line, what it   *)
(* has taken in before what is on the wire.  While there is a signal of a   *)
(* state in the line, the last of them agrees with the device; when there   *)
(* is none, the screen agrees with it, or the monitor or a worker is still  *)
(* to write.                                                               *)
(***************************************************************************)
EXTENDS WifiManager, SequenceTheorems, WellFoundedInduction, TLAPS

Whats == {"PREPARE", "ACTIVATED", "DEACTIVATING", "DISCONNECTED", "DISCONNECTED_NEW", "DISCONNECTED_REMOVED",
          "WRONG_PASSWORD", "gone", "profile"}
Signals == [kind : {"removed", "new", "state"}, what : Whats, path : Profiles \cup {None}]
Statuses == {"DISCONNECTED", "CONNECTING", "CONNECTED"}

Jobs == [op : {"idle", "connect", "activate", "forget", "add", "init", "answer"},
         ssid : Ssids \cup {None}, read : Statuses \cup {"none"}]
Loops == [phase : 0..3, lookup : {"none", "PREPARE", "ACTIVATED"}, answered : BOOLEAN,
          path : Profiles \cup {None}, shown : Ssids \cup {None}]
WorkTypes ==
  /\ work \in [Workers -> Jobs]
  /\ \A w \in Workers : /\ work[w].op \in {"connect", "activate", "forget", "add"} => work[w].ssid \in Ssids
                        /\ work[w].op = "answer" => work[w].read \in Statuses

Types ==
  /\ wire \in Seq(Signals) /\ inbox \in Seq(Signals)
  /\ wifi_state \in [ssid : Ssids \cup {None}, status : Statuses]
  /\ connections \in [Ssids -> Profiles \cup {None}]
  /\ WorkTypes
  /\ monitor \in Loops
  /\ monitor.answered => monitor.lookup # "none"
  /\ fresh \subseteq Workers \cup {"monitor"}
  /\ saved \subseteq Profiles /\ volatile \subseteq saved

(* The device, and what it was asked for while it leaves a connection.      *)
DeviceOK ==
  /\ dev \in {"disc", "prep", "act", "deact"} /\ active \in Profiles \cup {None}
  /\ dev = "disc" <=> active = None
  /\ dev # "deact" => want = None /\ why = "none"
  /\ dev = "deact" => why \in {"new", "removed"}
  /\ want \in saved \cup {None}
  /\ why = "new" => want # None

(* The line of signals.                                                     *)
Line == inbox \o wire
HasState(q) == \E n \in 1..Len(q) : q[n].kind = "state"
Ends(q, whats) == \E n \in 1..Len(q) : /\ q[n].kind = "state" /\ q[n].what \in whats
                                       /\ \A m \in 1..Len(q) : m > n => q[m].kind # "state"
GoneIn(q, p) == \E n \in 1..Len(q) : q[n] = Gone(p)

Settled == dev \in {"disc", "act"}
Word == IF dev = "act" THEN {"ACTIVATED"} ELSE {"DISCONNECTED", "DISCONNECTED_REMOVED"}

(* The monitor waits for an answer that it will write.                      *)
Asking == monitor.lookup # "none" /\ "monitor" \in fresh

(* The last word of a device that has settled is what it has settled on.    *)
LastWord == Settled => /\ HasState(Line) => Ends(Line, Word)
                       /\ ~HasState(Line) /\ Asking => dev = "act" /\ monitor.lookup = "ACTIVATED"
PathHolds == monitor.answered /\ ~HasState(Line) => monitor.path = active

(* What a worker has read is older than a word of the monitor, or holds.     *)
ReadHolds == \A w \in Workers :
  work[w].op = "answer" /\ w \in fresh /\ w \notin late /\ Settled /\ ~HasState(Line) /\ ~Asking
  => work[w].read = DeviceStatus

(* A worker that will write the state, or have the device send a new one.   *)
Responsible(w) == work[w].op \in {"connect", "add", "activate", "init"} \/ (work[w].op = "answer" /\ w \in fresh)
Told == Settled /\ ~HasState(Line) /\ ~Asking /\ ~kept /\ ~undone => Agrees \/ \E w \in Workers : Responsible(w)

(* A profile that NetworkManager no longer has is about to be forgotten.    *)
Noted == \A s \in Ssids : connections[s] # None => connections[s] \in saved \/ GoneIn(Line, connections[s])

(* What a step of the device and its line may do: when it settles, it says   *)
(* so last, and what is no longer saved is said to be gone.                 *)
Moved ==
  /\ HasState(Line)' \/ (~HasState(Line) /\ active' = active)
  /\ Settled' => \/ Ends(Line, Word)'
                 \/ /\ UNCHANGED <<dev, active>> /\ (HasState(Line)' <=> HasState(Line))
                    /\ Ends(Line, Word) => Ends(Line, Word)'
NotesKept == /\ \A p \in saved : p \in saved' \/ GoneIn(Line', p)
             /\ \A p : GoneIn(Line, p) => GoneIn(Line', p)
DeviceKeeps == /\ wire' \in Seq(Signals) /\ saved' \subseteq Profiles /\ volatile' \subseteq saved'
               /\ DeviceOK' /\ Moved /\ NotesKept

WInv == Types /\ DeviceOK /\ LastWord /\ PathHolds /\ ReadHolds /\ Told /\ Noted

-----------------------------------------------------------------------------
(* Lines.                                                                    *)
LEMMA StateAt ==
  ASSUME NEW S, NEW q \in Seq(S), NEW r \in Seq(S)
  PROVE  /\ q \o r \in Seq(S) /\ Len(q) \in Nat /\ Len(r) \in Nat /\ Len(q \o r) = Len(q) + Len(r)
         /\ \A n \in 1..Len(q) : n \in 1..Len(q \o r) /\ (q \o r)[n] = q[n]
         /\ \A n \in 1..Len(r) : Len(q) + n \in 1..Len(q \o r) /\ (q \o r)[Len(q) + n] = r[n]
         /\ \A n \in 1..Len(q \o r) : n \in 1..Len(q) \/ n - Len(q) \in 1..Len(r)
<1>1. Len(q) \in Nat /\ Len(r) \in Nat
  BY LenProperties
<1> QED
  BY <1>1, ConcatProperties

LEMMA Joined ==
  ASSUME NEW a \in Seq(Signals), NEW b \in Seq(Signals), NEW c \in Seq(Signals)
  PROVE  (a \o b) \o c = a \o (b \o c)
BY ConcatAssociative

LEMMA OfConcat ==
  ASSUME NEW q \in Seq(Signals), NEW r \in Seq(Signals)
  PROVE  /\ HasState(q \o r) <=> HasState(q) \/ HasState(r)
         /\ \A whats : Ends(r, whats) => Ends(q \o r, whats)
         /\ \A whats : Ends(q, whats) /\ ~HasState(r) => Ends(q \o r, whats)
         /\ \A p : GoneIn(q \o r, p) <=> GoneIn(q, p) \/ GoneIn(r, p)
<1> DEFINE l == q \o r
<1>1. /\ Len(q) \in Nat /\ Len(r) \in Nat
      /\ \A n \in 1..Len(q) : n \in 1..Len(l) /\ l[n] = q[n]
      /\ \A n \in 1..Len(r) : Len(q) + n \in 1..Len(l) /\ l[Len(q) + n] = r[n]
  BY StateAt
<1>2. \A n \in 1..Len(l) : (n \in 1..Len(q) /\ l[n] = q[n]) \/ (n - Len(q) \in 1..Len(r) /\ l[n] = r[n - Len(q)])
  <2> TAKE n \in 1..Len(l)
  <2>1. n \in 1..Len(q) \/ n - Len(q) \in 1..Len(r)
    BY StateAt
  <2>2. CASE n - Len(q) \in 1..Len(r)
    <3>1. Len(q) + (n - Len(q)) = n
      BY <1>1, StateAt
    <3> QED
      BY <1>1, <2>2, <3>1
  <2> QED
    BY <1>1, <2>1, <2>2
<1> HIDE DEF l
<1>3. HasState(l) <=> HasState(q) \/ HasState(r)
  <2>1. HasState(q) \/ HasState(r) => HasState(l)
    BY <1>1 DEF HasState
  <2>2. ASSUME HasState(l) PROVE HasState(q) \/ HasState(r)
    <3>1. PICK n \in 1..Len(l) : l[n].kind = "state"
      BY <2>2 DEF HasState
    <3>2. (n \in 1..Len(q) /\ l[n] = q[n]) \/ (n - Len(q) \in 1..Len(r) /\ l[n] = r[n - Len(q)])
      BY <1>2
    <3> QED
      BY <3>1, <3>2 DEF HasState
  <2> QED
    BY <2>1, <2>2
<1>4. ASSUME NEW whats, Ends(r, whats) PROVE Ends(l, whats)
  <2>1. PICK n \in 1..Len(r) : /\ r[n].kind = "state" /\ r[n].what \in whats
                               /\ \A m \in 1..Len(r) : m > n => r[m].kind # "state"
    BY <1>4 DEF Ends
  <2>2. Len(q) + n \in 1..Len(l) /\ l[Len(q) + n] = r[n]
    BY <1>1
  <2>3. ASSUME NEW m \in 1..Len(l), m > Len(q) + n PROVE l[m].kind # "state"
    <3>1. m \notin 1..Len(q) /\ m - Len(q) > n
      BY <1>1, <2>3
    <3> QED
      BY <1>2, <2>1, <3>1
  <2> QED
    BY <2>1, <2>2, <2>3 DEF Ends
<1>5. ASSUME NEW whats, Ends(q, whats), ~HasState(r) PROVE Ends(l, whats)
  <2>1. PICK n \in 1..Len(q) : /\ q[n].kind = "state" /\ q[n].what \in whats
                               /\ \A m \in 1..Len(q) : m > n => q[m].kind # "state"
    BY <1>5 DEF Ends
  <2>2. n \in 1..Len(l) /\ l[n] = q[n]
    BY <1>1
  <2>3. \A m \in 1..Len(l) : m > n => l[m].kind # "state"
    BY <1>2, <1>5, <2>1 DEF HasState
  <2> QED
    BY <2>1, <2>2, <2>3 DEF Ends
<1>6. ASSUME NEW p PROVE GoneIn(l, p) <=> GoneIn(q, p) \/ GoneIn(r, p)
  <2>1. GoneIn(q, p) \/ GoneIn(r, p) => GoneIn(l, p)
    BY <1>1 DEF GoneIn
  <2>2. ASSUME GoneIn(l, p) PROVE GoneIn(q, p) \/ GoneIn(r, p)
    <3>1. PICK n \in 1..Len(l) : l[n] = Gone(p)
      BY <2>2 DEF GoneIn
    <3>2. (n \in 1..Len(q) /\ l[n] = q[n]) \/ (n - Len(q) \in 1..Len(r) /\ l[n] = r[n - Len(q)])
      BY <1>2
    <3> QED
      BY <3>1, <3>2 DEF GoneIn
  <2> QED
    BY <2>1, <2>2
<1> QED
  BY <1>3, <1>4, <1>5, <1>6 DEF l

LEMMA OfOne ==
  ASSUME NEW e \in Signals
  PROVE  /\ <<e>> \in Seq(Signals)
         /\ HasState(<<e>>) <=> e.kind = "state"
         /\ \A whats : e.kind = "state" /\ e.what \in whats => Ends(<<e>>, whats)
         /\ GoneIn(<<e>>, e.path) <=> e = Gone(e.path)
<1>1. Len(<<e>>) = 1 /\ <<e>>[1] = e /\ 1..1 = {1}
  OBVIOUS
<1> QED
  BY <1>1 DEF HasState, Ends, GoneIn

LEMMA OfNone == << >> \in Seq(Signals) /\ ~HasState(<< >>)
<1>1. Len(<< >>) = 0 /\ 1..0 = {}
  OBVIOUS
<1> QED
  BY <1>1 DEF HasState

LEMMA EndsHasState ==
  ASSUME NEW q, NEW whats, Ends(q, whats) PROVE HasState(q)
BY DEF Ends, HasState

(* One signal is taken out of the line: the first of its kind.              *)
LEMMA Without ==
  ASSUME NEW S, NEW q \in Seq(S), NEW n \in 1..Len(q)
  PROVE  /\ RemoveAt(q, n) \in Seq(S) /\ Len(RemoveAt(q, n)) = Len(q) - 1 /\ Len(q) \in Nat
         /\ \A i \in 1..Len(q) - 1 : RemoveAt(q, n)[i] = IF i < n THEN q[i] ELSE q[i + 1]
<1>1. Len(q) \in Nat /\ n \in Nat /\ \A i \in 1..Len(q) : q[i] \in S
  BY LenProperties, ElementOfSeq
<1>2. /\ SubSeq(q, 1, n - 1) \in Seq(S) /\ Len(SubSeq(q, 1, n - 1)) = n - 1
      /\ \A i \in 1..n - 1 : SubSeq(q, 1, n - 1)[i] = q[i]
  <2>1. ASSUME NEW i \in 1..n - 1 PROVE q[i] \in S
    <3>1. i \in 1..Len(q)
      BY <1>1, SMTT(30)
    <3> QED
      BY <1>1, <3>1, Zenon
  <2> QED
    BY <1>1, <2>1, SubSeqProperties
<1>3. /\ SubSeq(q, n + 1, Len(q)) \in Seq(S) /\ Len(SubSeq(q, n + 1, Len(q))) = Len(q) - n
      /\ \A i \in 1..Len(q) - n : SubSeq(q, n + 1, Len(q))[i] = q[n + i]
  <2>1. \A i \in n + 1..Len(q) : q[i] \in S
    BY <1>1
  <2>2. \A i \in 1..Len(q) - (n + 1) + 1 : SubSeq(q, n + 1, Len(q))[i] = q[(n + 1) + i - 1]
    BY <1>1, <2>1, SubSeqProperties
  <2>3. SubSeq(q, n + 1, Len(q)) \in Seq(S) /\ Len(SubSeq(q, n + 1, Len(q))) = Len(q) - n
    BY <1>1, <2>1, SubSeqProperties
  <2>4. Len(q) - (n + 1) + 1 = Len(q) - n /\ \A i \in 1..Len(q) - n : (n + 1) + i - 1 = n + i
    BY <1>1
  <2> QED
    BY <2>2, <2>3, <2>4
<1>4. RemoveAt(q, n) = SubSeq(q, 1, n - 1) \o SubSeq(q, n + 1, Len(q))
  BY Zenon DEF RemoveAt
<1>5. /\ RemoveAt(q, n) \in Seq(S) /\ Len(RemoveAt(q, n)) = Len(q) - 1
      /\ \A i \in 1..n - 1 : RemoveAt(q, n)[i] = q[i]
      /\ \A i \in 1..Len(q) - n : RemoveAt(q, n)[(n - 1) + i] = q[n + i]
  <2>1. PICK a \in Seq(S) : a = SubSeq(q, 1, n - 1)
    BY <1>2
  <2>2. PICK b \in Seq(S) : b = SubSeq(q, n + 1, Len(q))
    BY <1>3
  <2>3. /\ a \o b \in Seq(S) /\ Len(a \o b) = Len(a) + Len(b)
        /\ \A i \in 1..Len(a) : (a \o b)[i] = a[i]
        /\ \A i \in 1..Len(b) : (a \o b)[Len(a) + i] = b[i]
    BY StateAt
  <2>4. RemoveAt(q, n) = a \o b /\ Len(a) = n - 1 /\ Len(b) = Len(q) - n /\ (n - 1) + (Len(q) - n) = Len(q) - 1
    BY <1>1, <1>2, <1>3, <1>4, <2>1, <2>2
  <2>5. /\ \A i \in 1..n - 1 : a[i] = q[i]
        /\ \A i \in 1..Len(q) - n : b[i] = q[n + i]
    BY <1>2, <1>3, <2>1, <2>2
  <2> QED
    BY <2>3, <2>4, <2>5, Zenon
<1>6. ASSUME NEW i \in 1..Len(q) - 1 PROVE RemoveAt(q, n)[i] = IF i < n THEN q[i] ELSE q[i + 1]
  <2>1. CASE i < n
    <3>1. i \in 1..n - 1
      BY <1>1, <2>1
    <3> QED
      BY <1>5, <2>1, <3>1
  <2>2. CASE ~(i < n)
    <3>1. i - (n - 1) \in 1..Len(q) - n /\ (n - 1) + (i - (n - 1)) = i /\ n + (i - (n - 1)) = i + 1
      BY <1>1, <2>2
    <3> QED
      BY <1>5, <2>2, <3>1
  <2> QED
    BY <2>1, <2>2
<1> QED
  BY <1>1, <1>5, <1>6

-----------------------------------------------------------------------------
(* The device.                                                              *)
LEMMA SentLast ==
  ASSUME Types, NEW signals \in Seq(Signals), Send(signals), inbox' = inbox
  PROVE  /\ wire' \in Seq(Signals)
         /\ HasState(Line') <=> HasState(Line) \/ HasState(signals)
         /\ \A whats : Ends(signals, whats) => Ends(Line', whats)
         /\ \A whats : Ends(Line, whats) /\ ~HasState(signals) => Ends(Line', whats)
         /\ \A p : GoneIn(Line', p) <=> GoneIn(Line, p) \/ GoneIn(signals, p)
<1>1. inbox \in Seq(Signals) /\ wire \in Seq(Signals) /\ inbox \o wire \in Seq(Signals)
  BY ConcatProperties DEF Types
<1>2. wire' \in Seq(Signals)
  BY <1>1, ConcatProperties DEF Send
<1>3. Line' = Line \o signals /\ Line \in Seq(Signals)
  <2>1. (inbox \o wire) \o signals = inbox \o (wire \o signals)
    BY <1>1, Joined, ZenonT(40)
  <2> QED
    BY <1>1, <2>1 DEF Line, Send
<1> QED
  BY <1>2, <1>3, OfConcat

LEMMA StateIsSignal ==
  ASSUME Types, DeviceOK, NEW x \in Whats
  PROVE  State(x) \in Signals /\ State(x).kind = "state" /\ State(x).what = x
BY DEF DeviceOK, State, Signal, Signals, Whats

LEMMA GoneIsSignal ==
  ASSUME NEW p \in Profiles
  PROVE  /\ Gone(p) \in Signals /\ <<Gone(p)>> \in Seq(Signals) /\ ~HasState(<<Gone(p)>>) /\ GoneIn(<<Gone(p)>>, p)
<1>1. Gone(p) \in Signals /\ Gone(p).kind = "removed" /\ Gone(p).path = p
  BY DEF Gone, Signal, Signals, Whats
<1> QED
  BY <1>1, OfOne

LEMMA TurnToKeeps ==
  ASSUME Types, DeviceOK, NEW p \in Profiles, NEW signals \in Seq(Signals), TurnTo(p, signals), inbox' = inbox,
         saved \subseteq saved', p \in saved', saved' \subseteq Profiles, volatile' \subseteq saved'
  PROVE  DeviceKeeps
<1>1. p # None
  BY NMConstants DEF Profiles
<1>2. CASE dev = "disc"
  <2>1. PICK e \in Signals : e = Signal("state", "PREPARE", p) /\ e.kind = "state"
    <3>1. Signal("state", "PREPARE", p) \in Signals /\ Signal("state", "PREPARE", p).kind = "state"
      BY DEF Signal, Signals, Whats
    <3> QED
      BY <3>1
  <2>2. signals \o <<e>> \in Seq(Signals) /\ HasState(signals \o <<e>>)
    BY <2>1, OfOne, OfConcat, ConcatProperties
  <2>3. Send(signals \o <<e>>)
    BY <1>2, <2>1 DEF TurnTo
  <2>4. dev' = "prep" /\ active' = p /\ want' = None /\ why' = why
    BY <1>2 DEF TurnTo
  <2>5. DeviceOK' /\ ~Settled'
    BY <1>1, <1>2, <2>4 DEF DeviceOK, Settled
  <2> QED
    BY <2>2, <2>3, <2>5, SentLast DEF DeviceKeeps, Moved, NotesKept
<1>3. CASE dev # "disc"
  <2>1. dev' = "deact" /\ why' = (IF dev = "deact" THEN why ELSE "new") /\ want' = p /\ active' = active
        /\ Send(signals)
    BY <1>3 DEF TurnTo
  <2>2. DeviceOK' /\ ~Settled'
    BY <1>1, <1>3, <2>1 DEF DeviceOK, Settled
  <2> QED
    BY <2>1, <2>2, SentLast DEF DeviceKeeps, Moved, NotesKept
<1> QED
  BY <1>2, <1>3

LEMMA LeaveKeeps ==
  ASSUME Types, DeviceOK, NEW first \in Seq(Signals), NEW p \in saved \cup {None}, dev # "disc",
         HasState(first), p = None => Ends(first, {"DISCONNECTED", "DISCONNECTED_REMOVED"}),
         Leave(first, p), inbox' = inbox, want' = None, p # None => p \in Profiles
  PROVE  DeviceKeeps
<1>1. PICK gone \in Seq(Signals) : /\ gone = (IF active \in volatile THEN <<Gone(active)>> ELSE << >>)
                                   /\ ~HasState(gone) /\ (active \in volatile => GoneIn(gone, active))
  BY GoneIsSignal, OfNone DEF Types
<1>2. PICK next \in Seq(Signals) : /\ next = (IF p = None THEN <<>> ELSE <<Signal("state", "PREPARE", p)>>)
                                   /\ p = None => ~HasState(next)
  <2>1. p # None => Signal("state", "PREPARE", p) \in Signals
    BY DEF Signal, Signals, Whats
  <2> QED
    BY <2>1, OfNone, OfOne
<1>3. PICK before \in Seq(Signals) : before = first \o gone
  BY ConcatProperties
<1>4. PICK signals \in Seq(Signals) : signals = before \o next
  BY ConcatProperties
<1>5. /\ HasState(signals)
      /\ p = None => Ends(signals, {"DISCONNECTED", "DISCONNECTED_REMOVED"})
      /\ active \in volatile => GoneIn(signals, active)
  <2>1. /\ HasState(before)
        /\ p = None => Ends(before, {"DISCONNECTED", "DISCONNECTED_REMOVED"})
        /\ active \in volatile => GoneIn(before, active)
    BY <1>1, <1>3, OfConcat
  <2>2. /\ HasState(before) => HasState(signals)
        /\ \A whats : Ends(before, whats) /\ ~HasState(next) => Ends(signals, whats)
        /\ \A x : GoneIn(before, x) => GoneIn(signals, x)
    BY <1>4, OfConcat
  <2> QED
    BY <1>2, <2>1, <2>2
<1>6. Send(signals)
  BY <1>1, <1>2, <1>3, <1>4 DEF Leave
<1>7. /\ active' = p /\ dev' = (IF p = None THEN "disc" ELSE "prep") /\ why' = "none"
      /\ saved' = saved \ (volatile \cap {active}) /\ volatile' = volatile \ {active}
  BY DEF Leave
<1>8. DeviceOK' /\ saved' \subseteq Profiles /\ volatile' \subseteq saved'
  BY <1>7 DEF DeviceOK, Types
<1>9. Moved
  BY <1>5, <1>6, <1>7, SentLast DEF Moved, Settled, Word
<1>10. NotesKept
  BY <1>5, <1>6, <1>7, SentLast DEF NotesKept
<1> QED
  BY <1>6, <1>8, <1>9, <1>10, SentLast DEF DeviceKeeps

LEMMA DeleteKeeps ==
  ASSUME Types, DeviceOK, NEW p \in Profiles, Delete(p), inbox' = inbox
  PROVE  DeviceKeeps
<1>1. /\ saved' = saved \ {p} /\ volatile' = volatile \ {p} /\ active' = active
      /\ want' = (IF want = p THEN None ELSE want)
      /\ saved' \subseteq Profiles /\ volatile' \subseteq saved'
  BY DEF Delete, Types
<1>2. CASE p \notin saved
  <2>1. UNCHANGED <<dev, why, wire, want, active>> /\ Line' = Line
    BY <1>1, <1>2, NMConstants DEF Delete, DeviceOK, Profiles, Line
  <2>2. DeviceOK'
    BY <1>1, <1>2, <2>1 DEF DeviceOK
  <2> QED
    BY <1>1, <1>2, <2>1, <2>2 DEF DeviceKeeps, Moved, NotesKept, Types, Settled, Word
<1>3. CASE p \in saved /\ p = active /\ dev \in {"prep", "act"}
  <2>1. dev' = "deact" /\ why' = "removed" /\ want = None
    BY <1>3 DEF Delete, DeviceOK
  <2>2. DeviceOK' /\ ~Settled'
    BY <1>1, <1>3, <2>1 DEF DeviceOK, Settled
  <2>3. PICK e \in Signals : e = State("DEACTIVATING") /\ e.kind = "state"
    BY StateIsSignal DEF Whats
  <2>4. PICK signals \in Seq(Signals) : Send(signals) /\ HasState(signals) /\ GoneIn(signals, p)
    <3>1. CASE Send(<<Gone(p), State("DEACTIVATING")>>)
      <4>1. <<Gone(p), e>> = <<Gone(p)>> \o <<e>>
        BY GoneIsSignal
      <4>2. <<Gone(p)>> \o <<e>> \in Seq(Signals) /\ HasState(<<Gone(p)>> \o <<e>>) /\ GoneIn(<<Gone(p)>> \o <<e>>, p)
        BY <2>3, GoneIsSignal, OfOne, OfConcat, ConcatProperties
      <4> QED
        BY <2>3, <3>1, <4>1, <4>2
    <3>2. CASE Send(<<State("DEACTIVATING"), Gone(p)>>)
      <4>1. <<e, Gone(p)>> = <<e>> \o <<Gone(p)>>
        BY GoneIsSignal
      <4>2. <<e>> \o <<Gone(p)>> \in Seq(Signals) /\ HasState(<<e>> \o <<Gone(p)>>) /\ GoneIn(<<e>> \o <<Gone(p)>>, p)
        BY <2>3, GoneIsSignal, OfOne, OfConcat, ConcatProperties
      <4> QED
        BY <2>3, <3>2, <4>1, <4>2
    <3> QED
      BY <1>3, <3>1, <3>2 DEF Delete
  <2> QED
    BY <1>1, <2>2, <2>4, SentLast DEF DeviceKeeps, Moved, NotesKept
<1>4. CASE p \in saved /\ ~(p = active /\ dev \in {"prep", "act"})
  <2>1. dev' = dev /\ why' = (IF want = p THEN "removed" ELSE why) /\ Send(<<Gone(p)>>)
    BY <1>4 DEF Delete
  <2>2. DeviceOK'
    BY <1>1, <1>4, <2>1, NMConstants DEF DeviceOK, Profiles
  <2>3. PICK signals \in Seq(Signals) : Send(signals) /\ ~HasState(signals) /\ GoneIn(signals, p)
    BY <2>1, GoneIsSignal
  <2>4. Moved
    BY <1>1, <2>1, <2>3, SentLast DEF Moved, Settled, Word
  <2> QED
    BY <1>1, <2>2, <2>3, <2>4, SentLast DEF DeviceKeeps, NotesKept
<1> QED
  BY <1>2, <1>3, <1>4

LEMMA ActivateKeeps ==
  ASSUME Types, DeviceOK, NEW p \in saved, Activate(p), inbox' = inbox PROVE DeviceKeeps
BY TurnToKeeps, OfNone DEF Activate, Types

LEMMA AddKeeps ==
  ASSUME Types, DeviceOK, NEW p \in Profiles, AddAndActivate(p), inbox' = inbox PROVE DeviceKeeps
<1>1. Signal("new", "profile", p) \in Signals
  BY DEF Signal, Signals, Whats
<1>2. <<Signal("new", "profile", p)>> \in Seq(Signals)
  BY <1>1
<1> QED
  BY <1>2, TurnToKeeps DEF AddAndActivate, Types

LEMMA NMStepKeeps ==
  ASSUME Types, DeviceOK, NMStep, inbox' = inbox PROVE DeviceKeeps
<1>1. CASE Deactivated
  <2>1. dev = "deact" /\ want' = None /\ want \in saved \cup {None} /\ (want # None => want \in Profiles)
    BY <1>1 DEF Deactivated, DeviceOK, Types
  <2>2. PICK x \in Whats : /\ x = (IF why = "new" THEN "DISCONNECTED_NEW" ELSE "DISCONNECTED_REMOVED")
                           /\ want = None => x = "DISCONNECTED_REMOVED"
    BY <2>1 DEF DeviceOK, Whats
  <2>3. State(x) \in Signals /\ State(x).kind = "state" /\ State(x).what = x
    BY StateIsSignal
  <2>4. /\ <<State(x)>> \in Seq(Signals) /\ HasState(<<State(x)>>)
        /\ want = None => Ends(<<State(x)>>, {"DISCONNECTED", "DISCONNECTED_REMOVED"})
    BY <2>2, <2>3, OfOne
  <2>5. Leave(<<State(x)>>, want)
    BY <1>1, <2>2 DEF Deactivated
  <2> QED
    BY <2>1, <2>4, <2>5, LeaveKeeps
<1>2. CASE Succeed
  <2>1. PICK e \in Signals : e = State("ACTIVATED") /\ e.kind = "state" /\ e.what = "ACTIVATED"
    BY StateIsSignal DEF Whats
  <2>2. <<e>> \in Seq(Signals) /\ HasState(<<e>>) /\ Ends(<<e>>, {"ACTIVATED"}) /\ Send(<<e>>)
    BY <1>2, <2>1, OfOne DEF Succeed
  <2>3. dev = "prep" /\ dev' = "act" /\ UNCHANGED <<active, why, want, saved, volatile>>
    BY <1>2 DEF Succeed
  <2>4. DeviceOK' /\ Word' = {"ACTIVATED"} /\ saved' \subseteq Profiles /\ volatile' \subseteq saved'
    BY <2>3 DEF DeviceOK, Word, Types
  <2> QED
    BY <2>2, <2>3, <2>4, SentLast DEF DeviceKeeps, Moved, NotesKept
<1>3. CASE AutoConnect
  BY <1>3, TurnToKeeps, OfNone DEF AutoConnect, Types
<1>4. CASE Reject
  <2>1. dev # "disc" /\ want' = None
    BY <1>4 DEF Reject, DeviceOK
  <2>2. PICK e \in Signals : e = State("DISCONNECTED") /\ e.kind = "state" /\ e.what = "DISCONNECTED"
    BY StateIsSignal DEF Whats
  <2>3. PICK d \in Signals : d = State("WRONG_PASSWORD")
    BY StateIsSignal DEF Whats
  <2>4. <<d, e>> = <<d>> \o <<e>>
    BY <2>2, <2>3
  <2>5. /\ <<d>> \o <<e>> \in Seq(Signals) /\ HasState(<<d>> \o <<e>>)
        /\ Ends(<<d>> \o <<e>>, {"DISCONNECTED", "DISCONNECTED_REMOVED"})
    <3>1. PICK a \in Seq(Signals) : a = <<d>>
      BY OfOne
    <3>2. PICK b \in Seq(Signals) : b = <<e>> /\ HasState(b) /\ Ends(b, {"DISCONNECTED", "DISCONNECTED_REMOVED"})
      BY <2>2, OfOne
    <3>3. a \o b \in Seq(Signals)
      BY ConcatProperties
    <3>4. HasState(a \o b) /\ Ends(a \o b, {"DISCONNECTED", "DISCONNECTED_REMOVED"})
      BY <3>2, OfConcat
    <3> QED
      BY <3>1, <3>2, <3>3, <3>4
  <2>6. Leave(<<d>> \o <<e>>, None)
    BY <1>4, <2>2, <2>3, <2>4 DEF Reject
  <2> QED
    BY <2>1, <2>5, <2>6, LeaveKeeps
<1>5. CASE Lose
  <2>1. dev # "disc" /\ want' = None
    BY <1>5 DEF Lose, DeviceOK
  <2>2. PICK e \in Signals : e = State("DISCONNECTED") /\ e.kind = "state" /\ e.what = "DISCONNECTED"
    BY StateIsSignal DEF Whats
  <2>3. /\ <<e>> \in Seq(Signals) /\ HasState(<<e>>)
        /\ Ends(<<e>>, {"DISCONNECTED", "DISCONNECTED_REMOVED"}) /\ Leave(<<e>>, None)
    BY <1>5, <2>2, OfOne DEF Lose
  <2> QED
    BY <2>1, <2>3, LeaveKeeps
<1> QED
  BY <1>1, <1>2, <1>3, <1>4, <1>5 DEF NMStep

(* Nothing happens to the device, or a profile is saved for good.           *)
LEMMA StillKeeps ==
  ASSUME Types, DeviceOK, UNCHANGED <<dev, active, why, want, saved>>, volatile' \subseteq volatile,
         wire' \in Seq(Signals), Line' = Line
  PROVE  DeviceKeeps
BY DEF DeviceKeeps, Moved, NotesKept, DeviceOK, Types, Settled, Word

-----------------------------------------------------------------------------
(* The monitor takes the first signal of a kind out of the line.            *)
LEMMA Least ==
  ASSUME NEW T \in SUBSET Nat, T # {} PROVE \E n \in T : \A m \in T : n <= m
<1> DEFINE R == OpToRel(<, Nat)
<1>1. IsWellFoundedOn(R, Nat)
  BY NatLessThanWellFounded
<1>2. \A x, y \in Nat : <<x, y>> \in R <=> x < y
  BY DEF OpToRel
<1> HIDE DEF R
<1>3. PICK n \in T : \A m \in T : <<m, n>> \notin R
  BY <1>1, WFMin
<1>4. ASSUME NEW m \in T PROVE n <= m
  <2>1. ~(m < n)
    BY <1>2, <1>3
  <2> QED
    BY <2>1
<1> QED
  BY <1>3, <1>4

LEMMA FirstOfKind ==
  ASSUME NEW k \in 1..3, inbox \in Seq(Signals), Queued(k) # {}
  PROVE  /\ First(k) \in 1..Len(inbox) /\ inbox[First(k)].kind = Phases[k]
         /\ \A n \in 1..Len(inbox) : n < First(k) => inbox[n].kind # Phases[k]
<1>1. Len(inbox) \in Nat /\ Queued(k) \in SUBSET Nat
  BY LenProperties DEF Queued
<1>2. First(k) \in Queued(k) /\ \A m \in Queued(k) : First(k) <= m
  <2>1. \E n \in Queued(k) : \A m \in Queued(k) : n <= m
    BY <1>1, Least
  <2> QED
    BY <2>1 DEF First
<1>3. ASSUME NEW n \in 1..Len(inbox), n < First(k) PROVE inbox[n].kind # Phases[k]
  <2>1. n \notin Queued(k)
    BY <1>1, <1>2, <1>3
  <2> QED
    BY <2>1 DEF Queued
<1> QED
  BY <1>2, <1>3 DEF Queued

Takes(l, n, m) ==
  /\ l \in Seq(Signals) /\ m \in Seq(Signals) /\ Len(l) \in Nat /\ n \in 1..Len(l) /\ Len(m) = Len(l) - 1
  /\ \A i \in 1..Len(l) - 1 : m[i] = IF i < n THEN l[i] ELSE l[i + 1]

LEMMA OneTaken ==
  ASSUME NEW q \in Seq(Signals), NEW r \in Seq(Signals), NEW n \in 1..Len(q)
  PROVE  /\ RemoveAt(q, n) \in Seq(Signals) /\ Takes(q \o r, n, RemoveAt(q, n) \o r)
         /\ \A i \in 1..Len(q) : (q \o r)[i] = q[i]
<1>7. PICK l : l = q \o r
  OBVIOUS
<1>8. PICK m : m = RemoveAt(q, n) \o r
  OBVIOUS
<1>1. PICK t \in Seq(Signals) : t = RemoveAt(q, n)
  BY Without
<1>2. /\ Len(t) = Len(q) - 1 /\ Len(q) \in Nat
      /\ \A i \in 1..Len(q) - 1 : t[i] = IF i < n THEN q[i] ELSE q[i + 1]
  BY <1>1, Without
<1>3. /\ l \in Seq(Signals) /\ Len(r) \in Nat /\ Len(l) = Len(q) + Len(r)
      /\ \A i \in 1..Len(q) : i \in 1..Len(l) /\ l[i] = q[i]
      /\ \A i \in 1..Len(r) : Len(q) + i \in 1..Len(l) /\ l[Len(q) + i] = r[i]
  BY <1>7, StateAt
<1>4. /\ m \in Seq(Signals) /\ Len(m) = Len(t) + Len(r)
      /\ \A i \in 1..Len(t) : m[i] = t[i]
      /\ \A i \in 1..Len(r) : m[Len(t) + i] = r[i]
  BY <1>1, <1>8, StateAt
<1>5. ASSUME NEW i \in 1..Len(l) - 1 PROVE m[i] = IF i < n THEN l[i] ELSE l[i + 1]
  <2>1. CASE i \in 1..Len(q) - 1
    <3>1. i \in 1..Len(q) /\ i + 1 \in 1..Len(q)
      BY <1>2, <2>1
    <3>2. m[i] = t[i] /\ l[i] = q[i] /\ l[i + 1] = q[i + 1]
      BY <1>2, <1>3, <1>4, <2>1, <3>1
    <3> QED
      BY <1>2, <2>1, <3>2
  <2>2. CASE i \notin 1..Len(q) - 1
    <3> DEFINE j == i - (Len(q) - 1)
    <3>1. j \in 1..Len(r) /\ i = Len(t) + j /\ i + 1 = Len(q) + j /\ ~(i < n)
      BY <1>2, <1>3, <2>2
    <3> HIDE DEF j
    <3>2. m[Len(t) + j] = r[j] /\ l[Len(q) + j] = r[j]
      BY <1>3, <1>4, <3>1
    <3> QED
      BY <3>1, <3>2
  <2> QED
    BY <2>1, <2>2
<1>6. Len(m) = Len(l) - 1 /\ Len(l) \in Nat
  BY <1>2, <1>3, <1>4
<1> QED
  BY <1>1, <1>3, <1>4, <1>5, <1>6, <1>7, <1>8 DEF Takes

LEMMA AfterTaking ==
  ASSUME NEW l, NEW n, NEW m, Takes(l, n, m)
  PROVE  /\ HasState(m) => HasState(l)
         /\ HasState(l) => HasState(m) \/ l[n].kind = "state"
         /\ \A whats : Ends(l, whats) => \/ Ends(m, whats)
                                         \/ /\ l[n].kind = "state" /\ l[n].what \in whats
                                            /\ \A i \in 1..Len(l) : i > n => l[i].kind # "state"
         /\ (\A i \in 1..Len(l) : i # n => l[i].kind # "state") => ~HasState(m)
         /\ \A p : GoneIn(l, p) => GoneIn(m, p) \/ l[n] = Gone(p)
<1> USE DEF Takes
<1>1. ASSUME NEW i \in 1..Len(l), i # n
      PROVE  \E j \in 1..Len(m) : j = (IF i < n THEN i ELSE i - 1) /\ m[j] = l[i]
  <2>1. CASE i < n
    <3>1. i \in 1..Len(l) - 1
      BY <2>1
    <3> QED
      BY <2>1, <3>1
  <2>2. CASE i > n
    <3>1. i - 1 \in 1..Len(l) - 1 /\ ~(i - 1 < n) /\ (i - 1) + 1 = i /\ ~(i < n)
      BY <2>2
    <3> QED
      BY <3>1
  <2> QED
    BY <1>1, <2>1, <2>2
<1>2. ASSUME NEW j \in 1..Len(m)
      PROVE  \E i \in 1..Len(l) : i = (IF j < n THEN j ELSE j + 1) /\ i # n /\ m[j] = l[i]
  <2>1. j \in 1..Len(l) /\ j + 1 \in 1..Len(l) /\ j \in 1..Len(l) - 1
    OBVIOUS
  <2> QED
    BY <2>1
<1>3. HasState(m) => HasState(l)
  BY <1>2 DEF HasState
<1>4. HasState(l) => HasState(m) \/ l[n].kind = "state"
  BY <1>1 DEF HasState
<1>5. ASSUME NEW whats, Ends(l, whats)
      PROVE  \/ Ends(m, whats)
             \/ /\ l[n].kind = "state" /\ l[n].what \in whats
                /\ \A i \in 1..Len(l) : i > n => l[i].kind # "state"
  <2>1. PICK i \in 1..Len(l) : /\ l[i].kind = "state" /\ l[i].what \in whats
                               /\ \A o \in 1..Len(l) : o > i => l[o].kind # "state"
    BY <1>5 DEF Ends
  <2>2. CASE i = n
    BY <2>1, <2>2
  <2>3. CASE i # n
    <3>1. PICK j \in 1..Len(m) : j = (IF i < n THEN i ELSE i - 1) /\ m[j] = l[i]
      BY <1>1, <2>3
    <3>2. ASSUME NEW o \in 1..Len(m), o > j PROVE m[o].kind # "state"
      <4>1. PICK x \in 1..Len(l) : x = (IF o < n THEN o ELSE o + 1) /\ m[o] = l[x]
        BY <1>2
      <4>2. x > i
        BY <2>3, <3>1, <3>2, <4>1
      <4> QED
        BY <2>1, <4>1, <4>2
    <3> QED
      BY <2>1, <3>1, <3>2 DEF Ends
  <2> QED
    BY <2>2, <2>3
<1>6. (\A i \in 1..Len(l) : i # n => l[i].kind # "state") => ~HasState(m)
  BY <1>2 DEF HasState
<1>7. ASSUME NEW p, GoneIn(l, p) PROVE GoneIn(m, p) \/ l[n] = Gone(p)
  BY <1>1, <1>7 DEF GoneIn
<1> QED
  BY <1>3, <1>4, <1>5, <1>6, <1>7

LEMMA ServedLine ==
  ASSUME NEW k \in 1..3, inbox \in Seq(Signals), wire \in Seq(Signals), Served(k), wire' = wire, NEW e, e = inbox[First(k)]
  PROVE  /\ inbox' \in Seq(Signals) /\ e \in Signals /\ e.kind = Phases[k]
         /\ HasState(Line') => HasState(Line)
         /\ k # 3 => (HasState(Line) => HasState(Line')) /\ \A whats : Ends(Line, whats) => Ends(Line', whats)
         /\ k = 3 => /\ HasState(Line)
                     /\ \A whats : Ends(Line, whats) => Ends(Line', whats) \/ (~HasState(Line') /\ e.what \in whats)
         /\ \A p : GoneIn(Line, p) => GoneIn(Line', p) \/ e = Gone(p)
<1>1. Queued(k) # {} /\ inbox' = RemoveAt(inbox, First(k))
  BY DEF Served, ServedNext
<1>2. PICK n \in 1..Len(inbox) : /\ n = First(k) /\ inbox[n].kind = Phases[k]
                                 /\ \A i \in 1..Len(inbox) : i < n => inbox[i].kind # Phases[k]
  BY <1>1, FirstOfKind
<1>12. PICK q \in Seq(Signals) : q = inbox
  OBVIOUS
<1>13. PICK r \in Seq(Signals) : r = wire
  OBVIOUS
<1>3. PICK l : l = q \o r
  OBVIOUS
<1>4. PICK m : m = RemoveAt(q, n) \o r
  OBVIOUS
<1>5. Line = l /\ Line' = m
  BY <1>1, <1>2, <1>3, <1>4, <1>12, <1>13 DEF Line
<1>6. RemoveAt(inbox, n) \in Seq(Signals) /\ Takes(l, n, m) /\ \A i \in 1..Len(inbox) : l[i] = inbox[i]
  <2>1. n \in 1..Len(q)
    BY <1>2, <1>12
  <2>2. RemoveAt(q, n) \in Seq(Signals) /\ Takes(l, n, m) /\ \A i \in 1..Len(q) : l[i] = q[i]
    BY <1>3, <1>4, <2>1, OneTaken
  <2> QED
    BY <1>12, <2>2
<1>11. n \in 1..Len(l) /\ l[n] = e /\ l[n] \in Signals
  <2>1. n \in 1..Len(l) /\ l \in Seq(Signals)
    BY <1>6 DEF Takes
  <2> QED
    BY <1>2, <1>6, <2>1, ElementOfSeq
<1>7. /\ HasState(m) => HasState(l)
      /\ HasState(l) => HasState(m) \/ l[n].kind = "state"
      /\ \A whats : Ends(l, whats) => \/ Ends(m, whats)
                                      \/ /\ l[n].kind = "state" /\ l[n].what \in whats
                                         /\ \A i \in 1..Len(l) : i > n => l[i].kind # "state"
      /\ (\A i \in 1..Len(l) : i # n => l[i].kind # "state") => ~HasState(m)
      /\ \A p : GoneIn(l, p) => GoneIn(m, p) \/ l[n] = Gone(p)
  BY <1>6, AfterTaking
<1>8. e \in Signals /\ e.kind = Phases[k] /\ (k = 3 <=> e.kind = "state")
  <2> QED
    BY <1>2, <1>11 DEF Phases
<1>9. CASE k # 3
  BY <1>1, <1>2, <1>5, <1>6, <1>7, <1>8, <1>9, <1>11
<1>10. CASE k = 3
  <2>1. HasState(l)
    BY <1>8, <1>10, <1>11 DEF HasState
  <2>2. ASSUME NEW i \in 1..Len(l), i < n PROVE l[i].kind # "state"
    <3>1. i \in 1..Len(inbox) /\ Phases[3] = "state"
      BY <2>2, LenProperties DEF Phases
    <3> QED
      BY <1>2, <1>6, <1>10, <2>2, <3>1
  <2>3. (\A i \in 1..Len(l) : i > n => l[i].kind # "state") => ~HasState(m)
    <3>1. \A i \in 1..Len(l) : i # n => i < n \/ i > n
      OBVIOUS
    <3> QED
      BY <1>7, <2>2, <3>1
  <2> QED
    BY <1>1, <1>2, <1>5, <1>6, <1>7, <1>8, <1>10, <1>11, <2>1, <2>3
<1> QED
  BY <1>9, <1>10

LEMMA HeadThenTail ==
  ASSUME NEW q \in Seq(Signals), q # << >>
  PROVE  Head(q) \in Signals /\ Tail(q) \in Seq(Signals) /\ q = <<Head(q)>> \o Tail(q)
<1>1. /\ Len(q) \in Nat \ {0} /\ Head(q) = q[1] /\ Head(q) \in Signals /\ Tail(q) \in Seq(Signals)
      /\ Len(Tail(q)) = Len(q) - 1 /\ \A i \in 1..Len(q) - 1 : Tail(q)[i] = q[i + 1]
  BY HeadTailProperties, EmptySeq
<1>2. PICK h \in Seq(Signals) : h = <<Head(q)>> /\ Len(h) = 1 /\ h[1] = q[1]
  <2>1. <<Head(q)>> \in Seq(Signals)
    BY <1>1, OfOne
  <2>2. Len(<<Head(q)>>) = 1 /\ <<Head(q)>>[1] = Head(q)
    OBVIOUS
  <2> QED
    BY <1>1, <2>1, <2>2, Zenon
<1>3. PICK t \in Seq(Signals) : t = Tail(q)
  BY <1>1
<1>4. /\ h \o t \in Seq(Signals) /\ Len(h \o t) = Len(q) /\ (h \o t)[1] = q[1]
      /\ \A i \in 1..Len(q) - 1 : (h \o t)[i + 1] = q[i + 1]
  <2>1. /\ h \o t \in Seq(Signals) /\ Len(h \o t) = Len(h) + Len(t)
        /\ \A i \in 1..Len(h) : (h \o t)[i] = h[i]
        /\ \A i \in 1..Len(t) : (h \o t)[Len(h) + i] = t[i]
    BY StateAt, SMTT(30)
  <2>2. \A i \in 1..Len(q) - 1 : i \in 1..Len(t) /\ Len(h) + i = i + 1
    BY <1>1, <1>2, <1>3
  <2> QED
    BY <1>1, <1>2, <1>3, <2>1, <2>2
<1>5. \A i \in 1..Len(q) : (h \o t)[i] = q[i]
  <2>1. \A i \in 1..Len(q) : i = 1 \/ (i - 1 \in 1..Len(q) - 1 /\ (i - 1) + 1 = i)
    BY <1>1
  <2> QED
    BY <1>4, <2>1
<1> QED
  BY <1>1, <1>2, <1>3, <1>4, <1>5, SeqEqual

(* A signal that is taken in stays where it was in the line.                *)
LEMMA TakenIn ==
  ASSUME inbox \in Seq(Signals), wire \in Seq(Signals),
         \/ wire # << >> /\ inbox' = Append(inbox, Head(wire)) /\ wire' = Tail(wire)
         \/ inbox' = inbox \o wire /\ wire' = << >>
  PROVE  inbox' \in Seq(Signals) /\ wire' \in Seq(Signals) /\ Line' = Line
<1>1. CASE wire # << >> /\ inbox' = Append(inbox, Head(wire)) /\ wire' = Tail(wire)
  <2>1. Head(wire) \in Signals /\ Tail(wire) \in Seq(Signals) /\ wire = <<Head(wire)>> \o Tail(wire)
    BY <1>1, HeadThenTail
  <2>2. PICK h \in Seq(Signals) : h = <<Head(wire)>>
    BY <2>1, OfOne
  <2>3. PICK t \in Seq(Signals) : t = Tail(wire)
    BY <2>1
  <2>4. Append(inbox, Head(wire)) = inbox \o h
    BY <2>1, <2>2, AppendIsConcat
  <2>5. inbox \o h \in Seq(Signals)
    BY ConcatProperties
  <2>6. (inbox \o h) \o t = inbox \o (h \o t)
    <3>1. PICK q \in Seq(Signals) : q = inbox
      OBVIOUS
    <3>2. (q \o h) \o t = q \o (h \o t)
      BY Joined, Zenon
    <3> QED
      BY <3>1, <3>2, Zenon
  <2>7. inbox' = inbox \o h /\ wire' = t
    BY <1>1, <2>3, <2>4, Zenon
  <2>8. wire = h \o t
    BY <2>1, <2>2, <2>3, Zenon
  <2>9. Line' = (inbox \o h) \o t /\ Line = inbox \o (h \o t)
    BY <2>7, <2>8, Zenon DEF Line
  <2> QED
    BY <2>5, <2>6, <2>7, <2>9, Zenon
<1>2. CASE inbox' = inbox \o wire /\ wire' = << >>
  <2>1. inbox \o wire \in Seq(Signals)
    BY ConcatProperties
  <2>2. (inbox \o wire) \o << >> = inbox \o wire /\ << >> \in Seq(Signals)
    BY <2>1, ConcatEmptySeq, OfNone
  <2> QED
    BY <1>2, <2>1, <2>2 DEF Line
<1> QED
  BY <1>1, <1>2

-----------------------------------------------------------------------------
(* A step that writes nothing on the screen.                                *)
LEMMA BystandersKeep ==
  ASSUME WInv, Moved, UNCHANGED <<wifi_state, kept, undone>>,
         Asking' <=> Asking, Asking => monitor'.lookup = monitor.lookup,
         monitor'.answered => monitor'.path = active' \/ (monitor.answered /\ monitor'.path = monitor.path),
         \A w \in Workers : work'[w].op = "answer" /\ w \in fresh' /\ w \notin late'
                           => work'[w] = work[w] /\ w \in fresh /\ w \notin late,
         \A w \in Workers : Responsible(w) => Responsible(w)' \/ HasState(Line') \/ ~Settled'
  PROVE  LastWord' /\ PathHolds' /\ ReadHolds' /\ Told'
<1>1. HasState(Line)' <=> HasState(Line')
  BY DEF HasState
<1>2. LastWord' /\ PathHolds'
  BY <1>1, EndsHasState DEF WInv, Moved, LastWord, PathHolds, Settled
<1>3. ASSUME Settled', ~HasState(Line')
      PROVE  Settled /\ ~HasState(Line) /\ UNCHANGED <<dev, active>>
  BY <1>1, <1>3, EndsHasState DEF Moved, Settled
<1>4. ReadHolds'
  BY <1>1, <1>3 DEF WInv, ReadHolds, DeviceStatus
<1>5. Told'
  BY <1>1, <1>3 DEF WInv, Told, Agrees
<1> QED
  BY <1>2, <1>4, <1>5

LEMMA NotedKeeps ==
  ASSUME Noted, NotesKept, connections' = connections PROVE Noted'
BY DEF Noted, NotesKept, GoneIn, Gone, Signal

(* A worker goes on to its next call, or ends.                              *)
LEMMA BecomesKeeps ==
  ASSUME Types, NEW w \in Workers, NEW op \in {"idle", "add", "init"}, Becomes(w, op),
         op = "add" => work[w].op \in {"connect", "forget"}
  PROVE  WorkTypes' /\ work'[w].op = op /\ \A o \in Workers : o # w => work'[o] = work[o]
<1>1. work \in [Workers -> Jobs] /\ work[w] \in Jobs /\ (op = "add" => work[w].ssid \in Ssids)
  BY DEF Types, WorkTypes
<1>2. PICK v \in Jobs : v = (IF op = "idle" THEN Idle ELSE [work[w] EXCEPT !.op = op]) /\ v.op = op
                        /\ (op = "add" => v.ssid \in Ssids)
  <2>1. CASE op = "idle"
    <3>1. Idle \in Jobs /\ Idle.op = "idle"
      BY DEF Idle, Jobs
    <3> QED
      BY <2>1, <3>1
  <2>2. CASE op # "idle"
    <3>1. /\ [work[w] EXCEPT !.op = op] \in Jobs /\ [work[w] EXCEPT !.op = op].op = op
          /\ [work[w] EXCEPT !.op = op].ssid = work[w].ssid
      BY <1>1 DEF Jobs
    <3> QED
      BY <1>1, <2>2, <3>1
  <2> QED
    BY <2>1, <2>2
<1>3. work' = [work EXCEPT ![w] = v]
  <2>1. CASE op = "idle"
    BY <1>2, <2>1 DEF Becomes
  <2>2. CASE op # "idle"
    <3>1. work' = [work EXCEPT ![w] = [work[w] EXCEPT !.op = op]]
      BY <2>2, Zenon DEF Becomes
    <3> QED
      BY <1>2, <2>2, <3>1
  <2> QED
    BY <2>1, <2>2
<1>4. work' \in [Workers -> Jobs] /\ work'[w] = v /\ \A o \in Workers : o # w => work'[o] = work[o]
  BY <1>1, <1>3
<1>5. op # "answer"
  OBVIOUS
<1> QED
  BY <1>2, <1>4, <1>5 DEF Types, WorkTypes

LEMMA SavedOf ==
  ASSUME Types, NEW p \in Profiles PROVE p # None /\ SsidOf(p) = p[1] /\ p[1] \in Ssids
BY NMConstants DEF Profiles, SsidOf

(* The monitor's loop.                                                      *)
LEMMA RestingLoop ==
  ASSUME NEW n \in 0..3
  PROVE  /\ [Resting EXCEPT !.phase = n] \in Loops
         /\ [Resting EXCEPT !.phase = n].lookup = "none" /\ ~[Resting EXCEPT !.phase = n].answered
BY DEF Resting, Loops

LEMMA NextPhase ==
  ASSUME monitor \in Loops, NEW n \in 0..3, monitor' = [monitor EXCEPT !.phase = n]
  PROVE  /\ monitor' \in Loops /\ monitor'.lookup = monitor.lookup /\ (monitor'.answered <=> monitor.answered)
         /\ monitor'.path = monitor.path
BY DEF Loops

LEMMA InitKeeps == Init => WInv
<1> SUFFICES ASSUME Init PROVE WInv
  OBVIOUS
<1> USE DEF Init, NMInit
<1>1. /\ saved \subseteq Profiles
      /\ \A p \in Profiles : p # None /\ p[1] \in Ssids /\ SsidOf(p) = p[1]
  BY NMConstants DEF Profiles, SsidOf
<1>2. Line = << >> /\ ~HasState(Line) /\ << >> \in Seq(Signals)
  <2>1. << >> \o << >> = << >>
    BY OfNone, ConcatEmptySeq
  <2> QED
    BY <2>1, OfNone DEF Line
<1>3. active # None => active \in Profiles /\ SsidOf(active) \in Ssids
  BY <1>1
<1>4. WorkTypes
  <2>1. Idle \in Jobs /\ Idle.op = "idle"
    BY DEF Idle, Jobs
  <2> QED
    BY <2>1 DEF WorkTypes
<1>5. monitor = Resting /\ monitor \in Loops
  BY DEF Resting, Loops
<1>6. wifi_state \in [ssid : Ssids \cup {None}, status : Statuses]
  BY <1>3 DEF Disconnected, WifiState, Statuses
<1>7. connections \in [Ssids -> Profiles \cup {None}] /\ \A s \in Ssids : connections[s] \in saved \cup {None}
  BY <1>1
<1>8. Types
  BY <1>1, <1>2, <1>4, <1>5, <1>6, <1>7 DEF Types, Resting
<1>9. DeviceOK
  BY <1>3 DEF DeviceOK
<1>10. ~monitor.answered /\ monitor.lookup = "none" /\ ~Asking
  BY <1>5 DEF Asking, Resting
<1>11. LastWord /\ PathHolds /\ Noted
  BY <1>2, <1>7, <1>10 DEF LastWord, PathHolds, Noted
<1>12. ReadHolds
  BY DEF ReadHolds
<1>13. Told
  BY <1>3 DEF Told, Agrees, Disconnected, WifiState
<1> QED
  BY <1>8, <1>9, <1>11, <1>12, <1>13 DEF WInv

-----------------------------------------------------------------------------
(* The user taps.                                                           *)
LEMMA StartKeeps ==
  ASSUME Types, NEW w \in Workers, NEW op \in {"connect", "activate", "forget", "init"}, NEW s \in Ssids \cup {None},
         Start(w, op, s), op # "init" => s \in Ssids
  PROVE  /\ WorkTypes' /\ work[w].op = "idle" /\ work'[w].op = op
         /\ \A o \in Workers : o # w => work'[o] = work[o]
         /\ UNCHANGED <<nmVars, connections, monitor, inbox>>
<1>1. work \in [Workers -> Jobs] /\ work[w].op = "idle"
  BY DEF Types, WorkTypes, Start, Idle
<1>2. PICK v \in Jobs : v = [op |-> op, ssid |-> s, read |-> "none"] /\ v.op = op /\ v.ssid = s
  <2>1. [op |-> op, ssid |-> s, read |-> "none"] \in Jobs
    BY DEF Jobs
  <2> QED
    BY <2>1
<1>3. work' = [work EXCEPT ![w] = v] /\ UNCHANGED <<nmVars, connections, monitor, inbox>>
  BY <1>2 DEF Start
<1>4. work' \in [Workers -> Jobs] /\ work'[w] = v /\ \A o \in Workers : o # w => work'[o] = work[o]
  BY <1>1, <1>3
<1> QED
  BY <1>1, <1>2, <1>3, <1>4 DEF Types, WorkTypes

LEMMA StillTypes ==
  ASSUME Types, DeviceOK, UNCHANGED <<nmVars, inbox>>
  PROVE  DeviceKeeps /\ Line' = Line /\ active' = active /\ dev' = dev
<1>1. Line' = Line /\ UNCHANGED <<dev, active, why, want, saved, volatile, wire>>
  BY DEF Line, nmVars
<1> QED
  BY <1>1, StillKeeps DEF Types

LEMMA TapKeeps ==
  ASSUME WInv, NEW w \in Workers, Tap(w) PROVE WInv'
<1>1. Types /\ DeviceOK /\ Noted
  BY DEF WInv
<1>2. PICK op \in {"connect", "activate", "forget", "init"}, s \in Ssids \cup {None} :
        /\ Start(w, op, s) /\ (op # "init" => s \in Ssids)
        /\ StateKept \/ (op \in {"connect", "activate"} /\ SetConnecting(s))
  BY DEF Tap, SetActive, ConnectToNetwork, ActivateConnection, ForgetConnection
<1>3. /\ WorkTypes' /\ work[w].op = "idle" /\ work'[w].op = op
      /\ \A o \in Workers : o # w => work'[o] = work[o]
      /\ UNCHANGED <<nmVars, connections, monitor, inbox>>
  BY <1>1, <1>2, StartKeeps
<1>4. DeviceKeeps /\ Line' = Line /\ active' = active /\ dev' = dev
  BY <1>1, <1>3, StillTypes
<1>5. Noted'
  <2>1. NotesKept
    BY <1>4 DEF DeviceKeeps
  <2>2. StateKept \/ (active' = active /\ \E x : SetConnecting(x))
    BY <1>2, <1>4
  <2>3. fresh' \subseteq fresh /\ monitor' = monitor
    BY <1>2, <1>3 DEF StateKept, SetConnecting
  <2> QED
    BY <1>1, <1>3, <2>1, <2>2, <2>3, NotedKeeps
<1>6. Types'
  <2>1. wifi_state' \in [ssid : Ssids \cup {None}, status : Statuses] /\ fresh' \subseteq fresh
    BY <1>1, <1>2 DEF StateKept, SetConnecting, Types, Disconnected, WifiState, Statuses
  <2> QED
    BY <1>1, <1>3, <1>4, <2>1 DEF Types, DeviceKeeps
<1>7. LastWord' /\ PathHolds' /\ ReadHolds' /\ Told'
  <2>1. CASE StateKept
    <3>1. UNCHANGED <<wifi_state, kept, undone, fresh, late>> /\ monitor' = monitor /\ Moved
      BY <1>3, <1>4, <2>1 DEF StateKept, DeviceKeeps
    <3>2. \A o \in Workers : (work'[o].op = "answer" => work'[o] = work[o]) /\ (Responsible(o) => Responsible(o)')
      BY <1>3, <3>1 DEF Responsible
    <3> QED
      BY <3>1, <3>2, <1>4, BystandersKeep DEF Asking
  <2>2. CASE op \in {"connect", "activate"} /\ SetConnecting(s)
    <3>1. fresh' = {} /\ monitor' = monitor /\ Responsible(w)'
      BY <1>3, <2>2 DEF SetConnecting, Responsible
    <3>2. LastWord' /\ PathHolds'
      BY <1>4, <3>1 DEF WInv, LastWord, PathHolds, Asking, HasState, Ends, Settled, Word
    <3> QED
      BY <3>1, <3>2 DEF ReadHolds, Told
  <2> QED
    BY <1>2, <2>1, <2>2
<1> QED
  BY <1>4, <1>5, <1>6, <1>7 DEF WInv, DeviceKeeps

-----------------------------------------------------------------------------
(* The workers.                                                             *)

(* A call to NetworkManager that writes nothing on the screen.              *)
LEMMA WorkerCalls ==
  ASSUME WInv, NEW w \in Workers, NEW op \in {"idle", "add", "init"}, Becomes(w, op),
         op = "add" => work[w].op \in {"connect", "forget"}, work[w].op # "answer",
         DeviceKeeps, StateKept, WorkerOnly, UNCHANGED connections,
         Responsible(w) /\ op = "idle" => HasState(Line') \/ ~Settled'
  PROVE  WInv'
<1>1. /\ Types /\ DeviceOK /\ Noted
      /\ UNCHANGED <<wifi_state, kept, undone, fresh, late, monitor, inbox, connections>> /\ Moved /\ NotesKept
  BY DEF WInv, StateKept, WorkerOnly, DeviceKeeps
<1>2. WorkTypes' /\ work'[w].op = op /\ \A o \in Workers : o # w => work'[o] = work[o]
  BY <1>1, BecomesKeeps
<1>3. Types'
  BY <1>1, <1>2 DEF Types, DeviceKeeps
<1>4. Noted'
  BY <1>1, NotedKeeps
<1>5. LastWord' /\ PathHolds' /\ ReadHolds' /\ Told'
  <2>1. \A o \in Workers : (work'[o].op = "answer" => work'[o] = work[o])
                          /\ (Responsible(o) => Responsible(o)' \/ HasState(Line') \/ ~Settled')
    BY <1>1, <1>2 DEF Responsible
  <2> QED
    BY <1>1, <2>1, BystandersKeep DEF Asking
<1> QED
  BY <1>3, <1>4, <1>5 DEF WInv, DeviceKeeps

(* A device that was asked for a profile has not settled, or says so.        *)
LEMMA TurnToMoves ==
  ASSUME Types, NEW p, NEW signals \in Seq(Signals), TurnTo(p, signals), inbox' = inbox, p \in Profiles
  PROVE  HasState(Line') \/ ~Settled'
<1>1. CASE dev = "disc"
  <2>1. Signal("state", "PREPARE", p) \in Signals /\ Signal("state", "PREPARE", p).kind = "state"
    BY DEF Signal, Signals, Whats
  <2>2. PICK e \in Signals : e = Signal("state", "PREPARE", p) /\ e.kind = "state"
    BY <2>1
  <2>3. Send(signals \o <<e>>) /\ signals \o <<e>> \in Seq(Signals) /\ HasState(signals \o <<e>>)
    BY <1>1, <2>2, OfOne, OfConcat, ConcatProperties DEF TurnTo
  <2> QED
    BY <2>3, SentLast
<1>2. CASE dev # "disc"
  BY <1>2 DEF TurnTo, Settled
<1> QED
  BY <1>1, <1>2

LEMMA DeleteProfileKeeps ==
  ASSUME WInv, NEW w \in Workers, DeleteProfile(w) PROVE WInv'
<1>1. PICK p : p = connections[work[w].ssid]
  OBVIOUS
<1>2. work[w].op \in {"forget", "connect"} /\ StateKept /\ WorkerOnly
  BY DEF DeleteProfile
<1>3. Types /\ DeviceOK /\ p \in Profiles \cup {None} /\ inbox' = inbox /\ connections' = connections
  BY <1>1, <1>2 DEF WInv, Types, WorkTypes, WorkerOnly
<1>4. DeviceKeeps
  <2>1. CASE p = None
    <3>1. UNCHANGED nmVars
      BY <1>1, <2>1 DEF DeleteProfile
    <3> QED
      BY <1>3, <3>1, StillTypes
  <2>2. CASE p # None
    <3>1. Delete(p)
      BY <1>1, <2>2 DEF DeleteProfile
    <3> QED
      BY <1>3, <2>2, <3>1, DeleteKeeps
  <2> QED
    BY <2>1, <2>2
<1>5. CASE work[w].op = "connect"
  <2>1. Becomes(w, "add")
    BY <1>5 DEF DeleteProfile
  <2> QED
    BY <1>2, <1>3, <1>4, <1>5, <2>1, WorkerCalls
<1>6. CASE work[w].op = "forget"
  <2>1. Becomes(w, "idle") /\ ~Responsible(w)
    BY <1>6 DEF DeleteProfile, Responsible
  <2> QED
    BY <1>2, <1>3, <1>4, <1>6, <2>1, WorkerCalls
<1> QED
  BY <1>2, <1>5, <1>6

LEMMA AddConnectionKeeps ==
  ASSUME WInv, NEW w \in Workers, AddConnection(w) PROVE WInv'
<1>1. work[w].op = "add" /\ WorkerOnly /\ inbox' = inbox /\ connections' = connections /\ monitor' = monitor
  BY DEF AddConnection, WorkerOnly
<1>2. Types /\ DeviceOK /\ Noted /\ work[w].ssid \in Ssids
  BY <1>1 DEF WInv, Types, WorkTypes
<1>3. ASSUME NEW n \in 1..Copies, AddAndActivate(<<work[w].ssid, n>>), Becomes(w, "idle"), StateKept PROVE WInv'
  <2>1. PICK p \in Profiles : p = <<work[w].ssid, n>>
    BY <1>2 DEF Profiles
  <2>2. PICK signals \in Seq(Signals) : TurnTo(p, signals)
    <3>1. Signal("new", "profile", p) \in Signals
      BY DEF Signal, Signals, Whats
    <3>2. <<Signal("new", "profile", p)>> \in Seq(Signals)
      BY <3>1, OfOne
    <3> QED
      BY <1>3, <2>1, <3>2 DEF AddAndActivate
  <2>3. DeviceKeeps
    BY <1>1, <1>2, <1>3, <2>1, AddKeeps
  <2>4. HasState(Line') \/ ~Settled'
    BY <1>1, <1>2, <2>2, TurnToMoves
  <2> QED
    BY <1>1, <1>3, <2>3, <2>4, WorkerCalls
<1>4. ASSUME UNCHANGED nmVars, Becomes(w, "init"), SetConnecting(None) PROVE WInv'
  <2>1. WorkTypes' /\ work'[w].op = "init"
    BY <1>1, <1>2, <1>4, BecomesKeeps
  <2>2. DeviceKeeps /\ Line' = Line /\ active' = active /\ dev' = dev
    BY <1>1, <1>2, <1>4, StillTypes
  <2>3. wifi_state' \in [ssid : Ssids \cup {None}, status : Statuses] /\ fresh' = {}
    BY <1>4 DEF SetConnecting, Disconnected, WifiState, Statuses
  <2>4. Types'
    BY <1>1, <1>2, <2>1, <2>2, <2>3 DEF Types, DeviceKeeps
  <2>5. Noted'
    BY <1>1, <1>2, <1>4, <2>2, <2>3, NotedKeeps DEF DeviceKeeps
  <2>6. LastWord' /\ PathHolds'
    BY <1>1, <2>2, <2>3 DEF WInv, LastWord, PathHolds, Asking, HasState, Ends, Settled, Word
  <2>7. ReadHolds' /\ Told'
    BY <2>1, <2>3 DEF ReadHolds, Told, Responsible
  <2> QED
    BY <2>2, <2>4, <2>5, <2>6, <2>7 DEF WInv, DeviceKeeps
<1> QED
  BY <1>3, <1>4 DEF AddConnection

LEMMA ActivateProfileKeeps ==
  ASSUME WInv, NEW w \in Workers, ActivateProfile(w) PROVE WInv'
<1>1. PICK p : p = connections[work[w].ssid]
  OBVIOUS
<1>2. work[w].op = "activate" /\ StateKept /\ WorkerOnly /\ inbox' = inbox /\ connections' = connections
  BY DEF ActivateProfile, WorkerOnly
<1>3. Types /\ DeviceOK
  BY DEF WInv
<1>4. CASE p \in saved /\ Activate(p) /\ Becomes(w, "idle")
  <2>1. p \in Profiles /\ TurnTo(p, << >>) /\ << >> \in Seq(Signals)
    BY <1>3, <1>4, OfNone DEF Types, Activate
  <2>2. HasState(Line') \/ ~Settled'
    BY <1>2, <1>3, <2>1, TurnToMoves
  <2>3. DeviceKeeps
    BY <1>2, <1>3, <1>4, ActivateKeeps
  <2> QED
    BY <1>2, <1>4, <2>2, <2>3, WorkerCalls
<1>5. CASE UNCHANGED nmVars /\ Becomes(w, "init")
  <2>1. DeviceKeeps
    BY <1>2, <1>3, <1>5, StillTypes
  <2> QED
    BY <1>2, <1>5, <2>1, WorkerCalls
<1> QED
  BY <1>1, <1>4, <1>5 DEF ActivateProfile

(* _init_wifi_state: the first answer is the state of the device ...        *)
LEMMA ReadDeviceKeeps ==
  ASSUME WInv, NEW w \in Workers, ReadDevice(w) PROVE WInv'
<1>1. /\ work[w].op = "init" /\ fresh' = fresh \cup {w} /\ late' = late \ {w}
      /\ UNCHANGED <<nmVars, wifi_state, kept, undone, connections, monitor, inbox>>
  BY DEF ReadDevice, WorkerOnly
<1>2. Types /\ DeviceOK /\ Noted /\ w # "monitor"
  BY WorkersAssumption DEF WInv
<1>3. DeviceKeeps /\ Line' = Line /\ active' = active /\ dev' = dev
  BY <1>1, <1>2, StillTypes
<1>4. PICK v \in Jobs : /\ work' = [work EXCEPT ![w] = v] /\ v.op = "answer" /\ v.read = DeviceStatus
                        /\ v.read \in Statuses
  <2>1. work[w] \in Jobs /\ DeviceStatus \in Statuses
    BY <1>2 DEF Types, WorkTypes, DeviceStatus, Statuses
  <2>2. [work[w] EXCEPT !.op = "answer", !.read = DeviceStatus] \in Jobs
    BY <2>1 DEF Jobs
  <2>3. /\ [work[w] EXCEPT !.op = "answer", !.read = DeviceStatus].op = "answer"
        /\ [work[w] EXCEPT !.op = "answer", !.read = DeviceStatus].read = DeviceStatus
    BY <2>1 DEF Jobs
  <2>4. work' = [work EXCEPT ![w] = [work[w] EXCEPT !.op = "answer", !.read = DeviceStatus]]
    BY Zenon DEF ReadDevice
  <2> QED
    BY <2>1, <2>2, <2>3, <2>4, Zenon
<1>5. work' \in [Workers -> Jobs] /\ work'[w] = v /\ \A o \in Workers : o # w => work'[o] = work[o]
  BY <1>2, <1>4 DEF Types, WorkTypes
<1>6. Types'
  <2>1. WorkTypes'
    BY <1>2, <1>4, <1>5 DEF Types, WorkTypes
  <2> QED
    BY <1>1, <1>2, <1>3, <2>1 DEF Types, DeviceKeeps
<1>7. Noted'
  BY <1>1, <1>2, <1>3, NotedKeeps DEF DeviceKeeps
<1>8. /\ (Asking' <=> Asking) /\ (HasState(Line)' <=> HasState(Line)) /\ (Settled' <=> Settled)
      /\ DeviceStatus' = DeviceStatus
  BY <1>1, <1>2, <1>3 DEF Asking, Settled, DeviceStatus, HasState
<1>9. LastWord' /\ PathHolds'
  BY <1>1, <1>3, <1>8 DEF WInv, LastWord, PathHolds, Ends, Word
<1>10. ReadHolds'
  <2> SUFFICES ASSUME NEW o \in Workers, work'[o].op = "answer", o \in fresh', o \notin late', Settled', ~HasState(Line)', ~Asking'
               PROVE  work'[o].read = DeviceStatus'
    BY DEF ReadHolds
  <2> QED
    BY <1>1, <1>4, <1>5, <1>8 DEF WInv, ReadHolds
<1>11. Told'
  <2>1. \A o \in Workers : Responsible(o) => Responsible(o)'
    BY <1>1, <1>4, <1>5 DEF Responsible
  <2>2. Agrees' <=> Agrees
    BY <1>1, <1>3 DEF Agrees
  <2> QED
    BY <1>1, <1>8, <2>1, <2>2 DEF WInv, Told
<1> QED
  BY <1>3, <1>6, <1>7, <1>9, <1>10, <1>11 DEF WInv, DeviceKeeps

(* ... the second the connection, and then the state may be written.        *)
LEMMA ReadConnectionKeeps ==
  ASSUME WInv, NEW w \in Workers, ReadConnection(w) PROVE WInv'
<1>1. /\ work[w].op = "answer" /\ fresh' = fresh \ {w} /\ late' = late \ {w} /\ Becomes(w, "idle")
      /\ UNCHANGED <<nmVars, connections, monitor, inbox>>
  BY DEF ReadConnection, WorkerOnly
<1>2. Types /\ DeviceOK /\ Noted /\ w # "monitor" /\ work[w].read \in Statuses
  BY <1>1, WorkersAssumption DEF WInv, Types, WorkTypes
<1>3. DeviceKeeps /\ Line' = Line /\ active' = active /\ dev' = dev
  BY <1>1, <1>2, StillTypes
<1>4. WorkTypes' /\ work'[w].op = "idle" /\ \A o \in Workers : o # w => work'[o] = work[o]
  BY <1>1, <1>2, BecomesKeeps
<1>5. PICK ssid \in Ssids \cup {None} : ssid = Known(active) /\ ssid \in {SsidOf(active), None}
  BY <1>2, SavedOf DEF Known, DeviceOK
<1>6. \/ w \notin fresh /\ UNCHANGED <<wifi_state, kept, undone>>
      \/ kept' = TRUE /\ UNCHANGED <<wifi_state, undone>>
      \/ w \in fresh /\ wifi_state' = WifiState(ssid, work[w].read) /\ undone' = (w \in late)
  BY <1>5 DEF ReadConnection
<1>7. Types'
  <2>1. wifi_state' \in [ssid : Ssids \cup {None}, status : Statuses]
    BY <1>2, <1>6 DEF WifiState, Types
  <2> QED
    BY <1>1, <1>2, <1>3, <1>4, <2>1 DEF Types, DeviceKeeps
<1>8. Noted'
  BY <1>1, <1>2, <1>3, NotedKeeps DEF DeviceKeeps
<1>9. /\ (Asking' <=> Asking) /\ (HasState(Line)' <=> HasState(Line)) /\ (Settled' <=> Settled)
      /\ DeviceStatus' = DeviceStatus
  BY <1>1, <1>2, <1>3 DEF Asking, Settled, DeviceStatus, HasState
<1>10. LastWord' /\ PathHolds'
  BY <1>1, <1>3, <1>9 DEF WInv, LastWord, PathHolds, Ends, Word
<1>11. ReadHolds'
  BY <1>1, <1>4, <1>9 DEF WInv, ReadHolds
<1>12. Told'
  <2> SUFFICES ASSUME Settled, ~HasState(Line), ~Asking, ~kept', ~undone'
               PROVE  Agrees' \/ \E o \in Workers : Responsible(o)'
    BY <1>9 DEF Told
  <2>1. CASE w \notin fresh /\ UNCHANGED <<wifi_state, kept, undone>>
    <3>1. \A o \in Workers : Responsible(o) => Responsible(o)'
      BY <1>1, <1>4, <2>1 DEF Responsible
    <3>2. Agrees' <=> Agrees
      BY <1>3, <2>1 DEF Agrees
    <3> QED
      BY <2>1, <3>1, <3>2 DEF WInv, Told
  <2>2. CASE w \in fresh /\ wifi_state' = WifiState(ssid, work[w].read) /\ undone' = (w \in late)
    <3>1. work[w].read = DeviceStatus
      BY <1>1, <2>2 DEF WInv, ReadHolds
    <3> QED
      BY <1>3, <1>5, <2>2, <3>1 DEF Agrees, WifiState, DeviceStatus, Settled, SsidOf
  <2> QED
    BY <1>6, <2>1, <2>2
<1> QED
  BY <1>3, <1>7, <1>8, <1>10, <1>11, <1>12 DEF WInv, DeviceKeeps

-----------------------------------------------------------------------------
(* NetworkManager moves by itself.                                          *)
LEMMA NMMovesKeeps ==
  ASSUME WInv, NetworkManagerMoves PROVE WInv'
<1>1. /\ NMStep /\ StateKept /\ UNCHANGED <<connections, monitor, inbox, work>>
      /\ UNCHANGED <<wifi_state, fresh, kept, late, undone>>
  BY DEF NetworkManagerMoves, StateKept
<1>2. Types /\ DeviceOK /\ Noted
  BY DEF WInv
<1>3. DeviceKeeps
  BY <1>1, <1>2, NMStepKeeps
<1>4. Types'
  BY <1>1, <1>2, <1>3 DEF Types, WorkTypes, DeviceKeeps
<1>5. Noted'
  BY <1>1, <1>2, <1>3, NotedKeeps DEF DeviceKeeps
<1>6. LastWord' /\ PathHolds' /\ ReadHolds' /\ Told'
  <2>1. \A o \in Workers : Responsible(o) => Responsible(o)'
    BY <1>1 DEF Responsible
  <2> QED
    BY <1>1, <1>3, <2>1, BystandersKeep DEF Asking, DeviceKeeps
<1> QED
  BY <1>3, <1>4, <1>5, <1>6 DEF WInv, DeviceKeeps

-----------------------------------------------------------------------------
(* The monitor takes signals in, and ends a round.                          *)
LEMMA ReceiveKeeps ==
  ASSUME WInv, Receive \/ ScanDone \/ QueuesEmpty PROVE WInv'
<1>1. Types /\ DeviceOK /\ Noted
  BY DEF WInv
<1>2. /\ StateKept /\ UNCHANGED <<connections, work, dev, active, why, want, saved, volatile>>
      /\ UNCHANGED <<wifi_state, fresh, kept, late, undone>>
  BY DEF Receive, ScanDone, QueuesEmpty, Rest, StateKept, nmVars
<1>3. monitor.lookup = "none" /\ ~monitor.answered
  BY <1>1 DEF Receive, ScanDone, QueuesEmpty, Types, Resting
<1>5. monitor'.lookup = "none" /\ ~monitor'.answered /\ monitor' \in Loops
  <2>1. CASE QueuesEmpty
    BY <2>1 DEF QueuesEmpty, Resting, Loops
  <2>2. CASE Receive \/ ScanDone
    <3>1. monitor' = [Resting EXCEPT !.phase = 1]
      BY <2>2 DEF Receive, ScanDone
    <3> QED
      BY <3>1, RestingLoop
  <2> QED
    BY <2>1, <2>2
<1>6. inbox' \in Seq(Signals) /\ wire' \in Seq(Signals) /\ Line' = Line
  <2>1. CASE Receive
    BY <1>1, <2>1, TakenIn DEF Receive, Types
  <2>2. CASE ScanDone \/ QueuesEmpty
    BY <1>1, <2>2 DEF ScanDone, QueuesEmpty, Line, Types, nmVars
  <2> QED
    BY <2>1, <2>2
<1>7. DeviceKeeps
  BY <1>1, <1>2, <1>6, StillKeeps
<1>8. Types'
  BY <1>1, <1>2, <1>5, <1>6 DEF Types, WorkTypes
<1>9. Noted'
  BY <1>1, <1>2, <1>5, <1>7, NotedKeeps DEF DeviceKeeps
<1>10. LastWord' /\ PathHolds' /\ ReadHolds' /\ Told'
  <2>1. \A o \in Workers : Responsible(o) => Responsible(o)'
    BY <1>2 DEF Responsible
  <2> QED
    BY <1>2, <1>3, <1>5, <1>7, <2>1, BystandersKeep DEF Asking, DeviceKeeps
<1> QED
  BY <1>7, <1>8, <1>9, <1>10 DEF WInv, DeviceKeeps

(* The monitor takes a profile's signal out of the line.                    *)
LEMMA ProfileServed ==
  ASSUME WInv, NEW k \in 1..2, Served(k), monitor' = [monitor EXCEPT !.phase = k], UNCHANGED <<nmVars, work>>, StateKept,
         connections' \in [Ssids -> Profiles \cup {None}], Noted'
  PROVE  WInv'
<1>1. Types /\ DeviceOK /\ k \in 1..3 /\ k # 3 /\ inbox \in Seq(Signals) /\ wire \in Seq(Signals)
  BY DEF WInv, Types
<1>2. /\ inbox' \in Seq(Signals) /\ (HasState(Line') <=> HasState(Line))
      /\ \A whats : Ends(Line, whats) => Ends(Line', whats)
  BY <1>1, ServedLine DEF nmVars
<1>3. /\ monitor.lookup = "none" /\ ~monitor.answered /\ monitor'.lookup = "none" /\ ~monitor'.answered
      /\ monitor' \in Loops
  <2>1. monitor \in Loops /\ monitor.lookup = "none" /\ ~monitor.answered /\ k \in 0..3
    BY <1>1 DEF Served, Types
  <2> QED
    BY <1>1, <2>1, NextPhase
<1>4. UNCHANGED <<dev, active, why, want, saved, volatile, wire, wifi_state, fresh, kept, late, undone>>
  BY DEF nmVars, StateKept
<1>5. DeviceOK' /\ Moved
  BY <1>1, <1>2, <1>4 DEF DeviceOK, Moved, Settled, Word, HasState
<1>6. Types'
  BY <1>1, <1>2, <1>3, <1>4 DEF Types, WorkTypes
<1>7. LastWord' /\ PathHolds' /\ ReadHolds' /\ Told'
  <2>1. \A o \in Workers : Responsible(o) => Responsible(o)'
    BY <1>4 DEF Responsible
  <2> QED
    BY <1>3, <1>4, <1>5, <2>1, BystandersKeep DEF Asking
<1> QED
  BY <1>5, <1>6, <1>7 DEF WInv

LEMMA ConnectionRemovedKeeps ==
  ASSUME WInv, ConnectionRemoved PROVE WInv'
<1>1. PICK e : e = inbox[First(1)]
  OBVIOUS
<1>2. /\ connections' = [s \in Ssids |-> IF connections[s] = e.path THEN None ELSE connections[s]]
      /\ Served(1) /\ monitor' = [monitor EXCEPT !.phase = 1] /\ UNCHANGED <<nmVars, work>> /\ StateKept
  BY <1>1 DEF ConnectionRemoved
<1>3. connections \in [Ssids -> Profiles \cup {None}] /\ inbox \in Seq(Signals) /\ wire \in Seq(Signals)
      /\ wire' = wire /\ saved' = saved
  BY <1>2 DEF WInv, Types, nmVars
<1>4. \A p : GoneIn(Line, p) => GoneIn(Line', p) \/ e = Gone(p)
  BY <1>1, <1>2, <1>3, ServedLine
<1>5. Noted'
  <2> SUFFICES ASSUME NEW s \in Ssids, connections'[s] # None
               PROVE  connections'[s] \in saved' \/ GoneIn(Line', connections'[s])
    BY DEF Noted, GoneIn, Gone, Signal
  <2>1. connections'[s] = connections[s] /\ connections[s] # e.path
    BY <1>2
  <2>2. e # Gone(connections[s])
    BY <2>1 DEF Gone, Signal
  <2> QED
    BY <1>3, <1>4, <2>1, <2>2 DEF WInv, Noted
<1>6. connections' \in [Ssids -> Profiles \cup {None}]
  BY <1>2, <1>3
<1> QED
  BY <1>2, <1>5, <1>6, ProfileServed

LEMMA NewConnectionKeeps ==
  ASSUME WInv, NewConnection PROVE WInv'
<1>1. PICK e : e = inbox[First(2)]
  OBVIOUS
<1>2. /\ connections' = IF e.path \in saved THEN [connections EXCEPT ![SsidOf(e.path)] = e.path] ELSE connections
      /\ Served(2) /\ monitor' = [monitor EXCEPT !.phase = 2] /\ UNCHANGED <<nmVars, work>> /\ StateKept
  BY <1>1 DEF NewConnection
<1>3. /\ connections \in [Ssids -> Profiles \cup {None}] /\ inbox \in Seq(Signals) /\ wire \in Seq(Signals)
      /\ wire' = wire /\ saved' = saved /\ saved \subseteq Profiles /\ Types
  BY <1>2 DEF WInv, Types, nmVars
<1>4. \A p : GoneIn(Line, p) => GoneIn(Line', p)
  <2>1. e.kind = "new" /\ \A p : GoneIn(Line, p) => GoneIn(Line', p) \/ e = Gone(p)
    BY <1>1, <1>2, <1>3, ServedLine DEF Phases
  <2> QED
    BY <2>1 DEF Gone, Signal
<1>5. e.path \in saved => SsidOf(e.path) \in Ssids /\ e.path \in Profiles
  BY <1>3, SavedOf
<1>6. connections' \in [Ssids -> Profiles \cup {None}]
  BY <1>2, <1>3, <1>5
<1>7. Noted'
  <2> SUFFICES ASSUME NEW s \in Ssids, connections'[s] # None
               PROVE  connections'[s] \in saved' \/ GoneIn(Line', connections'[s])
    BY DEF Noted, GoneIn, Gone, Signal
  <2>1. connections'[s] \in saved \/ connections'[s] = connections[s]
    BY <1>2, <1>3, <1>5
  <2> QED
    BY <1>3, <1>4, <2>1 DEF WInv, Noted
<1> QED
  BY <1>2, <1>6, <1>7, ProfileServed

-----------------------------------------------------------------------------
(* The monitor takes the signal of a state out of the line.                 *)
LEMMA StateServed ==
  ASSUME WInv, Served(3), UNCHANGED <<nmVars, connections, work>>, NEW e, e = inbox[First(3)]
  PROVE  /\ Types /\ DeviceOK' /\ Noted' /\ inbox' \in Seq(Signals) /\ wire' \in Seq(Signals)
         /\ UNCHANGED <<dev, active, saved, volatile, connections, work>> /\ WorkTypes'
         /\ Settled' <=> Settled
         /\ Settled => (HasState(Line)' => Ends(Line, Word)') /\ (~HasState(Line)' => e.what \in Word)
         /\ monitor.lookup = "none" /\ ~monitor.answered /\ e \in Signals
<1>1. /\ Types /\ DeviceOK /\ Noted /\ inbox \in Seq(Signals) /\ wire \in Seq(Signals) /\ 3 \in 1..3
      /\ wire' = wire
  BY DEF WInv, Types, nmVars
<1>2. /\ inbox' \in Seq(Signals) /\ e \in Signals /\ e.kind = "state" /\ HasState(Line)
      /\ \A whats : Ends(Line, whats) => Ends(Line', whats) \/ (~HasState(Line') /\ e.what \in whats)
      /\ \A p : GoneIn(Line, p) => GoneIn(Line', p) \/ e = Gone(p)
  BY <1>1, ServedLine DEF Phases
<1>3. UNCHANGED <<dev, active, why, want, saved, volatile, wire>> /\ DeviceOK' /\ (Settled' <=> Settled) /\ Word' = Word
  BY <1>1 DEF nmVars, DeviceOK, Settled, Word
<1>4. Settled => (HasState(Line)' => Ends(Line, Word)') /\ (~HasState(Line)' => e.what \in Word)
  <2>1. ASSUME Settled PROVE Ends(Line', Word) \/ (~HasState(Line') /\ e.what \in Word)
    BY <1>2, <2>1 DEF WInv, LastWord
  <2>2. /\ HasState(Line)' <=> HasState(Line')
        /\ Ends(Line, Word)' <=> Ends(Line', Word)
    BY <1>3 DEF HasState, Ends
  <2> QED
    BY <2>1, <2>2, EndsHasState
<1>5. Noted'
  <2>1. \A p : e # Gone(p)
    <3>1. e.kind = "state"
      BY <1>2
    <3>2. \A p : Gone(p).kind = "removed"
      BY DEF Gone, Signal
    <3> QED
      BY <3>1, <3>2
  <2>2. \A p : GoneIn(Line, p) => GoneIn(Line', p)
    BY <1>2, <2>1
  <2> QED
    BY <1>1, <1>3, <2>2 DEF Noted, GoneIn, Gone, Signal
<1>6. monitor.lookup = "none" /\ ~monitor.answered
  BY <1>1 DEF Types, Served
<1> QED
  BY <1>1, <1>2, <1>3, <1>4, <1>5, <1>6 DEF Types, WorkTypes

(* A state that needs no lookup.                                            *)
LEMMA HandledKeeps ==
  ASSUME WInv, NEW whats, Handled(whats), NEW e, e = inbox[First(3)],
         \/ SetConnecting(None) /\ e.what # "ACTIVATED"
         \/ PassedOver
         \/ StateKept /\ e.what \notin {"ACTIVATED", "DISCONNECTED", "DISCONNECTED_REMOVED"}
         \/ MonitorWrites([wifi_state EXCEPT !.status = "CONNECTING"])
             /\ e.what \notin {"ACTIVATED", "DISCONNECTED", "DISCONNECTED_REMOVED"}
  PROVE  WInv'
<1>1. Served(3) /\ UNCHANGED <<nmVars, connections, work>> /\ monitor' = [monitor EXCEPT !.phase = 3]
  BY DEF Handled, Rest
<1>2. /\ Types /\ DeviceOK' /\ Noted' /\ inbox' \in Seq(Signals) /\ wire' \in Seq(Signals)
      /\ UNCHANGED <<dev, active, saved, volatile, connections, work>> /\ WorkTypes'
      /\ Settled' <=> Settled
      /\ Settled => (HasState(Line)' => Ends(Line, Word)') /\ (~HasState(Line)' => e.what \in Word)
      /\ monitor.lookup = "none" /\ ~monitor.answered
  BY <1>1, StateServed
<1>3. /\ monitor'.lookup = "none" /\ ~monitor'.answered /\ ~Asking'
      /\ monitor' \in Loops
  <2>1. monitor \in Loops
    BY <1>2 DEF Types
  <2> QED
    BY <1>1, <1>2, <2>1, NextPhase DEF Asking
<1>4. wifi_state' \in [ssid : Ssids \cup {None}, status : Statuses] /\ fresh' \subseteq fresh
  BY <1>2 DEF SetConnecting, PassedOver, StateKept, MonitorWrites, Types, Disconnected, WifiState, Statuses
<1>5. Types'
  BY <1>2, <1>3, <1>4 DEF Types
<1>6. LastWord' /\ PathHolds'
  BY <1>2, <1>3 DEF LastWord, PathHolds
<1>7. ReadHolds'
  BY <1>2 DEF ReadHolds, SetConnecting, PassedOver, StateKept, MonitorWrites, Word
<1>8. Told'
  BY <1>2 DEF Told, Agrees, SetConnecting, PassedOver, StateKept, MonitorWrites, Word, Disconnected, WifiState, Settled
<1> QED
  BY <1>2, <1>5, <1>6, <1>7, <1>8 DEF WInv

LEMMA StatesKeep ==
  ASSUME WInv, StateDisconnected \/ StateDeactivating \/ StateWrongPassword \/ StatePrepare PROVE WInv'
<1>1. PICK e : e = inbox[First(3)]
  OBVIOUS
<1>2. CASE StateDisconnected
  BY <1>1, <1>2, HandledKeeps DEF StateDisconnected, Handled
<1>3. CASE StateDeactivating
  BY <1>1, <1>3, HandledKeeps DEF StateDeactivating, Handled
<1>4. CASE StateWrongPassword
  BY <1>1, <1>4, HandledKeeps DEF StateWrongPassword, Handled
<1>5. CASE StatePrepare
  BY <1>1, <1>5, HandledKeeps DEF StatePrepare, Handled
<1> QED
  BY <1>2, <1>3, <1>4, <1>5

-----------------------------------------------------------------------------
(* The monitor asks for the active connection, is answered, and writes.      *)
LEMMA StateAsksKeeps ==
  ASSUME WInv, StateAsks PROVE WInv'
<1>1. PICK e : e = inbox[First(3)]
  OBVIOUS
<1>2. /\ Served(3) /\ UNCHANGED <<nmVars, connections, work, wifi_state, kept, late, undone>>
      /\ fresh' = fresh \cup {"monitor"} /\ e.what \in {"ACTIVATED", "PREPARE"}
      /\ monitor' = [phase |-> 3, lookup |-> e.what, answered |-> FALSE, path |-> None, shown |-> wifi_state.ssid]
  BY <1>1 DEF StateAsks, Rest
<1>3. /\ Types /\ DeviceOK' /\ Noted' /\ inbox' \in Seq(Signals) /\ wire' \in Seq(Signals)
      /\ UNCHANGED <<dev, active, saved, volatile, connections, work>> /\ WorkTypes'
      /\ Settled' <=> Settled
      /\ Settled => (HasState(Line)' => Ends(Line, Word)') /\ (~HasState(Line)' => e.what \in Word)
  BY <1>1, <1>2, StateServed
<1>4. /\ monitor'.lookup = e.what /\ ~monitor'.answered /\ Asking'
      /\ monitor' \in Loops
  BY <1>2, <1>3 DEF Types, Loops, Asking
<1>5. Types'
  BY <1>2, <1>3, <1>4 DEF Types
<1>6. LastWord' /\ PathHolds'
  BY <1>2, <1>3, <1>4 DEF LastWord, PathHolds, Word, Settled
<1>7. ReadHolds' /\ Told'
  BY <1>4 DEF ReadHolds, Told
<1> QED
  BY <1>3, <1>5, <1>6, <1>7 DEF WInv

LEMMA AnsweredKeeps ==
  ASSUME WInv, Answered PROVE WInv'
<1>1. Types /\ DeviceOK /\ Noted
  BY DEF WInv
<1>2. /\ StateKept /\ UNCHANGED <<connections, work, dev, active, why, want, saved, volatile>>
      /\ UNCHANGED <<wifi_state, fresh, kept, late, undone>>
  BY DEF Answered, Rest, StateKept
<1>3. /\ monitor'.lookup = monitor.lookup /\ monitor'.answered = TRUE /\ monitor'.path = active
      /\ monitor' \in Loops
      /\ monitor.lookup # "none"
  BY <1>1 DEF Answered, Types, Loops, DeviceOK
<1>4. inbox' \in Seq(Signals) /\ wire' \in Seq(Signals) /\ Line' = Line
  BY <1>1, TakenIn DEF Answered, Types
<1>5. DeviceKeeps
  BY <1>1, <1>2, <1>4, StillKeeps
<1>6. Types'
  BY <1>1, <1>2, <1>3, <1>4 DEF Types, WorkTypes
<1>7. Noted'
  BY <1>1, <1>2, <1>3, <1>5, NotedKeeps DEF DeviceKeeps
<1>8. LastWord' /\ PathHolds' /\ ReadHolds' /\ Told'
  <2>1. \A o \in Workers : Responsible(o) => Responsible(o)'
    BY <1>2 DEF Responsible
  <2> QED
    BY <1>2, <1>3, <1>5, <2>1, BystandersKeep DEF Asking, DeviceKeeps
<1> QED
  BY <1>5, <1>6, <1>7, <1>8 DEF WInv, DeviceKeeps

LEMMA StateShownKeeps ==
  ASSUME WInv, StateShown PROVE WInv'
<1>1. Types /\ DeviceOK /\ Noted /\ monitor.answered /\ monitor.lookup # "none"
  BY DEF WInv, StateShown, Types
<1>2. /\ UNCHANGED <<connections, work, inbox>>
      /\ UNCHANGED <<dev, active, why, want, saved, wire>> /\ volatile' \subseteq volatile
  BY DEF StateShown, Rest, Save, nmVars
<1>3. /\ monitor'.lookup = "none" /\ ~monitor'.answered /\ ~Asking'
      /\ monitor' \in Loops
  <2>1. monitor' = [Resting EXCEPT !.phase = 3]
    BY DEF StateShown
  <2> QED
    BY <2>1, RestingLoop DEF Asking
<1>4. inbox' \in Seq(Signals) /\ wire' \in Seq(Signals) /\ Line' = Line
  BY <1>1, <1>2 DEF Types, Line
<1>5. DeviceKeeps
  BY <1>1, <1>2, <1>4, StillKeeps
<1>6. Shown \in [ssid : Ssids \cup {None}, status : Statuses]
  <2>1. monitor.path # None => Known(monitor.path) \in Ssids \cup {None}
    BY <1>1, SavedOf DEF Known, Types, Loops
  <2> QED
    BY <1>1, <2>1 DEF Shown, WifiState, Types, Loops, Statuses
<1>7. Types'
  <2>1. wifi_state' \in [ssid : Ssids \cup {None}, status : Statuses] /\ fresh' = fresh
    BY <1>1, <1>6 DEF StateShown, StateKept, MonitorWrites, Types
  <2> QED
    BY <1>1, <1>2, <1>3, <1>4, <1>5, <2>1 DEF Types, WorkTypes, DeviceKeeps
<1>8. Noted'
  BY <1>1, <1>2, <1>5, NotedKeeps DEF DeviceKeeps
<1>10. CASE "monitor" \notin fresh
  <2>1. UNCHANGED <<wifi_state, fresh, kept, late, undone>> /\ ~Asking
    BY <1>10 DEF StateShown, StateKept, Asking
  <2>2. \A o \in Workers : Responsible(o) => Responsible(o)'
    BY <1>2, <2>1 DEF Responsible
  <2>3. LastWord' /\ PathHolds' /\ ReadHolds' /\ Told'
    BY <1>2, <1>3, <1>5, <2>1, <2>2, BystandersKeep DEF DeviceKeeps
  <2> QED
    BY <1>5, <1>7, <1>8, <2>3 DEF WInv, DeviceKeeps
<1>11. CASE "monitor" \in fresh
  <2>1. MonitorWrites(Shown) /\ Asking
    BY <1>1, <1>11 DEF StateShown, Asking
  <2>2. (HasState(Line)' <=> HasState(Line)) /\ (Settled' <=> Settled) /\ (Ends(Line, Word)' <=> Ends(Line, Word))
    BY <1>2, <1>4 DEF HasState, Settled, Ends, Word
  <2>3. LastWord' /\ PathHolds'
    BY <1>3, <2>2 DEF WInv, LastWord, PathHolds
  <2>4. ReadHolds'
    BY <1>2, <2>1 DEF ReadHolds, MonitorWrites
  <2>5. Told'
    <3> SUFFICES ASSUME Settled, ~HasState(Line) PROVE Agrees'
      BY <2>2 DEF Told
    <3>1. dev = "act" /\ monitor.lookup = "ACTIVATED" /\ monitor.path = active
      BY <1>1, <2>1 DEF WInv, LastWord, PathHolds
    <3>2. active # None /\ Known(active) \in {SsidOf(active), None}
      BY <1>1, <3>1 DEF DeviceOK, Known
    <3> QED
      BY <1>2, <2>1, <3>1, <3>2 DEF Agrees, MonitorWrites, Shown, WifiState, SsidOf
  <2> QED
    BY <1>5, <1>7, <1>8, <2>3, <2>4, <2>5 DEF WInv, DeviceKeeps
<1> QED
  BY <1>10, <1>11

-----------------------------------------------------------------------------
LEMMA StutterKeeps ==
  ASSUME WInv, UNCHANGED vars PROVE WInv'
<1>1. UNCHANGED <<nmVars, connections, work, monitor, inbox>> /\ UNCHANGED <<wifi_state, fresh, kept, late, undone>>
  BY DEF vars, uiVars, ghosts
<1>2. UNCHANGED <<dev, active, why, want, saved, volatile, wire>>
  BY <1>1 DEF nmVars
<1>3. Types' /\ DeviceOK' /\ Noted'
  BY <1>1, <1>2 DEF WInv, Types, WorkTypes, DeviceOK, Noted, Line, GoneIn, Gone, Signal, SsidOf
<1>4. /\ HasState(Line)' <=> HasState(Line)
      /\ Ends(Line, Word)' <=> Ends(Line, Word)
      /\ (Asking' <=> Asking) /\ (Settled' <=> Settled) /\ DeviceStatus' = DeviceStatus /\ (Agrees' <=> Agrees)
  BY <1>1, <1>2 DEF Line, HasState, Ends, Word, Asking, Settled, DeviceStatus, Agrees, SsidOf
<1>5. LastWord' /\ PathHolds' /\ ReadHolds'
  BY <1>1, <1>2, <1>4 DEF WInv, LastWord, PathHolds, ReadHolds
<1>6. Told'
  BY <1>1, <1>4 DEF WInv, Told, Responsible
<1> QED
  BY <1>3, <1>5, <1>6 DEF WInv

(* The invariant: what the line of signals still says, what the monitor and  *)
(* the workers still hold, and what the screen shows, taken together, agree  *)
(* with the device (wifi_manager.py:404-520).                               *)
THEOREM WifiInvariant == Spec => []WInv
<1>1. ASSUME WInv, [Next]_vars PROVE WInv'
  <2>1. CASE \E w \in Workers : Tap(w) \/ WorkerStep(w)
    BY <1>1, <2>1, TapKeeps, DeleteProfileKeeps, AddConnectionKeeps, ActivateProfileKeeps, ReadDeviceKeeps,
       ReadConnectionKeeps DEF WorkerStep
  <2>2. CASE MonitorStep
    BY <1>1, <2>2, ReceiveKeeps, ConnectionRemovedKeeps, NewConnectionKeeps, StatesKeep, StateAsksKeeps, AnsweredKeeps,
       StateShownKeeps DEF MonitorStep
  <2>3. CASE NetworkManagerMoves
    BY <1>1, <2>3, NMMovesKeeps
  <2>4. CASE UNCHANGED vars
    BY <1>1, <2>4, StutterKeeps
  <2> QED
    BY <1>1, <2>1, <2>2, <2>3, <2>4 DEF Next
<1> QED
  BY <1>1, InitKeeps, PTL DEF Spec

(* The screen names networks and _connections profiles, at every step       *)
(* (wifi_manager.py:35-48, 182-184).                                        *)
THEOREM WifiTypeCorrect == Spec => []TypeOK
<1>1. WInv => TypeOK
  BY DEF WInv, Types, DeviceOK, TypeOK, Statuses
<1> QED
  BY <1>1, WifiInvariant, PTL

(* Once every signal is handled and every worker has returned, the screen   *)
(* shows what the device is in, unless the last word was a guard's or an    *)
(* older reading's, and _connections holds no profile that is gone           *)
(* (wifi_manager.py:416-426, 396-401), in every state.                      *)
THEOREM ScreenShowsTheDevice == Spec => []ShowsTheDevice
<1>1. WInv => ShowsTheDevice
  <2> SUFFICES ASSUME WInv, Quiet PROVE /\ ~kept /\ ~undone => Agrees
                                       /\ \A s \in Ssids : connections[s] \in saved \cup {None}
    BY DEF ShowsTheDevice
  <2>1. ~HasState(Line) /\ \A p : ~GoneIn(Line, p)
    <3>1. Line = << >> \o << >> /\ << >> \o << >> = << >>
      BY OfNone, ConcatEmptySeq DEF Quiet, Line
    <3>2. Len(<< >>) = 0 /\ 1..0 = {}
      OBVIOUS
    <3> QED
      BY <3>1, <3>2 DEF HasState, GoneIn
  <2>2. ~Asking /\ Settled /\ \A w \in Workers : ~Responsible(w)
    BY DEF Quiet, Asking, Settled, Responsible, Resting, Idle
  <2> QED
    BY <2>1, <2>2 DEF WInv, Told, Noted
<1> QED
  BY <1>1, WifiInvariant, PTL

-----------------------------------------------------------------------------
(* The threads that ask again since the user's last choice are not old: an   *)
(* old one has neither ended nor asked anew, and its copy of the epoch is    *)
(* not the current one.                                                     *)
OldInv == old \subseteq Waiting /\ old \cap fresh = {}

(* A tap takes nobody's question back.                                      *)
LEMMA TapWaits == ASSUME NEW w \in Workers, Tap(w) PROVE Waiting \subseteq Waiting'
<1>1. /\ work[w] = Idle /\ \E op \in {"connect", "activate", "forget", "init"}, ssid \in Ssids \cup {None} :
                             work' = [work EXCEPT ![w] = [op |-> op, ssid |-> ssid, read |-> "none"]]
      /\ monitor' = monitor
  BY DEF Tap, SetActive, ConnectToNetwork, ActivateConnection, ForgetConnection, Start
<1> SUFFICES ASSUME NEW t \in Workers, work[t].op = "answer" PROVE work'[t].op = "answer"
  BY <1>1 DEF Waiting
<1>2. t # w
  BY <1>1 DEF Idle
<1> QED
  BY <1>1, <1>2

LEMMA TapAges == ASSUME NEW w \in Workers, Tap(w), OldInv PROVE OldInv'
<1>2. Waiting \subseteq Waiting'
  BY TapWaits
<1>3. CASE \E ssid \in Ssids : ConnectToNetwork(w, ssid) \/ ActivateConnection(w, ssid)
  BY <1>2, <1>3 DEF ConnectToNetwork, ActivateConnection, SetConnecting, Choice, OldInv
<1>4. CASE SetActive(w) \/ \E ssid \in Ssids : ForgetConnection(w, ssid)
  BY <1>4 DEF SetActive, ForgetConnection, StateKept, NoChoice, OldInv
<1> QED
  BY <1>3, <1>4 DEF Tap

(* Only who asks gets a new copy of the epoch, and who asks was not waiting. *)
LEMMA AsksAnew ==
  ASSUME OldInv, NoChoice, fresh' \subseteq fresh \/ \E t : t \notin Waiting /\ fresh' = fresh \cup {t}
  PROVE  OldInv'
BY DEF OldInv, NoChoice

LEMMA WorkerAges == ASSUME NEW w \in Workers, WorkerStep(w), OldInv PROVE OldInv'
<1>1. CASE ReadDevice(w)
  <2>1. w \notin Waiting
    BY <1>1, WorkersAssumption DEF ReadDevice, Waiting
  <2> QED
    BY <1>1, <2>1, AsksAnew DEF WorkerStep, ReadDevice
<1>2. CASE ~ReadDevice(w)
  <2>1. fresh' \subseteq fresh
    BY <1>2 DEF WorkerStep, DeleteProfile, AddConnection, ActivateProfile, ReadConnection, StateKept, SetConnecting
  <2> QED
    BY <2>1, AsksAnew DEF WorkerStep
<1> QED
  BY <1>1, <1>2

LEMMA MonitorAges == ASSUME MonitorStep, OldInv PROVE OldInv'
<1>1. CASE StateAsks
  <2>1. "monitor" \notin Waiting
    BY <1>1, WorkersAssumption DEF StateAsks, Served, Waiting
  <2> QED
    BY <1>1, <2>1, AsksAnew DEF MonitorStep, StateAsks
<1>2. CASE ~StateAsks
  <2>1. fresh' \subseteq fresh
    BY <1>2 DEF MonitorStep, Receive, ScanDone, QueuesEmpty, ConnectionRemoved, NewConnection, StateDisconnected,
                StateDeactivating, StateWrongPassword, StatePrepare, Answered, StateShown, StateKept, SetConnecting,
                MonitorWrites, PassedOver
  <2> QED
    BY <2>1, AsksAnew DEF MonitorStep
<1> QED
  BY <1>1, <1>2

LEMMA OldKeeps == Spec => []OldInv
<1>1. Init => OldInv
  BY DEF Init, OldInv
<1>2. OldInv /\ [Next]_vars => OldInv'
  <2>1. CASE NetworkManagerMoves
    BY <2>1, AsksAnew DEF NetworkManagerMoves, StateKept
  <2>2. CASE UNCHANGED vars
    BY <2>2 DEF OldInv, Waiting, vars, uiVars, ghosts
  <2> QED
    BY <2>1, <2>2, TapAges, WorkerAges, MonitorAges DEF Next
<1> QED
  BY <1>1, <1>2, PTL DEF Spec

(* What NetworkManager was asked before the user's last choice writes        *)
(* nothing when its answer is in, in the monitor and in any number of        *)
(* workers (wifi_manager.py:416-424, 260, 457, 496).                        *)
THEOREM NothingStaleComesUp == Spec => NothingStale
<1> DEFINE Discarded == \A t \in old : Concludes(t) => UNCHANGED wifi_state
<1>1. ASSUME WInv, OldInv, [Next]_vars PROVE [Discarded]_vars
  <2> SUFFICES ASSUME Next, NEW t \in old, Concludes(t) PROVE wifi_state' = wifi_state
    BY <1>1
  <2>0. t \in Waiting /\ t \notin fresh /\ (t \in Workers \/ t = "monitor")
    BY <1>1 DEF OldInv, Waiting
  <2>1. ASSUME NEW w \in Workers, WorkerStep(w) PROVE wifi_state' = wifi_state
    <3>0. monitor' = monitor /\ \E job : work' = [work EXCEPT ![w] = job]
      <4>1. monitor' = monitor
        BY <2>1 DEF WorkerStep, DeleteProfile, AddConnection, ActivateProfile, ReadDevice, ReadConnection, WorkerOnly
      <4>2. ReadDevice(w) \/ \E op : Becomes(w, op)
        BY <2>1, Zenon DEF WorkerStep, DeleteProfile, AddConnection, ActivateProfile, ReadConnection
      <4> QED
        BY <4>1, <4>2 DEF ReadDevice, Becomes
    <3>1. monitor' = monitor /\ \A o \in Workers : o # w => work'[o] = work[o]
      BY <1>1, <3>0 DEF WInv, Types, WorkTypes
    <3>2. t = w /\ work[w].op = "answer"
      BY <2>0, <3>1 DEF Concludes, Waiting
    <3>3. ReadConnection(w)
      BY <2>1, <3>2 DEF WorkerStep, DeleteProfile, AddConnection, ActivateProfile, ReadDevice
    <3> QED
      BY <2>0, <3>2, <3>3 DEF ReadConnection
  <2>2. CASE MonitorStep
    <3>1. work' = work
      BY <2>2 DEF MonitorStep, Receive, ScanDone, QueuesEmpty, ConnectionRemoved, NewConnection, StateDisconnected,
                  StateDeactivating, StateWrongPassword, StatePrepare, Handled, StateAsks, Answered, StateShown, Rest
    <3>2. t = "monitor" /\ monitor.lookup # "none" /\ monitor'.lookup = "none"
      BY <2>0, <3>1 DEF Concludes, Waiting
    <3>3. ~Answered
      BY <1>1, <3>2 DEF Answered, WInv, Types, Loops
    <3>4. StateShown
      BY <2>2, <3>2, <3>3 DEF MonitorStep, Receive, ScanDone, QueuesEmpty, ConnectionRemoved, NewConnection, Served,
                              StateDisconnected, StateDeactivating, StateWrongPassword, StatePrepare, Handled, StateAsks,
                              Resting
    <3> QED
      BY <2>0, <3>2, <3>4 DEF StateShown, StateKept
  <2>3. ASSUME NEW w \in Workers, Tap(w) PROVE FALSE
    BY <2>0, <2>3, TapWaits DEF Concludes
  <2>4. CASE NetworkManagerMoves
    BY <2>4 DEF NetworkManagerMoves, StateKept
  <2> QED
    BY <2>1, <2>2, <2>3, <2>4 DEF Next
<1> QED
  BY <1>1, WifiInvariant, OldKeeps, PTL DEF Spec, NothingStale
=============================================================================
