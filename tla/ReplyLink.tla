-------------------------------- MODULE ReplyLink --------------------------------
(***************************************************************************)
(* The way back from the phone: the reply thread of bigmodeld (main.cc)    *)
(* with its session (nav_outputs.h), the framing of the byte stream, and   *)
(* the curve targets that the calib thread writes for the longitudinal     *)
(* control.  The reply thread asks the sender for the connection, asks     *)
(* whether it is up, and reads the socket in three steps, and the writer   *)
(* thread may drop and remake the connection between any two of them.      *)
(*                                                                         *)
(* The bytes of the phone are pieces that know the socket they came from:  *)
(* HELLO is one, a REPLY is a head and a tail.  The phone is healthy: it    *)
(* sends HELLO first, then replies.  The points of a REPLY are named by    *)
(* their socket; NoPoints is the empty list.  Time enters as the choices   *)
(* of when points have aged and of when a write is due.                    *)
(***************************************************************************)
EXTENDS Naturals, SequencesExt

CONSTANTS
  MaxSockets,    \* bound on the connections
  MaxUnread      \* bound on the pieces the socket holds

ASSUME ReplyConstants == MaxSockets \in Nat /\ MaxUnread \in Nat \ {0}

NoPoints == 0
Sockets == 1..MaxSockets

VARIABLES
  connected,     \* UplinkSender.connected_
  conn_epoch,    \* UplinkSender.conn_epoch_
  fd,            \* the open socket, 0 when there is none
  sockets,       \* sockets opened so far
  unread,        \* pieces the socket holds
  greeted,       \* has the phone sent its HELLO on this socket
  step,          \* where the reply thread is in its loop
  tracked,       \* ConnEpochTracker: the epoch seen last, if any
  hello_seen,    \* NavLinkSession.hello_seen_
  cache,         \* NavLinkCache: the points of the last REPLY
  decided,       \* MapTargetWriter: the points decided last, if any
  framer,        \* MsgFramer.buf_
  link,          \* LinkStateTracker.state_
  slot,          \* pending_map_target_velocities_
  writing,       \* the value the calib thread has taken out of the slot
  param          \* Params MapTargetVelocities

connVars  == <<connected, conn_epoch, fd, sockets, unread, greeted>>
replyVars == <<step, tracked, hello_seen, cache, decided, framer>>
calibVars == <<writing, param>>
linkVars == <<connVars, replyVars, link, slot, calibVars>>

LinkInit ==
  /\ connected = FALSE /\ conn_epoch = 0
  /\ fd = 0 /\ sockets = 0 /\ unread = <<>> /\ greeted = FALSE
  /\ step = "epoch"
  /\ tracked = {}
  /\ hello_seen = FALSE
  /\ cache = NoPoints
  /\ decided = {}
  /\ framer = <<>>
  /\ link = "connecting"
  /\ slot = {}
  /\ writing = {} /\ param = NoPoints

-----------------------------------------------------------------------------
(* The writer thread and the phone                                         *)

(* The socket is open before the sender knows of it. *)
OpenSocket ==
  /\ ~connected /\ fd = 0
  /\ sockets < MaxSockets
  /\ fd' = sockets + 1
  /\ sockets' = sockets + 1
  /\ unread' = <<>>
  /\ greeted' = FALSE
  /\ UNCHANGED <<connected, conn_epoch, replyVars, link, slot, calibVars>>

NewConnection ==
  /\ ~connected /\ fd # 0
  /\ connected' = TRUE
  /\ conn_epoch' = conn_epoch + 1
  /\ link' = "connecting"
  /\ UNCHANGED <<fd, sockets, unread, greeted, replyVars, slot, calibVars>>

(* drop_connection_locked *)
DropConnection ==
  /\ connected' = FALSE
  /\ fd' = 0
  /\ unread' = <<>>
  /\ UNCHANGED <<conn_epoch, sockets, greeted>>

(* A stalled write is announced, one that failed is not. *)
WriterDrops ==
  /\ connected
  /\ DropConnection
  /\ link' \in {link, "connecting"}
  /\ UNCHANGED <<replyVars, slot, calibVars>>

Piece(kind) == [from |-> fd, kind |-> kind]

PhoneSends ==
  /\ fd # 0
  /\ \/ /\ ~greeted
        /\ unread' = <<Piece("hello")>>
     \/ /\ greeted
        /\ Len(unread) + 2 <= MaxUnread
        /\ unread' = unread \o <<Piece("head"), Piece("tail")>>
  /\ greeted' = TRUE
  /\ UNCHANGED <<connected, conn_epoch, fd, sockets, replyVars, link, slot, calibVars>>

-----------------------------------------------------------------------------
(* NavLinkSession                                                          *)

(* MapTargetWriter.update with the points p: the first decision and the    *)
(* loss of all points are written at once, another when it is due.         *)
DecideTargets(p) ==
  \/ /\ decided' = {p}
     /\ slot' = {p}
  \/ /\ decided # {}
     /\ p # NoPoints \/ decided = {NoPoints}
     /\ UNCHANGED <<decided, slot>>

(* on_disconnect, and publish_map_targets.                                 *)
Reset ==
  /\ hello_seen' = FALSE
  /\ cache' = NoPoints
  /\ DecideTargets(NoPoints)

OnEpoch ==
  \/ /\ tracked = {conn_epoch}
     /\ UNCHANGED <<tracked, hello_seen, cache, decided, slot, framer>>
  \/ /\ tracked # {conn_epoch}
     /\ tracked' = {conn_epoch}
     /\ framer' = <<>>
     /\ Reset

(* With the points of the cache, which may have aged. *)
DecideOnCache == DecideTargets(cache) \/ DecideTargets(NoPoints)

-----------------------------------------------------------------------------
(* reply_thread                                                            *)

At(here) == step = here
Goto(there) == step' = there

sessionVars == <<hello_seen, cache, decided, slot>>

CheckEpoch ==
  /\ At("epoch") /\ Goto("connected")
  /\ OnEpoch
  /\ UNCHANGED <<connVars, link, calibVars>>

CheckConnected ==
  /\ At("connected")
  /\ \/ connected /\ Goto("read") /\ UNCHANGED sessionVars
     \/ ~connected /\ Goto("epoch") /\ Reset
  /\ UNCHANGED <<connVars, tracked, framer, link, calibVars>>

(* The socket is gone or closed by the phone, has nothing, or gives a part *)
(* of what it holds.                                                       *)
ReadSome(n) ==
  /\ framer' = framer \o SubSeq(unread, 1, n)
  /\ unread' = SubSeq(unread, n + 1, Len(unread))
  /\ UNCHANGED <<connected, conn_epoch, fd, sockets, greeted>>

Read ==
  /\ At("read")
  /\ \/ /\ Goto("fail")
        /\ UNCHANGED <<connVars, framer>>
     \/ /\ fd # 0 /\ unread = <<>> /\ Goto("idle")
        /\ UNCHANGED <<connVars, framer>>
     \/ /\ Goto("parse")
        /\ \E n \in 1..Len(unread) : ReadSome(n)
  /\ UNCHANGED <<tracked, sessionVars, link, calibVars>>

(* on_idle, when nothing was read and the wait for more is over. *)
Idle ==
  /\ At("idle") /\ Goto("epoch")
  /\ \/ /\ connected
        /\ DecideOnCache
        /\ UNCHANGED <<hello_seen, cache>>
     \/ ~connected /\ Reset
  /\ UNCHANGED <<connVars, tracked, framer, link, calibVars>>

(* MsgFramer.next: a REPLY is its head and as many bytes as it announces,  *)
(* whatever they are: its tail, or a HELLO and the head of another REPLY.  *)
MessageEnd ==
  CASE framer = <<>>                 -> 1
    [] Head(framer).kind # "head"    -> 1
    [] Len(framer) = 1               -> 2
    [] framer[2].kind = "tail"       -> 2
    [] OTHER                         -> 3

NeedMore == Len(framer) < MessageEnd

Parsed ==
  /\ At("parse") /\ NeedMore /\ Goto("epoch")
  /\ UNCHANGED <<connVars, tracked, framer, sessionVars, link, calibVars>>

Consumed == framer' = SubSeq(framer, MessageEnd + 1, Len(framer))

Hello ==
  /\ Head(framer).kind = "hello" /\ ~hello_seen
  /\ hello_seen' = TRUE
  /\ link' = "up"
  /\ UNCHANGED <<cache, decided, slot>>

(* Any 8480 bytes with the header of a REPLY are one: parse_reply looks at *)
(* the header only.                                                        *)
Reply ==
  /\ Head(framer).kind = "head" /\ hello_seen
  /\ cache' \in {framer[MessageEnd].from, NoPoints}
  /\ DecideTargets(cache') \/ DecideTargets(NoPoints)
  /\ UNCHANGED <<hello_seen, link>>

Parse ==
  /\ At("parse") /\ ~NeedMore /\ Goto("parse")
  /\ Hello \/ Reply
  /\ Consumed
  /\ UNCHANGED <<connVars, tracked, calibVars>>

(* A second HELLO, a REPLY before HELLO, or no header at all. *)
BadStream ==
  /\ At("parse") /\ ~NeedMore /\ Goto("fail")
  /\ \/ Head(framer).kind = "hello" /\ hello_seen
     \/ Head(framer).kind = "head" /\ ~hello_seen
     \/ Head(framer).kind = "tail"
  /\ UNCHANGED <<connVars, tracked, framer, sessionVars, link, calibVars>>

(* Fault: the connection stays, only the session is reset. *)
Fail_SessionOnly ==
  /\ At("fail") /\ Goto("failed")
  /\ UNCHANGED <<connVars, tracked, framer, sessionVars, link, calibVars>>

(* fail: the sender first, then the session. *)
Fail ==
  /\ At("fail") /\ Goto("failed")
  /\ \/ connected /\ DropConnection
     \/ ~connected /\ UNCHANGED connVars
  /\ UNCHANGED <<tracked, framer, sessionVars, link, calibVars>>

Failed ==
  /\ At("failed") /\ Goto("epoch")
  /\ link' = "connecting"
  /\ framer' = <<>>
  /\ Reset
  /\ UNCHANGED <<connVars, tracked, calibVars>>

ReplyThread ==
  \/ CheckEpoch \/ CheckConnected \/ Read \/ Idle
  \/ Parsed \/ Parse \/ BadStream
  \/ Fail \/ Failed

-----------------------------------------------------------------------------
(* calib_thread: write_pending_map_targets                                 *)

TakePending ==
  /\ writing = {} /\ slot # {}
  /\ writing' = slot
  /\ slot' = {}
  /\ UNCHANGED <<connVars, replyVars, link, param>>

(* Fault: the slot is emptied after the write. *)
WriteParam_ClearsSlot ==
  /\ \E v \in writing : param' = v
  /\ writing' = {} /\ slot' = {}
  /\ UNCHANGED <<connVars, replyVars, link>>

WriteParam ==
  /\ \E v \in writing : param' = v
  /\ writing' = {}
  /\ UNCHANGED <<connVars, replyVars, link, slot>>

CalibThread == TakePending \/ WriteParam

LinkNext ==
  \/ OpenSocket \/ NewConnection \/ WriterDrops
  \/ PhoneSends
  \/ ReplyThread
  \/ CalibThread

LinkSpec == LinkInit /\ [][LinkNext]_linkVars

(* The threads run, the phone accepts every connection and keeps sending. *)
Fairness ==
  /\ WF_linkVars(OpenSocket) /\ WF_linkVars(NewConnection)
  /\ WF_linkVars(PhoneSends)
  /\ WF_linkVars(ReplyThread)
  /\ WF_linkVars(CalibThread)

FairSpec == LinkSpec /\ Fairness

-----------------------------------------------------------------------------
(* Properties                                                              *)

(* What every variable holds; a connection that counts as up has a socket, *)
(* and a socket is one connection at most (uplink_sender.cpp:150-159).     *)
Pieces == [from : Sockets, kind : {"hello", "head", "tail"}]
Points == Sockets \cup {NoPoints}
OneOrNone(S) == {{}} \cup {{x} : x \in S}

LinkTypeOK ==
  /\ connected \in BOOLEAN /\ greeted \in BOOLEAN /\ hello_seen \in BOOLEAN
  /\ fd \in Points /\ sockets \in 0..MaxSockets /\ conn_epoch \in 0..sockets
  /\ connected => fd # 0
  /\ unread \in Seq(Pieces) /\ Len(unread) <= MaxUnread
  /\ framer \in Seq(Pieces) /\ Len(framer) <= MaxUnread + 2
  /\ step \in {"epoch", "connected", "read", "idle", "parse", "fail", "failed"}
  /\ tracked \in OneOrNone(0..MaxSockets)
  /\ cache \in Points /\ param \in Points
  /\ decided \in OneOrNone(Points) /\ slot \in OneOrNone(Points) /\ writing \in OneOrNone(Points)
  /\ link \in {"connecting", "up"}

(* Has the reply thread looked at the connection of now? *)
Looked == At("connected") /\ connected /\ tracked = {conn_epoch}

DecidedForNow == Looked => decided \subseteq {NoPoints, fd}

WrittenForNow == Looked /\ slot = {} /\ writing = {} => param \in {NoPoints, fd}

(* The points of a connection that is gone do not keep steering the speed  *)
(* of the car: once the reply thread has looked at the connection of now,   *)
(* what it last decided to write are points of it or none, whichever socket *)
(* a half of a REPLY came from (nav_outputs.h:216-222), nor are there       *)
(* others in the parameter when nothing waits to be written; and the        *)
(* parameter loses the old ones (main.cc:388-391, 877-885).                *)
OldPointsGo ==
  /\ [](DecidedForNow /\ WrittenForNow)
  /\ \A s \in Sockets : (param = s /\ fd # s) ~> (param # s)

(* A connection on which the phone keeps talking does not get stuck: it is *)
(* dropped, or it has said HELLO and is reported as up (main.cc:373-529).  *)
Serving == connected /\ hello_seen /\ link = "up"

ServedOrDropped == \A s \in Sockets : (fd = s) ~> (fd # s \/ Serving)
===============================================================================
