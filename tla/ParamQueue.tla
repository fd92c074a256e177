----------------------------- MODULE ParamQueue -----------------------------
(***************************************************************************)
(* Params::putNonBlocking (common/params.cc): a value goes into the queue  *)
(* of the Params object, and a thread started on demand writes the queue   *)
(* out until it finds it empty.  The caller starts a new thread when there *)
(* was none or when the future of the last one is ready, which is later    *)
(* than its last look at the queue.                                        *)
(*                                                                         *)
(* One caller at a time: the objects that several threads use are put      *)
(* under a mutex by their users (link_param_mtx_ in bigmodeld).  A put is  *)
(* one step here, which ParamStore shows that it is to every reader.  It   *)
(* may fail: nobody looks at its result, the thread goes on with the next  *)
(* value and the key keeps what it had.                                    *)
(***************************************************************************)
EXTENDS Naturals, Sequences

CONSTANTS AsyncKeys,    \* the parameters the object writes
          AsyncValues,  \* what they are set to
          MaxQueue      \* bound: values in the queue of a running thread

ASSUME MaxQueueAssumption == MaxQueue \in Nat \ {0}

VARIABLES store,    \* what the directory has
          queue,    \* Params::queue, of <<key, value>>
          future,   \* Params::future: none, running or ready
          thread,   \* asyncWriteThread: off, poll, put, or end: it saw the queue empty
          item,     \* p of asyncWriteThread
          caller,   \* the caller: idle, check inside putNonBlocking, or gone
          last,     \* history: last[k] is the value the caller last asked for
          unwritten \* history: the keys whose last value was given up by a failed put

queueVars == <<store, queue, future, thread, item, caller, last, unwritten>>

QueueInit == /\ store  \in [AsyncKeys -> AsyncValues]
             /\ queue  = <<>>
             /\ future = "none"
             /\ thread = "off"
             /\ item   = << >>
             /\ caller = "idle"
             /\ last   = store
             /\ unwritten = {}
-----------------------------------------------------------------------------
\* MaxQueue bounds what piles up behind a running thread; a call that finds none running
\* is always possible, for it starts one.
Room == Len(queue) < MaxQueue + (IF future = "running" THEN 0 ELSE 1)

Push(k, v) ==
    /\ caller = "idle" /\ Room
    /\ queue'  = Append(queue, <<k, v>>)
    /\ last'   = [last EXCEPT ![k] = v]
    /\ caller' = "check"
    /\ unwritten' = unwritten \ {k}
    /\ UNCHANGED <<store, future, thread, item>>

(* Fault: the thread is started when there was none, never again. *)
CheckFuture_Once ==
    /\ caller = "check"
    /\ IF future = "none" THEN future' = "running" /\ thread' = "poll"
                          ELSE UNCHANGED <<future, thread>>
    /\ caller' = "idle"
    /\ UNCHANGED <<store, queue, item, last, unwritten>>

CheckFuture ==
    /\ caller = "check"
    /\ IF future # "running" THEN future' = "running" /\ thread' = "poll"
                             ELSE UNCHANGED <<future, thread>>
    /\ caller' = "idle"
    /\ UNCHANGED <<store, queue, item, last, unwritten>>

(* Fault: the thread takes the newest value. *)
Pop_Newest ==
    /\ thread = "poll" /\ queue # <<>>
    /\ item'   = queue[Len(queue)]
    /\ queue'  = SubSeq(queue, 1, Len(queue) - 1)
    /\ thread' = "put"
    /\ UNCHANGED <<store, future, caller, last, unwritten>>

Pop ==
    /\ thread = "poll" /\ queue # <<>>
    /\ item'   = Head(queue)
    /\ queue'  = Tail(queue)
    /\ thread' = "put"
    /\ UNCHANGED <<store, future, caller, last, unwritten>>

InQueue(e) == \E i \in 1 .. Len(queue) : queue[i] = e

\* The put that succeeds, and the one that fails before it renames its file.
Put ==
    /\ thread = "put"
    /\ \/ store' = [store EXCEPT ![item[1]] = item[2]] /\ UNCHANGED unwritten
       \/ /\ unwritten' = IF \E v \in AsyncValues : InQueue(<<item[1], v>>)
                           THEN unwritten ELSE unwritten \cup {item[1]}
          /\ UNCHANGED store
    /\ item'   = << >>
    /\ thread' = "poll"
    /\ UNCHANGED <<queue, future, caller, last>>

SeeEmpty ==
    /\ thread = "poll" /\ queue = <<>>
    /\ thread' = "end"
    /\ UNCHANGED <<store, queue, future, item, caller, last, unwritten>>

\* std::async makes the future ready after the function has returned.
Return ==
    /\ thread = "end"
    /\ thread' = "off"
    /\ future' = "ready"
    /\ UNCHANGED <<store, queue, item, caller, last, unwritten>>

\* ~Params: waits for the future.
Destroy ==
    /\ caller = "idle" /\ future # "running"
    /\ caller' = "gone"
    /\ UNCHANGED <<store, queue, future, thread, item, last, unwritten>>

WriteThread == Pop \/ Put \/ SeeEmpty \/ Return

Call == \E k \in AsyncKeys, v \in AsyncValues : Push(k, v)

QueueNext == \/ Call
             \/ CheckFuture
             \/ WriteThread
             \/ Destroy

QueueSpec == QueueInit /\ [][QueueNext]_queueVars

\* The thread runs on, and a call of putNonBlocking to its end.  Whether there is a next call
\* is up to the owner: card.py writes ControlsReady once and never again.
FairSpec == QueueSpec /\ WF_queueVars(CheckFuture) /\ WF_queueVars(WriteThread)
-----------------------------------------------------------------------------
\* What still has to be written, in the order it will be.
Pending == (IF item = << >> THEN << >> ELSE <<item>>) \o queue

Latest(k) == LET asked == {i \in 1 .. Len(Pending) : Pending[i][1] = k}
             IN  IF asked = {} THEN store[k]
                 ELSE Pending[CHOOSE i \in asked : \A j \in asked : j <= i][2]

QueueTypeOK ==
  /\ store \in [AsyncKeys -> AsyncValues] /\ last \in [AsyncKeys -> AsyncValues]
  /\ queue \in Seq(AsyncKeys \X AsyncValues) /\ Len(queue) <= MaxQueue + 1
  /\ item \in (AsyncKeys \X AsyncValues) \cup {<< >>}
  /\ thread \in {"off", "poll", "put", "end"}
  /\ caller \in {"idle", "check", "gone"}
  /\ future \in {"none", "running", "ready"}
  /\ unwritten \in SUBSET AsyncKeys
  /\ (thread # "off") <=> (future = "running")
  /\ (item # << >>) <=> (thread = "put")

\* What a key will end with, once the queue is written out, is what the caller asked for
\* last, whenever the thread stops and starts: no value is passed over, written again or
\* overtaken by an older one.  The one exception is the code's own: when the put of that
\* very value fails, the key silently keeps an older one (params.cc 242).  That the failure
\* of an older value does no harm is part of the claim.  That the queue is written out is
\* not: see ThreadTakesAll.
LastWins == \A k \in AsyncKeys \ unwritten : Latest(k) = last[k]

\* The values in the queue when a thread is running that has not seen it empty, or when a call
\* finds no thread at work, come to be put, those included that an earlier thread, which
\* was just ending, has left behind.  A value left behind with no call after it is never
\* taken, whatever assert(queue.empty()) of ~Params says (params.cc 103).
ThreadTakesAll ==
    \A e \in AsyncKeys \X AsyncValues :
        InQueue(e) /\ \/ thread \in {"poll", "put"}
                      \/ caller = "check" /\ future # "running"
          ~> item = e
=============================================================================
