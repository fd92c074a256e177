----------------------------- MODULE ParamsProofs -----------------------------
(***************************************************************************)
(* The parameter directory keeps its promises for every set of keys,       *)
(* values and threads: the invariants of ParamStore, and that it           *)
(* implements AtomicParams.  What the invariants leave out is what an      *)
(* operation knows before it ends: a put that waits for the lock has       *)
(* synced its file, a clearAll or a readAll that got the lock begins with  *)
(* all of its keys, and what it has done so far cannot be undone by        *)
(* another thread, because LockMatches keeps the others out.               *)
(*                                                                         *)
(* The second part is about putNonBlocking: what was asked last for a key  *)
(* is what the key will end with, for every length of the queue and        *)
(* however the thread stops and starts, unless the put of that very value  *)
(* fails.                                                                  *)
(***************************************************************************)
EXTENDS ParamStore, ParamQueue, SequenceTheorems, TLAPS

\* The lock is with the one thread that is inside a locked section, and with nobody when
\* there is none: also after a kill or a power loss inside it.
LockMatches == \A p \in Procs : lock = p <=> pc[p] \in Holding

\* A put has synced its file before it asks for the lock.
Ready(p) == /\ pc[p] = "written" => op[p] = "put"
            /\ (pc[p] \in {"waiting"} \cup Holding /\ op[p] = "put") => tmp[p].synced

\* clearAll and readAll get the lock with all of their keys before them.
Fresh(p) == pc[p] = "waiting" => /\ op[p] = "clear" => left[p] = Flagged
                                 /\ op[p] = "read"  => left[p] = Keys

\* What was done under the lock and is not synced yet.
Changed(p) == /\ pc[p] = "changed" =>
                    /\ op[p] \in {"put", "remove"}
                    /\ dir[key[p]] = IF op[p] = "put" THEN tmp[p] ELSE NoFile
              /\ (pc[p] = "locked" /\ op[p] = "clear") =>
                    \A k \in Flagged \ left[p] : dir[k] = NoFile

Kept(p) == pc[p] = "kept" => \A k \in DOMAIN Promise(p) : disk[k] = {Promise(p)[k]}

Reads(p) == (pc[p] = "locked" /\ op[p] = "read") =>
               \A k \in Keys \ left[p] : got[p][k] = dir[k].val

Own(p) == Ready(p) /\ Fresh(p) /\ Changed(p) /\ Kept(p) /\ Reads(p)

IInv == /\ TypeOK
        /\ LockMatches
        /\ \A p \in Procs : Own(p)
-----------------------------------------------------------------------------
LEMMA WholeFiles == /\ NoFile \in Whole
                    /\ \A f \in Whole : f \in Files /\ f.synced /\ f.val \in Values \cup {Absent}
                    /\ \A v \in Values \cup {Absent} : [val |-> v, synced |-> TRUE] \in Whole
BY DEF NoFile, Whole, Files

LEMMA InitIInv == Init => IInv
<1> SUFFICES ASSUME Init PROVE IInv
    OBVIOUS
<1> USE DEF Init
<1>1. TypeOK
  <2>1. dir \in [Keys -> Whole]
    BY WholeFiles
  <2>2. disk \in [Keys -> SUBSET Whole]
    BY <2>1 DEF OnDisk
  <2>3. tmp \in [Procs -> [val : Values \cup {Absent}, synced : BOOLEAN]]
    BY DEF NoFile
  <2> QED  BY <2>1, <2>2, <2>3 DEF TypeOK, Nothing
<1>2. LockMatches
  BY NoneAssumption DEF LockMatches, Holding
<1>3. \A p \in Procs : Own(p)
  BY DEF Own, Ready, Fresh, Changed, Kept, Reads, Holding
<1> QED  BY <1>1, <1>2, <1>3 DEF IInv

\* Two threads are never inside locked sections together.
LEMMA Alone == ASSUME LockMatches, NEW p \in Procs, NEW q \in Procs,
                      pc[p] \in Holding, pc[q] \in Holding
               PROVE  p = q
BY DEF LockMatches

LEMMA EndType == ASSUME TypeOK, NEW p \in Procs, End(p), UNCHANGED <<dir, disk>>,
                        lock' \in Procs \cup {None}
                 PROVE  TypeOK'
<1>1. tmp' \in [Procs -> [val : Values \cup {Absent}, synced : BOOLEAN]]
  BY DEF TypeOK, End, NoFile
<1>2. got' \in [Procs -> [Keys -> Values \cup {Absent}]]
  BY DEF TypeOK, End, Nothing
<1> QED  BY <1>1, <1>2 DEF TypeOK, End, Goto

LEMMA TypeStep == ASSUME IInv, [Next]_vars PROVE TypeOK'
<1> TypeOK
  BY DEF IInv
<1> USE DEF TypeOK
<1>1. CASE UNCHANGED vars
  BY <1>1 DEF vars
<1>2. ASSUME NEW p \in Procs, Operation(p) PROVE TypeOK'
  <2>1. ASSUME NEW k \in Keys, NEW v \in Values, WriteTmp(p, k, v) PROVE TypeOK'
    <3>1. [val |-> v, synced |-> FALSE] \in [val : Values \cup {Absent}, synced : BOOLEAN]
      OBVIOUS
    <3>2. tmp' \in [Procs -> [val : Values \cup {Absent}, synced : BOOLEAN]]
      BY <2>1, <3>1 DEF WriteTmp
    <3> QED  BY <2>1, <3>2 DEF WriteTmp, Goto
  <2>2. ASSUME NEW o \in {"remove", "clear", "read"}, NEW k \in Keys, NEW ks \in SUBSET Keys,
               Ask(p, o, k, ks)
        PROVE  TypeOK'
    BY <2>2 DEF Ask, Goto
  <2> QED  BY <1>2, <2>1, <2>2, FlaggedAssumption DEF Operation
<1>3. ASSUME NEW p \in Procs, Step(p) PROVE TypeOK'
  <2>1. CASE SyncTmp(p)
    <3>1. tmp' \in [Procs -> [val : Values \cup {Absent}, synced : BOOLEAN]]
      BY <2>1 DEF SyncTmp
    <3> QED  BY <2>1, <3>1 DEF SyncTmp, Goto
  <2>2. CASE TakeLock(p)
    BY <2>2 DEF TakeLock, Goto, local, Holding
  <2>3. CASE TmpFails(p) \/ Unlock(p)
    BY <2>3, EndType DEF TmpFails, Unlock
  <2>4. CASE Rename(p)
    <3>1. tmp[p] \in Whole
      BY <2>4 DEF Rename, IInv, Own, Ready, Whole, Holding
    <3> QED  BY <2>4, <3>1 DEF Rename, Link, Goto, local, Holding
  <2>5. CASE Unlink(p)
    BY <2>5, WholeFiles DEF Unlink, Link, Goto, local, Holding
  <2>6. CASE FsyncDir(p)
    BY <2>6 DEF FsyncDir, OnDisk, Goto, local, Holding
  <2>7. ASSUME NEW k \in Keys, ClearOne(p, k) PROVE TypeOK'
    BY <2>7, WholeFiles DEF ClearOne, Link
  <2>8. ASSUME NEW k \in Keys, ReadOne(p, k) PROVE TypeOK'
    <3>1. dir[k].val \in Values \cup {Absent}
      BY WholeFiles
    <3>2. got' \in [Procs -> [Keys -> Values \cup {Absent}]]
      BY <2>8, <3>1 DEF ReadOne
    <3> QED  BY <2>8, <3>2 DEF ReadOne
  <2> QED  BY <1>3, <2>1, <2>2, <2>3, <2>4, <2>5, <2>6, <2>7, <2>8 DEF Step
<1>4. ASSUME NEW p \in Procs, Killed(p) PROVE TypeOK'
  BY <1>4, EndType DEF Killed
<1>5. CASE PowerLoss
  <2>1. PICK d \in [Keys -> Files] : /\ \A k \in Keys : d[k] \in disk[k]
                                     /\ dir' = [k \in Keys |-> AfterLoss(d[k])]
                                     /\ disk' = OnDisk(dir')
    BY <1>5 DEF PowerLoss
  <2>2. \A k \in Keys : AfterLoss(d[k]) \in Whole
    <3> SUFFICES ASSUME NEW k \in Keys PROVE AfterLoss(d[k]) \in Whole
        OBVIOUS
    <3>1. d[k] \in Whole
      BY <2>1
    <3> QED  BY <3>1, WholeFiles DEF AfterLoss
  <2>3. dir' \in [Keys -> Whole] /\ disk' \in [Keys -> SUBSET Whole]
    BY <2>1, <2>2 DEF OnDisk
  <2> QED  BY <1>5, <2>3 DEF PowerLoss, NoFile, Nothing
<1> QED  BY <1>1, <1>2, <1>3, <1>4, <1>5 DEF Next
-----------------------------------------------------------------------------
\* A step of one thread leaves what another one knows alone, and the directory as well while
\* that other one is inside its locked section.
LEMMA OthersStep ==
  ASSUME IInv, NEW p \in Procs, NEW q \in Procs, p # q,
         Operation(p) \/ Step(p) \/ Killed(p)
  PROVE  /\ pc'[q] = pc[q] /\ op'[q] = op[q] /\ key'[q] = key[q]
         /\ tmp'[q] = tmp[q] /\ left'[q] = left[q] /\ got'[q] = got[q]
         /\ pc[q] \in Holding => dir' = dir /\ disk' = disk
<1> TypeOK /\ LockMatches
  BY DEF IInv
<1> USE DEF TypeOK
<1>1. pc[q] \in Holding => pc[p] \notin Holding
  BY DEF LockMatches
<1>2. CASE Operation(p)
  BY <1>2 DEF Operation, WriteTmp, Ask, Goto
<1>3. CASE SyncTmp(p) \/ TakeLock(p) \/ Rename(p) \/ Unlink(p) \/ FsyncDir(p)
  BY <1>1, <1>3 DEF SyncTmp, TakeLock, Rename, Unlink, FsyncDir, Goto, local, Holding
<1>4. CASE TmpFails(p) \/ Unlock(p) \/ Killed(p)
  BY <1>4 DEF TmpFails, Unlock, Killed, End, Goto
<1>5. CASE \E k \in Keys : ClearOne(p, k) \/ ReadOne(p, k)
  BY <1>1, <1>5 DEF ClearOne, ReadOne, Holding
<1> QED  BY <1>2, <1>3, <1>4, <1>5 DEF Step

LEMMA OthersOwn ==
  ASSUME IInv, NEW p \in Procs, NEW q \in Procs, p # q,
         Operation(p) \/ Step(p) \/ Killed(p)
  PROVE  Own(q)'
<1>1. Own(q)
  BY DEF IInv
<1>2. Ready(q)' /\ Fresh(q)'
  BY <1>1, OthersStep DEF Own, Ready, Fresh
<1>3. Changed(q)' /\ Reads(q)'
  BY <1>1, OthersStep DEF Own, Changed, Reads, Holding
<1>4. Kept(q)'
  BY <1>1, OthersStep DEF Own, Kept, Promise, Holding
<1> QED  BY <1>2, <1>3, <1>4 DEF Own

\* The steps of the thread itself.
LEMMA OwnStep ==
  ASSUME IInv, NEW p \in Procs, Operation(p) \/ Step(p) \/ Killed(p)
  PROVE  Own(p)'
<1> TypeOK /\ Own(p)
  BY DEF IInv
<1> USE DEF TypeOK, Own
<1>1. CASE Operation(p)
  <2>1. CASE \E k \in Keys, v \in Values : WriteTmp(p, k, v)
    BY <2>1 DEF WriteTmp, Goto, Ready, Fresh, Changed, Kept, Reads, Holding
  <2>2. CASE \/ \E k \in Keys : Ask(p, "remove", k, {})
             \/ Ask(p, "clear", key[p], Flagged)
             \/ Ask(p, "read", key[p], Keys)
    BY <2>2 DEF Ask, Goto, Ready, Fresh, Changed, Kept, Reads, Holding
  <2> QED  BY <1>1, <2>1, <2>2 DEF Operation
<1>2. CASE SyncTmp(p)
  <2>1. tmp'[p].synced
    BY <1>2 DEF SyncTmp
  <2> QED  BY <1>2, <2>1 DEF SyncTmp, Goto, Ready, Fresh, Changed, Kept, Reads, Holding
<1>3. CASE TakeLock(p)
  BY <1>3 DEF TakeLock, Goto, local, Ready, Fresh, Changed, Kept, Reads, Holding
<1>4. CASE TmpFails(p) \/ Unlock(p) \/ Killed(p)
  BY <1>4 DEF TmpFails, Unlock, Killed, End, Goto, Ready, Fresh, Changed, Kept, Reads, Holding
<1>5. CASE Rename(p) \/ Unlink(p)
  BY <1>5 DEF Rename, Unlink, Link, Goto, local, Ready, Fresh, Changed, Kept, Reads, Holding
<1>6. CASE FsyncDir(p)
  <2>1. \A k \in DOMAIN Promise(p) : k \in Keys /\ dir[k] = Promise(p)[k]
    BY <1>6, FlaggedAssumption DEF FsyncDir, Changed, Promise
  <2>2. Kept(p)'
    BY <1>6, <2>1 DEF FsyncDir, Kept, OnDisk, Promise, local
  <2> QED  BY <1>6, <2>2 DEF FsyncDir, Goto, local, Ready, Fresh, Changed, Reads, Holding
<1>7. ASSUME NEW k \in Keys, ClearOne(p, k) PROVE Own(p)'
  BY <1>7, FlaggedAssumption DEF ClearOne, Link, Ready, Fresh, Changed, Kept, Reads, Holding
<1>8. ASSUME NEW k \in Keys, ReadOne(p, k) PROVE Own(p)'
  BY <1>8 DEF ReadOne, Ready, Fresh, Changed, Kept, Reads, Holding
<1> QED  BY <1>1, <1>2, <1>3, <1>4, <1>5, <1>6, <1>7, <1>8 DEF Step

LEMMA LockStep ==
  ASSUME IInv, NEW p \in Procs, Operation(p) \/ Step(p) \/ Killed(p)
  PROVE  LockMatches'
<1> TypeOK /\ LockMatches
  BY DEF IInv
<1> USE NoneAssumption DEF TypeOK, LockMatches
<1>1. CASE Operation(p)
  BY <1>1 DEF Operation, WriteTmp, Ask, Goto, Holding
<1>2. CASE SyncTmp(p) \/ TakeLock(p) \/ Rename(p) \/ Unlink(p) \/ FsyncDir(p)
  BY <1>2 DEF SyncTmp, TakeLock, Rename, Unlink, FsyncDir, Goto, Holding
<1>3. CASE TmpFails(p) \/ Unlock(p) \/ Killed(p)
  <2>1. CASE TmpFails(p)
    BY <2>1 DEF TmpFails, End, Goto, Holding
  <2>2. CASE Unlock(p)
    BY <2>2 DEF Unlock, End, Goto, Holding
  <2>3. CASE Killed(p)
    BY <2>3 DEF Killed, End, Goto, Holding
  <2> QED  BY <1>3, <2>1, <2>2, <2>3
<1>4. CASE \E k \in Keys : ClearOne(p, k) \/ ReadOne(p, k)
  BY <1>4 DEF ClearOne, ReadOne
<1> QED  BY <1>1, <1>2, <1>3, <1>4 DEF Step

LEMMA IInvStep == IInv /\ [Next]_vars => IInv'
<1> SUFFICES ASSUME IInv, [Next]_vars PROVE IInv'
    OBVIOUS
<1>1. TypeOK'
  BY TypeStep
<1>2. CASE UNCHANGED vars
  <2>1. LockMatches'
    BY <1>2 DEF vars, IInv, LockMatches
  <2>2. ASSUME NEW p \in Procs PROVE Own(p)'
    <3>1. Own(p) /\ Promise(p)' = Promise(p)
      BY <1>2 DEF vars, IInv, Promise
    <3> QED  BY <1>2, <3>1 DEF vars, Own, Ready, Fresh, Changed, Kept, Reads
  <2> QED  BY <1>1, <2>1, <2>2 DEF IInv
<1>3. ASSUME NEW p \in Procs, Operation(p) \/ Step(p) \/ Killed(p) PROVE IInv'
  BY <1>1, <1>3, LockStep, OwnStep, OthersOwn DEF IInv
<1>4. CASE PowerLoss
  BY <1>1, <1>4, NoneAssumption
     DEF PowerLoss, IInv, LockMatches, Own, Ready, Fresh, Changed, Kept, Reads, Holding
<1> QED  BY <1>2, <1>3, <1>4 DEF Next
-----------------------------------------------------------------------------
\* The invariant above holds in every state of the directory.
THEOREM Invariant == Spec => []IInv
<1>1. Init => IInv
  BY InitIInv
<1> QED  BY <1>1, IInvStep, PTL DEF Spec

\* params.cc 132-169: whatever is read under any name is a whole value that was synced.
THEOREM TypeCorrect == Spec => []TypeOK
<1>1. IInv => TypeOK
  BY DEF IInv
<1> QED  BY <1>1, Invariant, PTL

\* params.cc 77-91: one thread at a time is inside a locked section, and a thread that died
\* there does not keep the others out.
THEOREM Exclusion == Spec => []LockMatches
<1>1. IInv => LockMatches
  BY DEF IInv
<1> QED  BY <1>1, Invariant, PTL

\* params.py 173, params.cc 155-161: what returned is on the disk.
THEOREM Durability == Spec => []KeptOnDisk
<1>1. IInv => KeptOnDisk
  BY DEF IInv, Own, Kept, KeptOnDisk
<1> QED  BY <1>1, Invariant, PTL

\* params.cc 203-206: readAll returns values that stood together.
THEOREM Snapshots == Spec => []ReadsAtOnce
<1>1. IInv => ReadsAtOnce
  BY DEF IInv, Own, Reads, ReadsAtOnce
<1> QED  BY <1>1, Invariant, PTL
-----------------------------------------------------------------------------
\* The directory implements the promise.
LEMMA InitRefines == Init => Promised!Init
<1> SUFFICES ASSUME Init PROVE Promised!Init
    OBVIOUS
<1>1. \A k \in Keys : dir[k] \in Whole /\ disk[k] = {dir[k]}
  <2>1. TypeOK /\ disk = OnDisk(dir)
    BY InitIInv DEF IInv, Init
  <2> QED  BY <2>1 DEF TypeOK, OnDisk
<1> QED  BY <1>1, WholeFiles DEF Promised!Init, Promised!Kept, Promised!Stored

\* Linking a whole file to a key is a Set of the promise.
LEMMA LinkSets ==
  ASSUME IInv, NEW k \in Keys, NEW f \in Whole, Link(k, f)
  PROVE  Promised!Next
<1>1. \A i \in Keys : /\ dir'[i].val = IF i = k THEN f.val ELSE dir[i].val
                      /\ disk'[i] = IF i = k THEN disk[i] \cup {f} ELSE disk[i]
  BY DEF Link, IInv, TypeOK
<1>2. Promised!Set(k, f.val)
  BY <1>1, ZenonT(40) DEF Promised!Set
<1> QED  BY <1>2, WholeFiles DEF Promised!Next, Promised!Stored

LEMMA StepRefines == ASSUME IInv, [Next]_vars PROVE [Promised!Next]_(Promised!vars)
<1> TypeOK
  BY DEF IInv
<1>1. CASE UNCHANGED <<dir, disk>>
  BY <1>1 DEF Promised!vars
<1>2. ASSUME NEW p \in Procs, Rename(p) PROVE Promised!Next
  <2>1. tmp[p] \in Whole /\ key[p] \in Keys
    BY <1>2 DEF Rename, IInv, TypeOK, Own, Ready, Whole, Holding
  <2> QED  BY <1>2, <2>1, LinkSets DEF Rename
<1>3. ASSUME NEW p \in Procs, Unlink(p) PROVE Promised!Next
  BY <1>3, WholeFiles, LinkSets DEF Unlink, TypeOK
<1>4. ASSUME NEW p \in Procs, NEW k \in Keys, ClearOne(p, k) PROVE Promised!Next
  BY <1>4, WholeFiles, LinkSets DEF ClearOne
<1>5. ASSUME NEW p \in Procs, FsyncDir(p) PROVE Promised!Next
  <2>1. Promised!Settle
    BY <1>5 DEF FsyncDir, OnDisk, Promised!Settle, Promised!Kept
  <2> QED  BY <2>1 DEF Promised!Next
<1>6. CASE PowerLoss
  <2>1. PICK d \in [Keys -> Files] : /\ \A k \in Keys : d[k] \in disk[k]
                                     /\ dir' = [k \in Keys |-> AfterLoss(d[k])]
                                     /\ disk' = OnDisk(dir')
    BY <1>6 DEF PowerLoss
  <2>2. \A k \in Keys : d[k] \in Whole /\ dir'[k] = d[k] /\ disk'[k] = {d[k]}
    BY <2>1, WholeFiles DEF AfterLoss, OnDisk, TypeOK
  <2> DEFINE s == [k \in Keys |-> d[k].val]
  <2>3. s \in [Keys -> Promised!Stored] /\ \A k \in Keys : s[k] \in {f.val : f \in disk[k]}
    BY <2>1, <2>2, WholeFiles DEF Promised!Stored
  <2>4. [k \in Keys |-> dir'[k].val] = s
    BY <2>2
  <2>5. [k \in Keys |-> {f.val : f \in disk'[k]}] = Promised!Kept(s)
    <3>1. \A k \in Keys : {f.val : f \in disk'[k]} = {s[k]}
      BY <2>2
    <3> QED  BY <3>1 DEF Promised!Kept
  <2>6. Promised!PowerLoss
    BY <2>3, <2>4, <2>5 DEF Promised!PowerLoss
  <2> QED  BY <2>6 DEF Promised!Next
<1>7. ASSUME NEW p \in Procs, Step(p) \/ Operation(p) \/ Killed(p)
      PROVE  UNCHANGED <<dir, disk>> \/ Promised!Next
  BY <1>2, <1>3, <1>4, <1>5, <1>7
     DEF Step, Operation, WriteTmp, Ask, SyncTmp, TmpFails, TakeLock, Unlock, Killed, ReadOne
<1> QED  BY <1>1, <1>6, <1>7 DEF Next, vars

\* params.cc: every behaviour of the directory, with its kills and power losses, is one of
\* AtomicParams.
THEOREM Implements == Spec => Atomic
<1>1. Init => Promised!Init
  BY InitRefines
<1>2. IInv /\ [Next]_vars => [Promised!Next]_(Promised!vars)
  BY StepRefines
<1> QED  BY <1>1, <1>2, Invariant, PTL DEF Spec, Atomic, Promised!Spec
-----------------------------------------------------------------------------
\* putNonBlocking: the queue and its thread.

Items == AsyncKeys \X AsyncValues

\* What was asked last for a key is the last of its values on the way, or in the directory
\* when none is on the way; of the keys that have not lost it in a failed put.
LastOnTheWay(k, i) == /\ Pending[i][1] = k /\ Pending[i][2] = last[k]
                      /\ \A j \in 1 .. Len(Pending) : j > i => Pending[j][1] # k
Settled(k) == \/ \E i \in 1 .. Len(Pending) : LastOnTheWay(k, i)
              \/ store[k] = last[k] /\ \A i \in 1 .. Len(Pending) : Pending[i][1] # k

QueueInv == QueueTypeOK /\ \A k \in AsyncKeys \ unwritten : Settled(k)
-----------------------------------------------------------------------------
\* The value in hand comes before those in the queue.
LEMMA InHandFirst ==
  ASSUME NEW q \in Seq(Items), NEW p \in Items
  PROVE  /\ <<p>> \o q \in Seq(Items) /\ Len(<<p>> \o q) = Len(q) + 1 /\ (<<p>> \o q)[1] = p
         /\ \A i \in 1 .. Len(q) : (<<p>> \o q)[i + 1] = q[i]
         /\ Len(q) \in Nat
<1>1. <<p>> \in Seq(Items) /\ Len(<<p>>) = 1 /\ <<p>>[1] = p
  OBVIOUS
<1> QED
  BY <1>1, ConcatProperties, LenProperties

LEMMA AppendOfConcat ==
  ASSUME NEW s \in Seq(Items), NEW q \in Seq(Items), NEW e \in Items
  PROVE  s \o Append(q, e) = Append(s \o q, e)
<1>1. s \o q \in Seq(Items) /\ <<e>> \in Seq(Items)
  BY ConcatProperties
<1>2. s \o (q \o <<e>>) = (s \o q) \o <<e>>
  BY <1>1, ConcatAssociative
<1>3. Append(q, e) = q \o <<e>> /\ Append(s \o q, e) = (s \o q) \o <<e>>
  BY <1>1, AppendIsConcat
<1> QED
  BY <1>2, <1>3

LEMMA HeadAndTail ==
  ASSUME NEW q \in Seq(Items), q # << >>
  PROVE  q = <<Head(q)>> \o Tail(q)
<1>1. /\ Len(q) \in Nat \ {0} /\ Head(q) = q[1] /\ Head(q) \in Items /\ Tail(q) \in Seq(Items)
      /\ Len(Tail(q)) = Len(q) - 1 /\ \A i \in 1 .. Len(q) - 1 : Tail(q)[i] = q[i + 1]
  BY HeadTailProperties, EmptySeq
<1>2. /\ <<Head(q)>> \o Tail(q) \in Seq(Items) /\ Len(<<Head(q)>> \o Tail(q)) = Len(q)
      /\ (<<Head(q)>> \o Tail(q))[1] = q[1]
      /\ \A i \in 1 .. Len(q) - 1 : (<<Head(q)>> \o Tail(q))[i + 1] = q[i + 1]
  BY <1>1, InHandFirst
<1>3. \A i \in 1 .. Len(q) : (<<Head(q)>> \o Tail(q))[i] = q[i]
  <2>1. \A i \in 1 .. Len(q) : i = 1 \/ (i - 1 \in 1 .. Len(q) - 1 /\ (i - 1) + 1 = i)
    BY <1>1
  <2> QED
    BY <1>2, <2>1
<1> QED
  BY <1>2, <1>3, SeqEqual

LEMMA PendingOfItem ==
  ASSUME QueueTypeOK
  PROVE  /\ queue \in Seq(Items) /\ Pending \in Seq(Items)
         /\ item = << >> => Pending = queue
         /\ item # << >> => item \in Items /\ Pending = <<item>> \o queue
<1>1. queue \in Seq(Items) /\ (item # << >> => item \in Items)
  BY DEF QueueTypeOK, Items
<1>2. item = << >> => Pending = queue
  BY <1>1, ConcatEmptySeq DEF Pending
<1>3. item # << >> => Pending = <<item>> \o queue
  BY DEF Pending
<1> QED
  BY <1>1, <1>2, <1>3, InHandFirst

\* The last value that was asked for is the one CHOOSE finds.
LEMMA SettledIsLatest ==
  ASSUME QueueTypeOK, NEW k \in AsyncKeys, Settled(k)
  PROVE  Latest(k) = last[k]
<1>1. Len(Pending) \in Nat
  BY PendingOfItem, LenProperties
<1> DEFINE asked == {i \in 1 .. Len(Pending) : Pending[i][1] = k}
<1>2. CASE asked = {}
  BY <1>2 DEF Settled, LastOnTheWay, Latest
<1>3. CASE asked # {}
  <2>1. PICK i \in asked : LastOnTheWay(k, i)
    BY <1>3 DEF Settled, LastOnTheWay
  <2>2. \A j \in asked : j <= i
    BY <1>1, <2>1 DEF LastOnTheWay
  <2>3. \A m \in asked : (\A j \in asked : j <= m) => m = i
    BY <1>1, <2>2
  <2>4. (CHOOSE m \in asked : \A j \in asked : j <= m) = i
    BY <2>1, <2>2, <2>3
  <2> QED
    BY <1>3, <2>1, <2>4 DEF Latest, LastOnTheWay
<1> QED
  BY <1>2, <1>3

LEMMA InitKeeps == QueueInit => QueueInv
<1> SUFFICES ASSUME QueueInit PROVE QueueInv
    OBVIOUS
<1>1. QueueTypeOK
  BY MaxQueueAssumption DEF QueueInit, QueueTypeOK
<1>2. Pending = << >>
  BY <1>1, PendingOfItem DEF QueueInit
<1>3. \A k \in AsyncKeys : Settled(k)
  BY <1>2 DEF QueueInit, Settled
<1> QED
  BY <1>1, <1>3 DEF QueueInv

\* putNonBlocking: the new value is the last of its key.
LEMMA PushKeeps ==
  ASSUME QueueInv, NEW k \in AsyncKeys, NEW v \in AsyncValues, Push(k, v)
  PROVE  QueueInv'
<1>1. queue \in Seq(Items) /\ <<k, v>> \in Items /\ queue' = Append(queue, <<k, v>>) /\ item' = item
  BY DEF QueueInv, QueueTypeOK, Push, Items
<1>2. /\ queue' \in Seq(Items) /\ Len(queue') = Len(queue) + 1 /\ Len(queue) \in Nat
      /\ queue'[Len(queue) + 1] = <<k, v>> /\ \A i \in 1 .. Len(queue) : queue'[i] = queue[i]
  BY <1>1, AppendProperties, LenProperties
<1>3. QueueTypeOK'
  <2>1. Len(queue') <= MaxQueue + 1
    BY <1>2, MaxQueueAssumption DEF Push, Room
  <2>2. last' \in [AsyncKeys -> AsyncValues]
    BY DEF Push, QueueInv, QueueTypeOK
  <2> QED
    BY <1>1, <1>2, <2>1, <2>2 DEF QueueInv, QueueTypeOK, Push, Items
<1>4. /\ Len(Pending) \in Nat /\ Len(Pending') = Len(Pending) + 1
      /\ Pending'[Len(Pending) + 1] = <<k, v>>
      /\ \A i \in 1 .. Len(Pending) : Pending'[i] = Pending[i]
  <2>1. Pending \in Seq(Items)
    BY PendingOfItem DEF QueueInv
  <2>2. Pending' = Append(Pending, <<k, v>>)
    <3>1. CASE item = << >>
      <4>1. Pending' = << >> \o queue'
        BY <1>1, <3>1 DEF Pending
      <4>2. Pending' = queue'
        BY <1>2, <4>1, ConcatEmptySeq
      <4> QED
        BY <1>1, <3>1, <4>2, PendingOfItem DEF QueueInv
    <3>2. CASE item # << >>
      <4>1. Pending' = <<item>> \o Append(queue, <<k, v>>) /\ Pending = <<item>> \o queue
        BY <1>1, <3>2 DEF Pending
      <4>2. <<item>> \in Seq(Items)
        BY <3>2, PendingOfItem DEF QueueInv
      <4> QED
        BY <1>1, <4>1, <4>2, AppendOfConcat
    <3> QED
      BY <3>1, <3>2
  <2> QED
    BY <1>1, <2>1, <2>2, AppendProperties, LenProperties
<1>5. ASSUME NEW x \in AsyncKeys \ unwritten' PROVE Settled(x)'
  <2>1. last' = [last EXCEPT ![k] = v] /\ last \in [AsyncKeys -> AsyncValues] /\ store' = store
    BY DEF Push, QueueInv, QueueTypeOK
  <2>2. CASE x = k
    <3>1. last'[x] = v /\ Len(Pending') \in 1 .. Len(Pending')
      BY <1>4, <2>1, <2>2
    <3>2. Pending'[Len(Pending')][1] = x /\ Pending'[Len(Pending')][2] = last'[x]
      BY <1>4, <2>2, <3>1
    <3> QED
      BY <1>4, <3>1, <3>2 DEF Settled, LastOnTheWay
  <2>3. CASE x # k
    <3>1. last'[x] = last[x] /\ Settled(x)
      BY <1>5, <2>1, <2>3 DEF QueueInv, Push
    <3>2. CASE store[x] = last[x] /\ \A i \in 1 .. Len(Pending) : Pending[i][1] # x
      BY <1>4, <2>1, <2>3, <3>1, <3>2 DEF Settled
    <3>3. ASSUME NEW i \in 1 .. Len(Pending), LastOnTheWay(x, i) PROVE Settled(x)'
      <4>1. i \in 1 .. Len(Pending') /\ Pending'[i] = Pending[i]
        BY <1>4
      <4>2. \A j \in 1 .. Len(Pending') : j \in 1 .. Len(Pending) \/ Pending'[j][1] = k
        BY <1>4
      <4>3. \A j \in 1 .. Len(Pending') : j > i => Pending'[j][1] # x
        BY <1>4, <2>3, <3>3, <4>2 DEF LastOnTheWay
      <4>4. Pending'[i][1] = x /\ Pending'[i][2] = last'[x]
        BY <3>1, <3>3, <4>1 DEF LastOnTheWay
      <4> QED
        BY <4>1, <4>3, <4>4 DEF Settled, LastOnTheWay
    <3> QED
      BY <3>1, <3>2, <3>3 DEF Settled
  <2> QED
    BY <2>2, <2>3
<1> QED
  BY <1>3, <1>5 DEF QueueInv

\* The thread takes the oldest value.
LEMMA PopKeeps ==
  ASSUME QueueInv, Pop PROVE QueueInv'
<1>1. queue \in Seq(Items) /\ queue # << >> /\ item' = Head(queue) /\ queue' = Tail(queue) /\ item = << >>
  BY DEF QueueInv, QueueTypeOK, Pop, Items
<1>2. /\ Len(queue) \in Nat \ {0} /\ Head(queue) = queue[1] /\ Head(queue) \in Items /\ Head(queue) # << >>
      /\ queue' \in Seq(Items) /\ Len(queue') = Len(queue) - 1
      /\ \A i \in 1 .. Len(queue) - 1 : queue'[i] = queue[i + 1]
  <2>1. Len(queue) \in Nat \ {0} /\ Head(queue) = queue[1] /\ Head(queue) \in Items
    BY <1>1, HeadTailProperties, EmptySeq
  <2>2. Head(queue) # << >>
    BY <2>1 DEF Items
  <2> QED
    BY <1>1, <2>1, <2>2, HeadTailProperties
<1>3. QueueTypeOK'
  <2>1. Len(queue') <= MaxQueue + 1
    BY <1>2, MaxQueueAssumption DEF QueueInv, QueueTypeOK
  <2> QED
    BY <1>1, <1>2, <2>1 DEF QueueInv, QueueTypeOK, Pop, Items
<1>4. Pending' = Pending
  <2>1. Pending = queue
    BY <1>1, PendingOfItem DEF QueueInv
  <2>2. Pending' = <<Head(queue)>> \o Tail(queue)
    BY <1>1, <1>2 DEF Pending
  <2>3. queue = <<Head(queue)>> \o Tail(queue)
    BY <1>1, <1>2, HeadAndTail
  <2> QED
    BY <2>1, <2>2, <2>3
<1>5. \A k \in AsyncKeys \ unwritten' : Settled(k)'
  BY <1>4 DEF QueueInv, Pop, Settled, LastOnTheWay
<1> QED
  BY <1>3, <1>5 DEF QueueInv

\* A value that is put leaves the way to the directory.  When its put fails, a later value of
\* its key is still on the way, or the key is one of those that lost theirs.
LEMMA PutKeeps ==
  ASSUME QueueInv, Put PROVE QueueInv'
<1>1. /\ queue \in Seq(Items) /\ item \in Items /\ item # << >> /\ item' = << >> /\ queue' = queue
      /\ last' = last
  BY DEF QueueInv, QueueTypeOK, Put, Items
<1>2. QueueTypeOK'
  BY <1>1 DEF QueueInv, QueueTypeOK, Put, Items
<1>3. /\ Len(Pending) = Len(Pending') + 1 /\ Pending[1] = item /\ Len(Pending') \in Nat
      /\ Pending' = queue /\ \A i \in 1 .. Len(Pending') : Pending[i + 1] = Pending'[i]
  <2>1. Pending' = queue
    BY <1>1, ConcatEmptySeq DEF Pending
  <2>2. Pending = <<item>> \o queue
    BY <1>1, PendingOfItem DEF QueueInv
  <2> QED
    BY <1>1, <2>1, <2>2, InHandFirst
<1>4. ASSUME NEW k \in AsyncKeys \ unwritten' PROVE Settled(k)'
  <2>0. Settled(k)
    BY <1>4 DEF QueueInv, Put
  <2>1. CASE \E i \in 1 .. Len(Pending) : LastOnTheWay(k, i)
    <3>1. PICK i \in 1 .. Len(Pending) : LastOnTheWay(k, i)
      BY <2>1
    <3>2. CASE i = 1
      <4>1. item[1] = k /\ item[2] = last[k]
        BY <1>3, <3>1, <3>2 DEF LastOnTheWay
      <4>2. \A j \in 1 .. Len(Pending') : Pending'[j][1] # k
        BY <1>3, <3>1, <3>2 DEF LastOnTheWay
      <4>3. \A v \in AsyncValues : ~ InQueue(<<k, v>>)
        BY <1>3, <4>2 DEF InQueue
      <4>4. store' = [store EXCEPT ![item[1]] = item[2]]
        BY <1>4, <4>1, <4>3 DEF Put
      <4>5. store'[k] = last'[k]
        BY <1>1, <4>1, <4>4 DEF QueueInv, QueueTypeOK
      <4> QED
        BY <4>2, <4>5 DEF Settled
    <3>3. CASE i # 1
      <4>1. i - 1 \in 1 .. Len(Pending') /\ Pending'[i - 1] = Pending[i]
        BY <1>3, <3>3
      <4>2. \A j \in 1 .. Len(Pending') : j > i - 1 => Pending'[j][1] # k
        BY <1>3, <3>1 DEF LastOnTheWay
      <4> QED
        BY <1>1, <3>1, <4>1, <4>2 DEF Settled, LastOnTheWay
    <3> QED
      BY <3>2, <3>3
  <2>2. CASE store[k] = last[k] /\ \A i \in 1 .. Len(Pending) : Pending[i][1] # k
    <3>1. store'[k] = store[k]
      BY <1>1, <1>3, <2>2 DEF QueueInv, QueueTypeOK, Put
    <3> QED
      BY <1>1, <1>3, <2>2, <3>1 DEF Settled
  <2> QED
    BY <2>0, <2>1, <2>2 DEF Settled
<1> QED
  BY <1>2, <1>4 DEF QueueInv

\* What starts and ends the thread leaves the values alone.
LEMMA OthersKeep ==
  ASSUME QueueInv, CheckFuture \/ SeeEmpty \/ Return \/ Destroy \/ UNCHANGED queueVars
  PROVE  QueueInv'
<1>1. UNCHANGED <<store, queue, item, last, unwritten>>
  BY DEF CheckFuture, SeeEmpty, Return, Destroy, queueVars
<1>2. QueueTypeOK'
  BY <1>1 DEF QueueInv, QueueTypeOK, CheckFuture, SeeEmpty, Return, Destroy, queueVars
<1>3. Pending' = Pending
  BY <1>1 DEF Pending
<1> QED
  BY <1>1, <1>2, <1>3 DEF QueueInv, Settled, LastOnTheWay

LEMMA QueueKeeps == QueueSpec => []QueueInv
<1>1. QueueInv /\ [QueueNext]_queueVars => QueueInv'
  BY PushKeeps, PopKeeps, PutKeeps, OthersKeep DEF QueueNext, Call, WriteThread
<1> QED
  BY <1>1, InitKeeps, PTL DEF QueueSpec

\* Types; a thread runs as long as its future is not ready.
THEOREM QueueTypeCorrect == QueueSpec => []QueueTypeOK
<1>1. QueueInv => QueueTypeOK
  BY DEF QueueInv
<1> QED
  BY <1>1, QueueKeeps, PTL

\* A key of putNonBlocking ends with the value that was asked for last, for any number of keys
\* and values, whenever the thread stops and starts and whichever older values fail; only
\* the failure of the last one itself leaves an older value (params.cc:229-244, queue.h:28-36).
THEOREM LastAskedWins == QueueSpec => []LastWins
<1>1. QueueInv => LastWins
  BY SettledIsLatest DEF QueueInv, LastWins
<1> QED
  BY <1>1, QueueKeeps, PTL
-----------------------------------------------------------------------------
\* How many steps the value at place i of the queue is from the hands of the thread: two
\* for every value before it, and what the thread has still to do before it looks at the
\* queue.  One that is just ending looks only after a call has started it again.
StepsToHand(i) == 2 * i + CASE thread = "poll" -> 0
                            [] thread = "put"  -> 1
                            [] thread = "end"  -> 4
                            [] thread = "off"  -> IF caller = "check" THEN 2 ELSE 3

\* The steps that bring it nearer: those of the thread, and while there is none, those of
\* a call of putNonBlocking.
Drives == WriteThread \/ (thread = "off" /\ (Call \/ CheckFuture))

NearerAt(i, j) == /\ queue'[j] = queue[i]
                  /\ StepsToHand(j)' <= StepsToHand(i)
                  /\ Drives => StepsToHand(j)' < StepsToHand(i)

ComesToHand == \A i \in 1 .. Len(queue) :
                 \/ i = 1 /\ item' = queue[1]
                 \/ \E j \in 1 .. Len(queue') : j <= i /\ NearerAt(i, j)

LEMMA TakenComesToHand ==
  ASSUME QueueTypeOK, Pop PROVE ComesToHand
<1>1. /\ queue \in Seq(Items) /\ queue # << >> /\ item' = Head(queue) /\ queue' = Tail(queue)
      /\ thread = "poll" /\ thread' = "put"
  BY DEF QueueTypeOK, Pop, Items
<1>2. /\ Len(queue) \in Nat \ {0} /\ Head(queue) = queue[1]
      /\ Len(queue') = Len(queue) - 1 /\ \A j \in 1 .. Len(queue) - 1 : queue'[j] = queue[j + 1]
  BY <1>1, HeadTailProperties, EmptySeq
<1>3. ASSUME NEW i \in 1 .. Len(queue), i # 1
      PROVE  \E j \in 1 .. Len(queue') : j <= i /\ NearerAt(i, j)
  <2>1. i - 1 \in 1 .. Len(queue') /\ i - 1 <= i /\ queue'[i - 1] = queue[i]
    BY <1>2, <1>3
  <2>2. StepsToHand(i) = 2 * i /\ StepsToHand(i - 1)' = 2 * (i - 1) + 1
    BY <1>1 DEF StepsToHand
  <2>3. NearerAt(i, i - 1)
    BY <1>2, <2>1, <2>2 DEF NearerAt
  <2> QED
    BY <2>1, <2>3
<1> QED
  BY <1>1, <1>2, <1>3 DEF ComesToHand

LEMMA OthersComeToHand ==
  ASSUME QueueTypeOK, Call \/ CheckFuture \/ Put \/ SeeEmpty \/ Return \/ Destroy
  PROVE  ComesToHand
<1>1. queue \in Seq(Items) /\ Len(queue) \in Nat
  BY LenProperties DEF QueueTypeOK, Items
<1>2. Len(queue) <= Len(queue') /\ Len(queue') \in Nat /\ \A i \in 1 .. Len(queue) : queue'[i] = queue[i]
  <2>1. CASE Call
    <3>1. PICK e \in Items : queue' = Append(queue, e)
      BY <2>1 DEF Call, Push, Items
    <3> QED
      BY <1>1, <3>1, AppendProperties
  <2>2. CASE CheckFuture \/ Put \/ SeeEmpty \/ Return \/ Destroy
    <3>1. queue' = queue
      BY <2>2 DEF CheckFuture, Put, SeeEmpty, Return, Destroy
    <3> QED
      BY <1>1, <3>1
  <2> QED
    BY <2>1, <2>2
<1>3. ASSUME NEW i \in 1 .. Len(queue)
      PROVE  /\ StepsToHand(i)' <= StepsToHand(i)
             /\ Drives => StepsToHand(i)' < StepsToHand(i)
  <2>0. i \in Nat /\ thread \in {"off", "poll", "put", "end"} /\ queue # << >>
    BY <1>1, <1>3, EmptySeq DEF QueueTypeOK
  <2> USE DEF StepsToHand, Drives, WriteThread, Call, Push, CheckFuture, Pop, Put, SeeEmpty, Return
  <2>1. CASE Call
    BY <2>0, <2>1
  <2>2. CASE CheckFuture
    <3>1. (thread = "off") <=> (future # "running")
      BY DEF QueueTypeOK
    <3> QED
      BY <2>0, <2>2, <3>1
  <2>3. CASE Put
    BY <2>0, <2>3
  <2>4. CASE SeeEmpty
    BY <2>0, <2>4
  <2>5. CASE Return
    BY <2>0, <2>5
  <2>6. CASE Destroy
    <3>1. thread = "off" /\ thread' = "off" /\ caller = "idle" /\ caller' = "gone" /\ queue' = queue
      BY <2>6 DEF Destroy, QueueTypeOK
    <3> QED
      BY <2>0, <3>1
  <2> QED
    BY <2>1, <2>2, <2>3, <2>4, <2>5, <2>6
<1>4. ASSUME NEW i \in 1 .. Len(queue)
      PROVE  \E j \in 1 .. Len(queue') : j <= i /\ NearerAt(i, j)
  <2>1. i \in 1 .. Len(queue') /\ i <= i
    BY <1>1, <1>2, <1>4
  <2>2. NearerAt(i, i)
    BY <1>2, <1>3, <1>4 DEF NearerAt
  <2> QED
    BY <2>1, <2>2
<1> QED
  BY <1>4 DEF ComesToHand

\* The progress half of ThreadTakesAll: no step of the thread, of a call or of the
\* destructor pushes a queued value back, no value is passed by, and every step that
\* drives the queue brings it nearer to the thread.  A value left behind by a thread that
\* was just ending waits at its place for the next call, and for ever when there is none
\* (params.cc:229-244, queue.h:28-36).
THEOREM ValuesComeToHand ==
  QueueSpec => /\ [](\A i \in 1 .. Len(queue) : StepsToHand(i) \in 1 .. 2 * MaxQueue + 6)
               /\ [][ComesToHand]_queueVars
<1>1. QueueTypeOK => \A i \in 1 .. Len(queue) : StepsToHand(i) \in 1 .. 2 * MaxQueue + 6
  <2> SUFFICES ASSUME QueueTypeOK, NEW i \in 1 .. Len(queue)
               PROVE  StepsToHand(i) \in 1 .. 2 * MaxQueue + 6
    OBVIOUS
  <2>1. Len(queue) \in Nat
    BY LenProperties DEF QueueTypeOK
  <2>2. i \in 1 .. MaxQueue + 1 /\ thread \in {"off", "poll", "put", "end"}
    BY <2>1, MaxQueueAssumption DEF QueueTypeOK
  <2> QED
    BY <2>2, MaxQueueAssumption DEF StepsToHand
<1>2. QueueTypeOK /\ [QueueNext]_queueVars => [ComesToHand]_queueVars
  BY TakenComesToHand, OthersComeToHand DEF QueueNext, WriteThread
<1> QED
  BY <1>1, <1>2, QueueTypeCorrect, PTL DEF QueueSpec
=============================================================================
