----------------------------- MODULE ParamStore -----------------------------
(***************************************************************************)
(* The parameter directory (common/params.cc): one file per key, shared by *)
(* every process of the device without a server.  A put writes and syncs a *)
(* file of its own, and under the lock file renames it over the old value  *)
(* and syncs the directory; remove, clearAll and readAll take the same     *)
(* lock.  A process may be killed at any step (the manager sends SIGKILL), *)
(* and the power may be lost at any step (the car's battery).              *)
(*                                                                         *)
(* A file is a record [val, synced]; one that was not synced is torn by a  *)
(* power loss.  A rename or an unlink that was not followed by a sync of   *)
(* the directory may or may not survive one, each key on its own.          *)
(***************************************************************************)
CONSTANTS Keys,      \* the names of the parameters
          Values,    \* what a parameter may be set to
          Flagged,   \* the keys the flag given to clearAll selects
          Procs,     \* the threads that use the directory
          Absent,    \* no file
          Torn,      \* a file whose data did not reach the disk
          None       \* nobody holds the lock

ASSUME FlaggedAssumption == Flagged \subseteq Keys
ASSUME NamesAssumption   == Absent \notin Values /\ Torn \notin Values \cup {Absent}
ASSUME NoneAssumption    == None \notin Procs

VARIABLES dir,    \* dir[k]: the file a reader of k opens
          disk,   \* disk[k]: the files of k a power loss may leave
          lock,   \* who holds the lock file
          pc,     \* how far each thread is in its operation
          op,     \* which operation that is
          key,    \* the key of its put or remove
          tmp,    \* the temporary file of its put
          left,   \* the keys its clearAll or readAll has not come to
          got     \* what its readAll has read

vars == <<dir, disk, lock, pc, op, key, tmp, left, got>>
local == <<op, key, tmp, left, got>>

Files   == [val : Values \cup {Absent, Torn}, synced : BOOLEAN]
NoFile  == [val |-> Absent, synced |-> TRUE]
Nothing == [k \in Keys |-> Absent]
OnDisk(d) == [k \in Keys |-> {d[k]}]

Init == /\ dir \in [Keys -> {[val |-> v, synced |-> TRUE] : v \in Values \cup {Absent}}]
        /\ disk = OnDisk(dir)
        /\ lock = None
        /\ pc   = [p \in Procs |-> "idle"]
        /\ op   = [p \in Procs |-> "put"]
        /\ key  \in [Procs -> Keys]
        /\ tmp  = [p \in Procs |-> NoFile]
        /\ left = [p \in Procs |-> {}]
        /\ got  = [p \in Procs |-> Nothing]
-----------------------------------------------------------------------------
Goto(p, at) == pc' = [pc EXCEPT ![p] = at]

\* The operation of p is over, by itself or by a kill; what it knew is gone.
End(p) == /\ Goto(p, "idle")
          /\ tmp'  = [tmp EXCEPT ![p] = NoFile]
          /\ left' = [left EXCEPT ![p] = {}]
          /\ got'  = [got EXCEPT ![p] = Nothing]
          /\ UNCHANGED <<op, key>>

(* Fault: the value is written into the file of the key. *)
WriteTmp_InPlace(p, k, v) ==
    /\ pc[p] = "idle"
    /\ op'  = [op EXCEPT ![p] = "put"]
    /\ key' = [key EXCEPT ![p] = k]
    /\ tmp' = [tmp EXCEPT ![p] = [val |-> v, synced |-> FALSE]]
    /\ dir'  = [dir EXCEPT ![k] = tmp'[p]]
    /\ disk' = [disk EXCEPT ![k] = @ \cup {tmp'[p]}]
    /\ Goto(p, "written")
    /\ UNCHANGED <<lock, left, got>>

\* put: mkstemp and write.
WriteTmp(p, k, v) ==
    /\ pc[p] = "idle"
    /\ op'  = [op EXCEPT ![p] = "put"]
    /\ key' = [key EXCEPT ![p] = k]
    /\ tmp' = [tmp EXCEPT ![p] = [val |-> v, synced |-> FALSE]]
    /\ Goto(p, "written")
    /\ UNCHANGED <<dir, disk, lock, left, got>>

SyncTmp(p) ==
    /\ pc[p] = "written"
    /\ tmp' = [tmp EXCEPT ![p].synced = TRUE]
    /\ Goto(p, "waiting")
    /\ UNCHANGED <<dir, disk, lock, op, key, left, got>>

\* A write or a sync of the temporary file that fails: it is unlinked, and put returns.
TmpFails(p) ==
    /\ pc[p] = "written"
    /\ End(p)
    /\ UNCHANGED <<dir, disk, lock>>

\* remove, clearAll and readAll begin with the lock; o's keys still to do are ks.
Ask(p, o, k, ks) ==
    /\ pc[p] = "idle"
    /\ op'   = [op EXCEPT ![p] = o]
    /\ key'  = [key EXCEPT ![p] = k]
    /\ left' = [left EXCEPT ![p] = ks]
    /\ Goto(p, "waiting")
    /\ UNCHANGED <<dir, disk, lock, tmp, got>>

(* Fault: a put renames its file without the lock. *)
TakeLock_NotByPut(p) ==
    /\ pc[p] = "waiting"
    /\ op[p] = "put" \/ lock = None
    /\ lock' = IF op[p] = "put" THEN lock ELSE p
    /\ Goto(p, "locked")
    /\ UNCHANGED <<dir, disk>> /\ UNCHANGED local

TakeLock(p) ==
    /\ pc[p] = "waiting"
    /\ lock = None
    /\ lock' = p
    /\ Goto(p, "locked")
    /\ UNCHANGED <<dir, disk>> /\ UNCHANGED local

\* k now names file f; the disk may still have what it had.
Link(k, f) == /\ dir'  = [dir EXCEPT ![k] = f]
              /\ disk' = [disk EXCEPT ![k] = @ \cup {f}]

Rename(p) ==
    /\ pc[p] = "locked" /\ op[p] = "put"
    /\ Link(key[p], tmp[p])
    /\ Goto(p, "changed")
    /\ UNCHANGED lock /\ UNCHANGED local

Unlink(p) ==
    /\ pc[p] = "locked" /\ op[p] = "remove"
    /\ dir[key[p]] # NoFile
    /\ Link(key[p], NoFile)
    /\ Goto(p, "changed")
    /\ UNCHANGED lock /\ UNCHANGED local

ClearOne(p, k) ==
    /\ pc[p] = "locked" /\ op[p] = "clear" /\ k \in left[p]
    /\ Link(k, NoFile)
    /\ left' = [left EXCEPT ![p] = @ \ {k}]
    /\ UNCHANGED <<lock, pc, op, key, tmp, got>>

ReadOne(p, k) ==
    /\ pc[p] = "locked" /\ op[p] = "read" /\ k \in left[p]
    /\ got'  = [got EXCEPT ![p][k] = dir[k].val]
    /\ left' = [left EXCEPT ![p] = @ \ {k}]
    /\ UNCHANGED <<dir, disk, lock, pc, op, key, tmp>>

(* Fault: the rename is trusted to reach the disk by itself. *)
FsyncDir_Skipped(p) ==
    /\ \/ pc[p] = "changed"
       \/ pc[p] = "locked" /\ op[p] = "clear" /\ left[p] = {}
    /\ Goto(p, "kept")
    /\ UNCHANGED <<dir, disk, lock>> /\ UNCHANGED local

\* fsync_dir: every entry of the directory is on the disk as it is now.
FsyncDir(p) ==
    /\ \/ pc[p] = "changed"
       \/ pc[p] = "locked" /\ op[p] = "clear" /\ left[p] = {}
    /\ disk' = OnDisk(dir)
    /\ Goto(p, "kept")
    /\ UNCHANGED <<dir, lock>> /\ UNCHANGED local

\* The lock goes with its object: at the end of the operation, when the rename or the
\* unlink fails (a key that is not there), or when the sync of the directory fails.
Unlock(p) ==
    /\ \/ pc[p] \in {"changed", "kept"}
       \/ pc[p] = "locked" /\ (op[p] \in {"put", "remove"} \/ left[p] = {})
    /\ lock' = None
    /\ End(p)
    /\ UNCHANGED <<dir, disk>>

\* SIGKILL: the kernel closes the lock file; what was renamed stays renamed.
Killed(p) ==
    /\ pc[p] # "idle"
    /\ lock' = IF lock = p THEN None ELSE lock
    /\ End(p)
    /\ UNCHANGED <<dir, disk>>

AfterLoss(f) == IF f.synced THEN f ELSE [val |-> Torn, synced |-> TRUE]

\* Every key comes back as one of the files the disk may have for it.
PowerLoss ==
    /\ \E d \in [Keys -> Files] :
          /\ \A k \in Keys : d[k] \in disk[k]
          /\ dir'  = [k \in Keys |-> AfterLoss(d[k])]
          /\ disk' = OnDisk(dir')
    /\ lock' = None
    /\ pc'   = [p \in Procs |-> "idle"]
    /\ tmp'  = [p \in Procs |-> NoFile]
    /\ left' = [p \in Procs |-> {}]
    /\ got'  = [p \in Procs |-> Nothing]
    /\ UNCHANGED <<op, key>>

Operation(p) ==
    \/ \E k \in Keys, v \in Values : WriteTmp(p, k, v)
    \/ \E k \in Keys : Ask(p, "remove", k, {})
    \/ Ask(p, "clear", key[p], Flagged)
    \/ Ask(p, "read", key[p], Keys)

Step(p) ==
    \/ SyncTmp(p) \/ TmpFails(p) \/ TakeLock(p)
    \/ Rename(p) \/ Unlink(p) \/ FsyncDir(p) \/ Unlock(p)
    \/ \E k \in Keys : ClearOne(p, k) \/ ReadOne(p, k)

Next == \/ \E p \in Procs : Operation(p) \/ Step(p) \/ Killed(p)
        \/ PowerLoss

Spec == Init /\ [][Next]_vars
-----------------------------------------------------------------------------
Holding == {"locked", "changed", "kept"}
Whole   == [val : Values \cup {Absent}, synced : {TRUE}]

\* Types; and the directory names whole files only, which were synced before they were
\* renamed, so that no reader of `get`, which takes no lock, sees half a value.
TypeOK == /\ dir \in [Keys -> Whole]
          /\ disk \in [Keys -> SUBSET Whole]
          /\ lock \in Procs \cup {None}
          /\ pc \in [Procs -> {"idle", "written", "waiting"} \cup Holding]
          /\ op \in [Procs -> {"put", "remove", "clear", "read"}]
          /\ key \in [Procs -> Keys]
          /\ tmp \in [Procs -> [val : Values \cup {Absent}, synced : BOOLEAN]]
          /\ left \in [Procs -> SUBSET Keys]
          /\ got \in [Procs -> [Keys -> Values \cup {Absent}]]

\* What the operation of p promised to do, once the directory is synced.
Promise(p) == CASE op[p] = "put"    -> [k \in {key[p]} |-> tmp[p]]
                [] op[p] = "remove" -> [k \in {key[p]} |-> NoFile]
                [] op[p] = "clear"  -> [k \in Flagged  |-> NoFile]
                [] OTHER            -> [k \in {} |-> NoFile]

\* When a put, a remove or a clearAll is about to return success, the disk has what it
\* wrote and nothing else ("block=True waits until it is persisted to disk", params.py).
KeptOnDisk == \A p \in Procs : pc[p] = "kept" =>
                 \A k \in DOMAIN Promise(p) : disk[k] = {Promise(p)[k]}

\* readAll reads the files one by one and returns values that stood together: what it has
\* read so far is what the directory has now.
ReadsAtOnce == \A p \in Procs : (pc[p] = "locked" /\ op[p] = "read") =>
                  \A k \in Keys \ left[p] : got[p][k] = dir[k].val

\* Every step of a put is a stutter but one, which sets the value, and one, which settles
\* it; a kill undoes nothing, and a power loss only what was not settled.
Promised == INSTANCE AtomicParams WITH
               store <- [k \in Keys |-> dir[k].val],
               back  <- [k \in Keys |-> {f.val : f \in disk[k]}]
Atomic == Promised!Spec
=============================================================================
