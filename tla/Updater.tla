-------------------------------- MODULE Updater --------------------------------
(***************************************************************************)
(* How a new version comes onto the device: updated prepares it in an      *)
(* overlay, copies it aside and marks the copy as consistent               *)
(* (system/updated/updated.py); at the next boot the launcher swaps the    *)
(* copy in (launch_chffrplus.sh).  updated runs while the car is off and   *)
(* is stopped at any step; the power may go at any step of both.           *)
(*                                                                         *)
(* What is on the disk is fs.  The file system keeps the order of renames  *)
(* and unlinks but may lose the last ones before a sync, and the contents  *)
(* of files written since: past holds the states it may come back with.    *)
(***************************************************************************)
EXTENDS Naturals

CONSTANTS
  MaxVersion,   \* bound on the versions the branch gets
  MaxEdits,     \* bound on the local commits
  OsOf          \* the version of AGNOS that a version of openpilot accepts

Versions == 1..MaxVersion

ASSUME UpdaterConstants ==
  /\ MaxVersion \in Nat \ {0}
  /\ MaxEdits \in Nat
  /\ OsOf \in [Versions -> Nat \ {0}]

VARIABLES
  fs,       \* the files: see FileSystem
  past,     \* the states a power loss may leave
  deps,     \* the versions whose Python packages are installed (pydeps.py)
  os,       \* the version of AGNOS that runs
  head,     \* the head of the branch, at the server
  phase,    \* the launcher: "launch", "half" between its two mv, "running" manager
  pc,       \* where updated is, "off" when it does not run
  merged    \* OVERLAY_MERGED: its version, 0 when mixed; and the BASEDIR below it

vars == <<fs, past, deps, os, head, phase, pc, merged>>

Trees   == [v : 0..MaxVersion, edits : 0..MaxEdits]
NoTree  == [v |-> 0, edits |-> 0]
Overlay == [mounted : BOOLEAN, v : 0..MaxVersion, of : Trees]
NoOverlay == [mounted |-> FALSE, v |-> 0, of |-> NoTree]

(* BASEDIR and its backup old_openpilot; FINALIZED, the BASEDIR it was made *)
(* from and whether its contents have reached the disk; .overlay_init,     *)
(* which is stale when something in .git is newer; .overlay_consistent, a  *)
(* file of FINALIZED; and the version on the other slot of AGNOS.          *)
FileSystem ==
  [base : Trees, old : Trees,
   fin : [v : 0..MaxVersion, of : Trees, synced : BOOLEAN],
   init : {"absent", "fresh", "stale"},
   consistent : BOOLEAN,
   slot : Nat]

NoCopy == [v |-> 0, of |-> NoTree, synced |-> TRUE]

Init ==
  /\ fs = [base |-> [v |-> 1, edits |-> 0], old |-> NoTree, fin |-> NoCopy,
           init |-> "absent", consistent |-> FALSE, slot |-> 0]
  /\ past = {fs}
  /\ deps = {1}
  /\ os = OsOf[1]
  /\ head = 1
  /\ phase = "launch"
  /\ pc = "off"
  /\ merged = NoOverlay

-----------------------------------------------------------------------------
(* The file system                                                         *)

Write(g) == fs' = g /\ past' = past \cup {g}

Flushed(g) == [g EXCEPT !.fin.synced = TRUE]

Sync(g) == fs' = Flushed(g) /\ past' = {Flushed(g)}

(* After a power loss a copy that was not synced has lost files. *)
Survives(g) == {Flushed(g)} \cup (IF g.fin.synced THEN {} ELSE {[g EXCEPT !.fin = NoCopy]})

-----------------------------------------------------------------------------
(* launch_chffrplus.sh                                                     *)

(* Fault: the launcher does not look for changes in .git. *)
UpdateReady_NoFind == fs.init # "absent" /\ fs.consistent /\ fs.old = NoTree

UpdateReady == fs.init = "fresh" /\ fs.consistent /\ fs.old = NoTree

Install ==
  /\ phase = "launch" /\ fs.base.v # 0
  /\ UpdateReady
  /\ phase' = "half"
  /\ Write([fs EXCEPT !.old = fs.base, !.base = NoTree, !.init = "absent"])
  /\ UNCHANGED <<deps, os, head, pc, merged>>

(* The second mv, and the new version's own launcher.                      *)
InstallDone ==
  /\ phase = "half"
  /\ phase' = "launch"
  /\ Write([fs EXCEPT !.base = [v |-> fs.fin.v, edits |-> 0],
                      !.fin = NoCopy, !.consistent = FALSE])
  /\ UNCHANGED <<deps, os, head, pc, merged>>

(* agnos_init: the other slot, if it holds what this version needs;        *)
(* otherwise the updater's screen, which downloads it first.               *)
AgnosInit ==
  /\ phase = "launch" /\ fs.base.v # 0 /\ ~UpdateReady
  /\ os # OsOf[fs.base.v]
  /\ os' = OsOf[fs.base.v]
  /\ Sync([fs EXCEPT !.slot = os])
  /\ UNCHANGED <<deps, head, phase, pc, merged>>

StartManager ==
  /\ phase = "launch" /\ fs.base.v # 0 /\ ~UpdateReady
  /\ os = OsOf[fs.base.v]
  /\ phase' = "running"
  /\ UNCHANGED <<fs, past, deps, os, head, pc, merged>>

Launcher == Install \/ InstallDone \/ AgnosInit \/ StartManager

-----------------------------------------------------------------------------
(* updated.py                                                              *)

At(here, there) == pc = here /\ pc' = there

(* set_consistent_flag(False), which syncs before and after.               *)
Invalidated(g) == [g EXCEPT !.consistent = FALSE]

SetInconsistent(here, there) ==
  /\ At(here, there)
  /\ Sync(Invalidated(fs))
  /\ UNCHANGED <<deps, os, head, phase, merged>>

StartUpdated ==
  /\ phase = "running"
  /\ SetInconsistent("off", "init")

(* init_overlay: an overlay that is mounted and up to date stays.          *)
OverlayValid ==
  /\ fs.init = "fresh" /\ merged.mounted
  /\ At("init", "check")
  /\ UNCHANGED <<fs, past, deps, os, head, phase, merged>>

PrepareStaging ==
  /\ ~(fs.init = "fresh" /\ merged.mounted)
  /\ SetInconsistent("init", "restage")

(* A directory goes file by file, and .overlay_consistent perhaps last.     *)
RemoveCopy(here) ==
  /\ pc = here /\ pc' = here
  /\ fs.fin # NoCopy
  /\ Write([fs EXCEPT !.fin = NoCopy])

RemoveStaging ==
  /\ \/ RemoveCopy("restage")
     \/ /\ At("restage", "touch")
        /\ fs.fin = NoCopy
        /\ Write([fs EXCEPT !.consistent = FALSE, !.old = NoTree])
  /\ merged' = NoOverlay
  /\ UNCHANGED <<deps, os, head, phase>>

TouchInit ==
  /\ At("touch", "mount")
  /\ Sync([fs EXCEPT !.init = "fresh"])
  /\ UNCHANGED <<deps, os, head, phase, merged>>

MountOverlay ==
  /\ At("mount", "check")
  /\ merged' = [mounted |-> TRUE, v |-> fs.base.v, of |-> fs.base]
  /\ UNCHANGED <<fs, past, deps, os, head, phase>>

(* The rest of the round is for later: the clock, a metered connection, a  *)
(* request to check only.                                                  *)
SkipFetch ==
  /\ At("check", "sleep")
  /\ UNCHANGED <<fs, past, deps, os, head, phase, merged>>

FetchUpdate == SetInconsistent("check", "checkout")

(* git checkout, reset, clean and submodules: not at once. *)
BeginCheckout ==
  /\ At("checkout", "checked_out")
  /\ merged' = [merged EXCEPT !.v = 0]
  /\ UNCHANGED <<fs, past, deps, os, head, phase>>

EndCheckout ==
  /\ At("checked_out", "agnos")
  /\ merged' = [merged EXCEPT !.v = head]
  /\ UNCHANGED <<fs, past, deps, os, head, phase>>

(* handle_agnos_update *)
AgnosAccepted ==
  /\ At("agnos", "finalize")
  /\ os = OsOf[merged.v]
  /\ UNCHANGED <<fs, past, deps, os, head, phase, merged>>

BeginFlash ==
  /\ At("agnos", "flash")
  /\ os # OsOf[merged.v]
  /\ Sync([Invalidated(fs) EXCEPT !.slot = 0])
  /\ UNCHANGED <<deps, os, head, phase, merged>>

EndFlash ==
  /\ At("flash", "finalize")
  /\ Sync([fs EXCEPT !.slot = OsOf[merged.v]])
  /\ UNCHANGED <<deps, os, head, phase, merged>>

(* finalize_update *)
Finalize == SetInconsistent("finalize", "rmtree")

RmTree ==
  /\ \/ RemoveCopy("rmtree")
     \/ /\ At("rmtree", "copytree")
        /\ fs.fin = NoCopy
        /\ Write([fs EXCEPT !.consistent = FALSE])
  /\ UNCHANGED <<deps, os, head, phase, merged>>

CopyTree ==
  /\ At("copytree", "pydeps")
  /\ Write([fs EXCEPT !.fin = [v |-> merged.v, of |-> merged.of, synced |-> FALSE]])
  /\ UNCHANGED <<deps, os, head, phase, merged>>

(* Fault: a failed installation is not noticed. *)
InstallPydeps_Unchecked ==
  /\ At("pydeps", "consistent")
  /\ deps' \in {deps, deps \cup {fs.fin.v}}
  /\ UNCHANGED <<fs, past, os, head, phase, merged>>

InstallPydeps ==
  /\ At("pydeps", "consistent")
  /\ deps' = deps \cup {fs.fin.v}
  /\ UNCHANGED <<fs, past, os, head, phase, merged>>

(* Fault: the flag is set before the copy is on the disk. *)
SetConsistent_NoSync ==
  /\ At("consistent", "end")
  /\ Write([fs EXCEPT !.consistent = TRUE])
  /\ UNCHANGED <<deps, os, head, phase, merged>>

(* set_consistent_flag(True) *)
SetConsistent ==
  /\ At("consistent", "end")
  /\ Sync([fs EXCEPT !.consistent = TRUE])
  /\ UNCHANGED <<deps, os, head, phase, merged>>

EndRound ==
  /\ At("end", "sleep")
  /\ UNCHANGED <<fs, past, deps, os, head, phase, merged>>

WakeUp ==
  /\ At("sleep", "init")
  /\ UNCHANGED <<fs, past, deps, os, head, phase, merged>>

(* Any step of a round may fail: the overlay is not used again. *)
RoundFails ==
  /\ pc \notin {"off", "sleep"}
  /\ pc' = "sleep"
  /\ Write([fs EXCEPT !.init = "absent"])
  /\ UNCHANGED <<deps, os, head, phase, merged>>

Updated ==
  \/ StartUpdated
  \/ OverlayValid \/ PrepareStaging \/ RemoveStaging \/ TouchInit \/ MountOverlay
  \/ SkipFetch \/ FetchUpdate \/ BeginCheckout \/ EndCheckout
  \/ AgnosAccepted \/ BeginFlash \/ EndFlash
  \/ Finalize \/ RmTree \/ CopyTree \/ InstallPydeps \/ SetConsistent
  \/ EndRound \/ WakeUp \/ RoundFails

-----------------------------------------------------------------------------
(* Everything else                                                         *)

(* manager stops updated when the car starts.  A mounted overlay stays.    *)
StopUpdated ==
  /\ pc # "off" /\ pc' = "off"
  /\ UNCHANGED <<fs, past, deps, os, head, phase, merged>>

Publish ==
  /\ head < MaxVersion /\ head' = head + 1
  /\ UNCHANGED <<fs, past, deps, os, phase, pc, merged>>

(* A developer commits in BASEDIR.                                         *)
LocalCommit ==
  /\ phase = "running" /\ fs.base.edits < MaxEdits
  /\ Write([fs EXCEPT !.base.edits = @ + 1,
                      !.init = IF @ = "absent" THEN "absent" ELSE "stale"])
  /\ UNCHANGED <<deps, os, head, phase, pc, merged>>

BootsWith(g) ==
  /\ fs' = g /\ past' = {g}
  /\ phase' = "launch" /\ pc' = "off" /\ merged' = NoOverlay
  /\ UNCHANGED <<deps, os, head>>

Reboot == phase = "running" /\ BootsWith(Flushed(fs))

PowerLoss == \E g \in past : \E s \in Survives(g) : BootsWith(s)

Next ==
  \/ Launcher \/ Updated
  \/ StopUpdated \/ Publish \/ LocalCommit
  \/ Reboot \/ PowerLoss

Spec == Init /\ [][Next]_vars

-----------------------------------------------------------------------------
(* Properties                                                              *)

(* Types; the flag is a file of the copy, so a flag says the copy is there *)
(* (updated.py:72-80).                                                     *)
TypeOK ==
  /\ fs \in FileSystem
  /\ past \subseteq FileSystem /\ fs \in past
  /\ fs.consistent => fs.fin.v # 0
  /\ deps \subseteq Versions
  /\ os \in Nat /\ head \in Versions
  /\ phase \in {"launch", "half", "running"}
  /\ pc \in {"off", "init", "restage", "touch", "mount", "check", "checkout", "checked_out",
             "agnos", "flash", "finalize", "rmtree", "copytree", "pydeps", "consistent",
             "end", "sleep"}
  /\ merged \in Overlay

(* Whenever the power goes, the disk holds a whole version to drive with:  *)
(* BASEDIR, or, between the two mv of the launcher, its backup beside a    *)
(* whole new version (launch_chffrplus.sh:79-80, updated.py:179-200).      *)
Recoverable ==
  \A g \in past : \A s \in Survives(g) :
    \/ s.base.v # 0
    \/ s.old.v # 0 /\ s.fin.v # 0

Installing == phase = "launch" /\ phase' = "half"

(* The launcher replaces only the BASEDIR that the update was prepared     *)
(* from, at the very commit: one committed to since is left alone until an *)
(* update has been prepared from the new commit, and replaces it then,     *)
(* though line 65 calls it local work that should not be overwritten       *)
(* (launch_chffrplus.sh:60-72, updated.py:364).                            *)
SwapsItsBase == [][Installing => fs.fin.of = fs.base]_vars

(* A version is swapped in only when its Python packages are installed and *)
(* its AGNOS runs or waits whole on the other slot, so that the device     *)
(* drives again without a network (updated.py:214-219, 192-199).           *)
NeedsNoNetwork ==
  [][Installing => /\ fs.fin.v \in deps
                   /\ OsOf[fs.fin.v] \in {os, fs.slot}]_vars
===============================================================================
