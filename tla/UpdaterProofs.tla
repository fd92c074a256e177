----------------------------- MODULE UpdaterProofs -----------------------------
(***************************************************************************)
(* Proofs about Updater, for every number of versions and local commits    *)
(* and every assignment of AGNOS versions.  Each property follows from     *)
(* facts about every state a power loss may leave (Sound, Ready) together   *)
(* with what updated has made sure of at the step where it stands.         *)
(***************************************************************************)
EXTENDS Updater, TLAPS

(* Of one state of the disk: the flag stands beside a copy that is whole   *)
(* and synced; there is a version to boot, or both halves of a swap; and a *)
(* copy beside a fresh .overlay_init was made from this BASEDIR.           *)
Sound(g) ==
  /\ g \in FileSystem
  /\ g.consistent => g.fin.v # 0 /\ g.fin.synced
  /\ g.base.v # 0 \/ (g.old.v # 0 /\ g.fin.v # 0 /\ g.fin.synced)
  /\ g.init = "fresh" /\ g.fin.v # 0 => g.fin.of = g.base

(* What the launcher would swap in needs no network, where the packages of *)
(* the versions in d are installed and AGNOS is at version o.               *)
Ready(g, d, o) ==
  g.init = "fresh" /\ g.consistent /\ g.old = NoTree =>
    /\ g.fin.v \in d
    /\ OsOf[g.fin.v] \in {o, g.slot}

DiskInv ==
  /\ fs \in past
  /\ \A g \in past : Sound(g) /\ Ready(g, deps, os)

(* The flag is away from the first of these steps to the last. *)
Unmarked == {"restage", "touch", "mount", "checkout", "checked_out", "agnos", "flash",
             "finalize", "rmtree", "copytree", "pydeps", "consistent"}

Fetching == {"checkout", "checked_out", "agnos", "flash", "finalize", "rmtree", "copytree"}

Working == Unmarked \cup {"init", "check", "end", "sleep"}

PlaceInv ==
  /\ deps \subseteq Versions
  /\ os \in Nat /\ head \in Versions
  /\ merged \in Overlay
  /\ phase \in {"launch", "half", "running"}
  /\ pc \in Working \cup {"off"}
  /\ phase # "running" => pc = "off" /\ ~merged.mounted
  /\ phase = "running" => fs.base.v # 0
  /\ phase = "half" => fs.fin.v # 0 /\ fs.fin.synced

(* What updated has made sure of at the step where it stands. *)
StepInv ==
  /\ pc \in Unmarked => \A g \in past : ~g.consistent
  /\ pc \in {"touch", "mount"} => fs.fin.v = 0 /\ ~merged.mounted
  /\ pc \in Fetching \cup {"check"} => merged.mounted
  /\ merged.mounted /\ fs.init = "fresh" => merged.of = fs.base
  /\ pc \in Fetching \ {"checkout", "checked_out"} => merged.v # 0
  /\ pc \in {"finalize", "rmtree", "copytree"} => OsOf[merged.v] \in {os, fs.slot}
  /\ pc \in {"pydeps", "consistent"} =>
       fs.fin.v # 0 /\ OsOf[fs.fin.v] \in {os, fs.slot}
  /\ pc = "consistent" => fs.fin.v \in deps

IInv == DiskInv /\ PlaceInv /\ StepInv

-----------------------------------------------------------------------------
(* The file system                                                         *)

(* A sync keeps what is sound. *)
LEMMA FlushedSound ==
  ASSUME NEW g, Sound(g)
  PROVE  /\ Sound(Flushed(g))
         /\ \A d, o : Ready(g, d, o) => Ready(Flushed(g), d, o)
         /\ Flushed(g).base = g.base /\ Flushed(g).old = g.old
         /\ Flushed(g).init = g.init /\ Flushed(g).slot = g.slot
         /\ Flushed(g).consistent = g.consistent
         /\ Flushed(g).fin.v = g.fin.v /\ Flushed(g).fin.of = g.fin.of
         /\ Flushed(g).fin.synced = TRUE
BY DEF Sound, Ready, Flushed, FileSystem

(* So does a power loss, which takes the contents of an unsynced copy only. *)
LEMMA SurvivesSound ==
  ASSUME NEW g, Sound(g), Ready(g, deps, os), NEW s \in Survives(g)
  PROVE  Sound(s) /\ Ready(s, deps, os)
<1>1. CASE s = Flushed(g)
  BY <1>1, FlushedSound
<1>2. CASE ~g.fin.synced /\ s = [g EXCEPT !.fin = NoCopy]
  <2>1. NoCopy \in [v : 0..MaxVersion, of : Trees, synced : BOOLEAN]
    BY UpdaterConstants DEF NoCopy, NoTree, Trees
  <2> QED BY <1>2, <2>1 DEF Sound, Ready, FileSystem, NoCopy
<1> QED BY <1>1, <1>2 DEF Survives

(* A step that writes a sound state leaves only sound states behind. *)
LEMMA WriteDisk ==
  ASSUME DiskInv, NEW g, Write(g), Sound(g), Ready(g, deps', os'),
         deps \subseteq deps', os' = os
  PROVE  DiskInv'
BY DEF DiskInv, Write, Ready

LEMMA SyncDisk ==
  ASSUME NEW g, Sync(g), Sound(g), Ready(g, deps', os')
  PROVE  DiskInv'
<1>1. Sound(Flushed(g)) /\ Ready(Flushed(g), deps', os')
  BY FlushedSound DEF Sound, Ready, Flushed, FileSystem
<1> QED BY <1>1 DEF DiskInv, Sync

LEMMA StayDisk ==
  ASSUME DiskInv, UNCHANGED <<fs, past, os>>, deps \subseteq deps'
  PROVE  DiskInv'
BY DEF DiskInv, Ready
-----------------------------------------------------------------------------
(* What steps of several actions have in common                            *)

LEMMA DiskFacts ==
  ASSUME IInv
  PROVE  Sound(fs) /\ Ready(fs, deps, os) /\ fs \in FileSystem
BY DEF IInv, DiskInv, Sound

(* set_consistent_flag(False) leaves one state, without the flag. *)
LEMMA Unsetting ==
  ASSUME IInv, NEW here, NEW there, SetInconsistent(here, there)
  PROVE  /\ DiskInv'
         /\ \A g \in past' : ~g.consistent
         /\ fs'.base = fs.base /\ fs'.init = fs.init /\ fs'.slot = fs.slot
         /\ fs'.fin.v = fs.fin.v
<1> DEFINE g == Invalidated(fs)
<1>1. Sound(fs) /\ fs \in FileSystem
  BY DiskFacts
<1>2. /\ Sound(g) /\ Ready(g, deps', os') /\ ~g.consistent
      /\ g.base = fs.base /\ g.init = fs.init /\ g.slot = fs.slot /\ g.fin = fs.fin
  BY <1>1 DEF Sound, Ready, Invalidated, FileSystem
<1>3. Sync(g)
  BY DEF SetInconsistent
<1>4. DiskInv'
  BY <1>2, <1>3, SyncDisk
<1>5. fs' = Flushed(g) /\ past' = {Flushed(g)}
  BY <1>3 DEF Sync
<1> QED
  BY <1>2, <1>4, <1>5, FlushedSound, ZenonT(40)

(* Removing the copy keeps the disk sound, whatever flag stood there. *)
LEMMA RemovingCopy ==
  ASSUME IInv, NEW here \in {"restage", "rmtree"}, RemoveCopy(here), UNCHANGED <<deps, os, phase>>
  PROVE  /\ DiskInv'
         /\ \A g \in past' : ~g.consistent
         /\ fs' = [fs EXCEPT !.fin = NoCopy]
<1> DEFINE g == [fs EXCEPT !.fin = NoCopy]
<1>1. Sound(fs) /\ fs \in FileSystem
  BY DiskFacts
<1>2. Write(g) /\ pc = here
  BY DEF RemoveCopy
<1>3. fs.base.v # 0 /\ \A h \in past : ~h.consistent
  BY <1>2 DEF IInv, PlaceInv, StepInv, Unmarked
<1>4. ~fs.consistent
  BY <1>3 DEF IInv, DiskInv
<1>5. NoCopy \in [v : 0..MaxVersion, of : Trees, synced : BOOLEAN]
  BY UpdaterConstants DEF NoCopy, NoTree, Trees
<1>6. Sound(g) /\ Ready(g, deps', os') /\ ~g.consistent
  BY <1>1, <1>3, <1>4, <1>5 DEF Sound, Ready, FileSystem, NoCopy
<1>7. DiskInv'
  BY <1>2, <1>6, WriteDisk DEF IInv
<1> QED
  BY <1>2, <1>3, <1>6, <1>7 DEF Write

-----------------------------------------------------------------------------
(* The invariant is inductive                                              *)

LEMMA InitHolds == Init => IInv
<1>1. /\ NoTree \in Trees /\ NoCopy \in [v : 0..MaxVersion, of : Trees, synced : BOOLEAN]
      /\ NoOverlay \in Overlay /\ [v |-> 1, edits |-> 0] \in Trees
      /\ NoCopy.v = 0 /\ ~NoOverlay.mounted
  BY UpdaterConstants DEF NoTree, Trees, NoCopy, NoOverlay, Overlay
<1>2. 1 \in Versions /\ OsOf[1] \in Nat
  BY UpdaterConstants DEF Versions
<1> SUFFICES ASSUME Init PROVE IInv
  OBVIOUS
<1>3. Sound(fs) /\ Ready(fs, deps, os)
  BY <1>1 DEF Init, Sound, Ready, FileSystem
<1>4. DiskInv
  BY <1>3 DEF DiskInv, Init
<1> QED
  BY <1>1, <1>2, <1>4 DEF IInv, PlaceInv, StepInv, Working, Unmarked, Fetching, Init, Versions

(* A swap: the flag vouches for the copy, and while there is no BASEDIR    *)
(* the backup and the copy are whole.                                      *)
LEMMA LauncherStep == IInv /\ Launcher => IInv'
<1> SUFFICES ASSUME IInv, Launcher PROVE IInv'
  OBVIOUS
<1>1. /\ Sound(fs) /\ Ready(fs, deps, os) /\ fs \in FileSystem
      /\ NoTree \in Trees /\ NoCopy \in [v : 0..MaxVersion, of : Trees, synced : BOOLEAN]
      /\ NoCopy.v = 0
  BY DiskFacts, UpdaterConstants DEF NoTree, NoCopy, Trees
<1>2. phase # "running" /\ pc = "off" /\ ~merged.mounted /\ pc' = pc /\ merged' = merged
      /\ deps' = deps /\ head' = head
  BY DEF Launcher, Install, InstallDone, AgnosInit, StartManager, IInv, PlaceInv
<1>3. CASE Install
  <2>1. PICK g : g = [fs EXCEPT !.old = fs.base, !.base = NoTree, !.init = "absent"]
    OBVIOUS
  <2>2. Sound(g) /\ Ready(g, deps, os) /\ g.fin.v # 0 /\ g.fin.synced
    BY <1>1, <1>3, <2>1 DEF Install, UpdateReady, Sound, Ready, FileSystem
  <2>3. Write(g) /\ os' = os /\ phase' = "half"
    BY <1>3, <2>1 DEF Install
  <2>4. DiskInv' /\ fs' = g
    BY <1>2, <2>2, <2>3, WriteDisk DEF IInv, Write
  <2> QED BY <1>2, <2>2, <2>3, <2>4 DEF IInv, PlaceInv, StepInv, Unmarked, Fetching
<1>4. CASE InstallDone
  <2>1. PICK g : g = [fs EXCEPT !.base = [v |-> fs.fin.v, edits |-> 0],
                                !.fin = NoCopy, !.consistent = FALSE]
    OBVIOUS
  <2>2. fs.fin.v # 0
    BY <1>4 DEF InstallDone, IInv, PlaceInv
  <2>3. [v |-> fs.fin.v, edits |-> 0] \in Trees
    BY <1>1, UpdaterConstants DEF FileSystem, Trees
  <2>4. /\ g \in FileSystem /\ g.fin = NoCopy /\ ~g.consistent
        /\ g.base = [v |-> fs.fin.v, edits |-> 0]
    BY <1>1, <2>1, <2>3 DEF FileSystem
  <2>5. Sound(g) /\ Ready(g, deps, os)
    BY <1>1, <2>2, <2>4 DEF Sound, Ready
  <2>6. Write(g) /\ os' = os /\ phase' = "launch"
    BY <1>4, <2>1 DEF InstallDone
  <2>7. DiskInv'
    BY <1>2, <2>5, <2>6, WriteDisk DEF IInv
  <2> QED BY <1>2, <2>6, <2>7 DEF IInv, PlaceInv, StepInv, Unmarked, Fetching
<1>5. CASE AgnosInit
  <2>1. PICK g : g = [fs EXCEPT !.slot = os]
    OBVIOUS
  <2>2. os \in Nat /\ os' \in Nat
    BY <1>1, <1>5, UpdaterConstants, SMTT(30) DEF AgnosInit, IInv, PlaceInv, FileSystem, Trees, Versions
  <2>3. Sound(g) /\ Ready(g, deps', os')
    BY <1>1, <1>5, <2>1, <2>2 DEF AgnosInit, UpdateReady, Sound, Ready, FileSystem
  <2>4. Sync(g) /\ phase' = phase /\ phase = "launch"
    BY <1>5, <2>1 DEF AgnosInit
  <2>5. DiskInv'
    BY <2>3, <2>4, SyncDisk
  <2> QED BY <1>2, <2>2, <2>4, <2>5 DEF IInv, PlaceInv, StepInv, Unmarked, Fetching
<1>6. CASE StartManager
  <2>1. UNCHANGED <<fs, past, os>> /\ phase' = "running" /\ fs.base.v # 0
    BY <1>6 DEF StartManager
  <2>2. DiskInv'
    BY <1>2, <2>1, StayDisk DEF IInv
  <2> QED BY <1>2, <2>1, <2>2 DEF IInv, PlaceInv, StepInv, Unmarked, Fetching
<1> QED BY <1>3, <1>4, <1>5, <1>6 DEF Launcher

LEMMA OthersStep == IInv /\ (StopUpdated \/ Publish \/ LocalCommit \/ Reboot \/ PowerLoss) => IInv'
<1> SUFFICES ASSUME IInv, StopUpdated \/ Publish \/ LocalCommit \/ Reboot \/ PowerLoss
             PROVE  IInv'
  OBVIOUS
<1>1. Sound(fs) /\ Ready(fs, deps, os) /\ fs \in FileSystem
  BY DiskFacts
<1>2. CASE StopUpdated
  <2>1. DiskInv'
    BY <1>2, StayDisk DEF StopUpdated, IInv
  <2> QED BY <1>2, <2>1 DEF StopUpdated, IInv, PlaceInv, StepInv, Unmarked, Fetching
<1>3. CASE Publish
  <2>1. DiskInv'
    BY <1>3, StayDisk DEF Publish, IInv
  <2>2. head' \in Versions
    BY <1>3, UpdaterConstants DEF Publish, IInv, PlaceInv, Versions
  <2> QED BY <1>3, <2>1, <2>2 DEF Publish, IInv, PlaceInv, StepInv, Unmarked, Fetching
<1>4. CASE LocalCommit
  <2>1. PICK g : g = [fs EXCEPT !.base.edits = @ + 1,
                                !.init = IF @ = "absent" THEN "absent" ELSE "stale"]
    OBVIOUS
  <2>2. Write(g) /\ UNCHANGED <<deps, os, head, phase, pc, merged>> /\ fs.base.edits < MaxEdits
    BY <1>4, <2>1 DEF LocalCommit
  <2>3. /\ g.base.v = fs.base.v /\ g.fin = fs.fin /\ g.slot = fs.slot /\ g.old = fs.old
        /\ g.consistent = fs.consistent /\ g.init # "fresh" /\ g \in FileSystem
    <3>1. fs.base \in Trees /\ fs.base.edits + 1 \in 0..MaxEdits
      BY <1>1, <2>2, UpdaterConstants DEF FileSystem, Trees
    <3>2. [fs.base EXCEPT !.edits = @ + 1] \in Trees
      BY <3>1 DEF Trees
    <3>3. g = [fs EXCEPT !.base = [fs.base EXCEPT !.edits = @ + 1],
                         !.init = IF fs.init = "absent" THEN "absent" ELSE "stale"]
      BY <1>1, <2>1 DEF FileSystem
    <3>4. [fs.base EXCEPT !.edits = @ + 1].v = fs.base.v
      BY <3>1 DEF Trees
    <3> QED BY <1>1, <3>2, <3>3, <3>4 DEF FileSystem
  <2>4. Sound(g) /\ Ready(g, deps, os)
    BY <1>1, <2>3 DEF Sound, Ready
  <2>5. DiskInv' /\ fs' = g /\ past' = past \cup {g}
    BY <2>2, <2>4, WriteDisk DEF IInv, Write
  <2>6. PlaceInv'
    BY <2>2, <2>3, <2>5 DEF IInv, PlaceInv
  <2>7. StepInv'
    BY <2>2, <2>3, <2>5 DEF IInv, DiskInv, StepInv
  <2> QED BY <2>5, <2>6, <2>7 DEF IInv
<1>5. ASSUME NEW g, Sound(g), Ready(g, deps, os), BootsWith(g)
      PROVE  IInv'
  <2>1. DiskInv'
    BY <1>5 DEF BootsWith, DiskInv
  <2>2. NoOverlay \in Overlay /\ ~NoOverlay.mounted
    BY UpdaterConstants DEF NoOverlay, Overlay, NoTree, Trees
  <2> QED BY <1>5, <2>1, <2>2 DEF BootsWith, IInv, PlaceInv, StepInv, Unmarked, Fetching
<1>6. CASE Reboot
  <2>1. Sound(Flushed(fs)) /\ Ready(Flushed(fs), deps, os)
    BY <1>1, FlushedSound
  <2> QED BY <1>5, <1>6, <2>1 DEF Reboot
<1>7. CASE PowerLoss
  <2>1. PICK g \in past : \E s \in Survives(g) : BootsWith(s)
    BY <1>7 DEF PowerLoss
  <2>2. PICK s \in Survives(g) : BootsWith(s)
    BY <2>1
  <2>3. Sound(g) /\ Ready(g, deps, os)
    BY DEF IInv, DiskInv
  <2>4. Sound(s) /\ Ready(s, deps, os)
    BY <2>3, SurvivesSound
  <2> QED BY <1>5, <2>2, <2>4
<1> QED BY <1>2, <1>3, <1>4, <1>6, <1>7

(* Every step of updated makes sure of what the next one stands on, and    *)
(* from the first step that touches the copy to the last no flag stands.   *)
LEMMA UpdatedStep == IInv /\ Updated => IInv'
<1> SUFFICES ASSUME IInv, Updated PROVE IInv'
  OBVIOUS
<1>1. /\ Sound(fs) /\ Ready(fs, deps, os) /\ fs \in FileSystem
      /\ NoCopy \in [v : 0..MaxVersion, of : Trees, synced : BOOLEAN] /\ NoCopy.v = 0
      /\ NoTree \in Trees /\ NoOverlay \in Overlay /\ ~NoOverlay.mounted
  BY DiskFacts, UpdaterConstants DEF NoTree, NoCopy, Trees, NoOverlay, Overlay
<1>2. /\ phase = "running" /\ fs.base.v # 0
      /\ UNCHANGED <<os, head, phase>>
  BY DEF Updated, StartUpdated, OverlayValid, PrepareStaging, RemoveStaging, TouchInit,
         MountOverlay, SkipFetch, FetchUpdate, BeginCheckout, EndCheckout, AgnosAccepted,
         BeginFlash, EndFlash, Finalize, RmTree, CopyTree, InstallPydeps, SetConsistent,
         EndRound, WakeUp, RoundFails, SetInconsistent, RemoveCopy, At, IInv, PlaceInv
<1>3. CASE StartUpdated
  <2>1. /\ DiskInv'
        /\ \A g \in past' : ~g.consistent
        /\ fs'.base = fs.base /\ fs'.init = fs.init /\ fs'.slot = fs.slot
        /\ fs'.fin.v = fs.fin.v
    BY <1>3, Unsetting DEF StartUpdated
  <2> QED BY <1>3, <1>2, <2>1 DEF StartUpdated, SetInconsistent, At, IInv, PlaceInv, StepInv, Working, Unmarked, Fetching
<1>4. CASE OverlayValid
  <2>1. DiskInv'
    BY <1>4, <1>2, StayDisk DEF OverlayValid, IInv
  <2> QED BY <1>4, <1>1, <1>2, <2>1 DEF OverlayValid, At, IInv, PlaceInv, StepInv, Working, Unmarked, Fetching
<1>5. CASE PrepareStaging
  <2>1. /\ DiskInv'
        /\ \A g \in past' : ~g.consistent
        /\ fs'.base = fs.base /\ fs'.init = fs.init /\ fs'.slot = fs.slot
        /\ fs'.fin.v = fs.fin.v
    BY <1>5, Unsetting DEF PrepareStaging
  <2> QED BY <1>5, <1>2, <2>1 DEF PrepareStaging, SetInconsistent, At, IInv, PlaceInv, StepInv, Working, Unmarked, Fetching
<1>6. CASE RemoveStaging
  <2>1. CASE RemoveCopy("restage")
    <3>1. DiskInv' /\ (\A g \in past' : ~g.consistent) /\ fs' = [fs EXCEPT !.fin = NoCopy]
      BY <1>6, <1>2, <2>1, RemovingCopy DEF RemoveStaging
    <3>2. fs'.base = fs.base
      BY <1>1, <3>1 DEF FileSystem
    <3> QED BY <1>6, <1>1, <1>2, <2>1, <3>1, <3>2 DEF RemoveStaging, RemoveCopy, IInv, PlaceInv, StepInv, Working, Unmarked, Fetching
  <2>2. CASE ~RemoveCopy("restage")
    <3>1. PICK g : g = [fs EXCEPT !.consistent = FALSE, !.old = NoTree]
      OBVIOUS
    <3>2. pc = "restage" /\ pc' = "touch" /\ fs.fin = NoCopy /\ Write(g)
      BY <1>6, <2>2, <3>1 DEF RemoveStaging, At
    <3>3. /\ Sound(g) /\ Ready(g, deps, os) /\ ~g.consistent
          /\ g.base = fs.base /\ g.fin = NoCopy
      BY <1>1, <1>2, <3>1, <3>2 DEF Sound, Ready, FileSystem
    <3>4. DiskInv'
      BY <1>6, <1>2, <3>2, <3>3, WriteDisk DEF RemoveStaging, IInv
    <3>5. (\A h \in past' : ~h.consistent) /\ fs' = g
      BY <3>2, <3>3 DEF Write, IInv, StepInv, Unmarked
    <3> QED BY <1>6, <1>1, <1>2, <3>2, <3>3, <3>4, <3>5 DEF RemoveStaging, IInv, PlaceInv, StepInv, Working, Unmarked, Fetching
  <2> QED BY <2>1, <2>2
<1>7. CASE TouchInit
  <2>1. PICK g : g = [fs EXCEPT !.init = "fresh"]
    OBVIOUS
  <2>2. /\ pc = "touch" /\ pc' = "mount" /\ Sync(g) /\ fs.fin.v = 0 /\ ~fs.consistent
        /\ ~merged.mounted
    BY <1>7, <2>1 DEF TouchInit, At, IInv, DiskInv, StepInv, Unmarked
  <2>3. Sound(g) /\ Ready(g, deps', os') /\ ~g.consistent /\ g.base = fs.base /\ g.fin.v = 0
    BY <1>1, <1>2, <2>1, <2>2 DEF Sound, Ready, FileSystem
  <2>4. DiskInv'
    BY <2>2, <2>3, SyncDisk
  <2>5. fs' = Flushed(g) /\ past' = {Flushed(g)}
    BY <2>2 DEF Sync
  <2>6. ~fs'.consistent /\ fs'.base = fs.base /\ fs'.fin.v = 0
    BY <2>3, <2>5, FlushedSound
  <2> QED BY <1>7, <1>2, <2>2, <2>4, <2>5, <2>6 DEF TouchInit, IInv, PlaceInv, StepInv, Working, Unmarked, Fetching
<1>8. CASE MountOverlay
  <2>1. DiskInv'
    BY <1>8, <1>2, StayDisk DEF MountOverlay, IInv
  <2>2. merged' \in Overlay /\ merged'.mounted /\ merged'.of = fs.base
    BY <1>8, <1>1 DEF MountOverlay, Overlay, FileSystem, Trees
  <2> QED BY <1>8, <1>2, <2>1, <2>2 DEF MountOverlay, At, IInv, PlaceInv, StepInv, Working, Unmarked, Fetching
<1>9. CASE SkipFetch
  <2>1. DiskInv'
    BY <1>9, <1>2, StayDisk DEF SkipFetch, IInv
  <2> QED BY <1>9, <1>1, <1>2, <2>1 DEF SkipFetch, At, IInv, PlaceInv, StepInv, Working, Unmarked, Fetching
<1>10. CASE FetchUpdate
  <2>1. /\ DiskInv'
        /\ \A g \in past' : ~g.consistent
        /\ fs'.base = fs.base /\ fs'.init = fs.init /\ fs'.slot = fs.slot
        /\ fs'.fin.v = fs.fin.v
    BY <1>10, Unsetting DEF FetchUpdate
  <2> QED BY <1>10, <1>2, <2>1 DEF FetchUpdate, SetInconsistent, At, IInv, PlaceInv, StepInv, Working, Unmarked, Fetching
<1>11. CASE BeginCheckout
  <2>1. DiskInv'
    BY <1>11, <1>2, StayDisk DEF BeginCheckout, IInv
  <2>2. merged' \in Overlay /\ merged'.mounted = merged.mounted /\ merged'.of = merged.of
        /\ merged'.v = 0
    BY <1>11, UpdaterConstants DEF BeginCheckout, Overlay, IInv, PlaceInv, Versions
  <2> QED BY <1>11, <1>2, <2>1, <2>2, UpdaterConstants DEF BeginCheckout, At, Versions, IInv, PlaceInv, StepInv, Working, Unmarked, Fetching
<1>12. CASE EndCheckout
  <2>1. DiskInv'
    BY <1>12, <1>2, StayDisk DEF EndCheckout, IInv
  <2>2. merged' \in Overlay /\ merged'.mounted = merged.mounted /\ merged'.of = merged.of
        /\ merged'.v = head
    BY <1>12, UpdaterConstants DEF EndCheckout, Overlay, IInv, PlaceInv, Versions
  <2> QED BY <1>12, <1>2, <2>1, <2>2, UpdaterConstants DEF EndCheckout, At, Versions, IInv, PlaceInv, StepInv, Working, Unmarked, Fetching
<1>13. CASE AgnosAccepted
  <2>1. DiskInv'
    BY <1>13, <1>2, StayDisk DEF AgnosAccepted, IInv
  <2> QED BY <1>13, <1>1, <1>2, <2>1 DEF AgnosAccepted, At, IInv, PlaceInv, StepInv, Working, Unmarked, Fetching
<1>14. CASE BeginFlash
  <2>1. PICK g : g = [Invalidated(fs) EXCEPT !.slot = 0]
    OBVIOUS
  <2>2. /\ pc = "agnos" /\ pc' = "flash" /\ Sync(g) /\ ~fs.consistent
        /\ merged.v # 0 /\ merged \in Overlay
    BY <1>14, <2>1 DEF BeginFlash, At, DiskInv, IInv, PlaceInv, StepInv, Working, Unmarked, Fetching
  <2>3. 0 \in Nat
    BY <2>2, UpdaterConstants DEF Overlay, Versions
  <2>4. /\ Sound(g) /\ Ready(g, deps', os') /\ ~g.consistent
        /\ g.base = fs.base /\ g.init = fs.init /\ g.fin.v = fs.fin.v /\ g.slot = 0
    BY <1>1, <1>2, <2>1, <2>2, <2>3 DEF Sound, Ready, Invalidated, FileSystem
  <2>5. DiskInv'
    BY <2>2, <2>4, SyncDisk
  <2>6. fs' = Flushed(g) /\ past' = {Flushed(g)}
    BY <2>2 DEF Sync
  <2>7. /\ ~fs'.consistent /\ fs'.base = fs.base /\ fs'.init = fs.init
        /\ fs'.fin.v = fs.fin.v /\ fs'.slot = 0
    BY <2>4, <2>6, FlushedSound
  <2> QED BY <1>14, <1>2, <2>2, <2>5, <2>6, <2>7 DEF BeginFlash, IInv, PlaceInv, StepInv, Working, Unmarked, Fetching
<1>15. CASE EndFlash
  <2>1. PICK g : g = [fs EXCEPT !.slot = OsOf[merged.v]]
    OBVIOUS
  <2>2. /\ pc = "flash" /\ pc' = "finalize" /\ Sync(g) /\ ~fs.consistent
        /\ merged.v # 0 /\ merged \in Overlay
    BY <1>15, <2>1 DEF EndFlash, At, DiskInv, IInv, PlaceInv, StepInv, Working, Unmarked, Fetching
  <2>3. OsOf[merged.v] \in Nat
    BY <2>2, UpdaterConstants DEF Overlay, Versions
  <2>4. /\ Sound(g) /\ Ready(g, deps', os') /\ ~g.consistent
        /\ g.base = fs.base /\ g.init = fs.init /\ g.fin.v = fs.fin.v /\ g.slot = OsOf[merged.v]
    BY <1>1, <1>2, <2>1, <2>2, <2>3 DEF Sound, Ready, Invalidated, FileSystem
  <2>5. DiskInv'
    BY <2>2, <2>4, SyncDisk
  <2>6. fs' = Flushed(g) /\ past' = {Flushed(g)}
    BY <2>2 DEF Sync
  <2>7. /\ ~fs'.consistent /\ fs'.base = fs.base /\ fs'.init = fs.init
        /\ fs'.fin.v = fs.fin.v /\ fs'.slot = OsOf[merged.v]
    BY <2>4, <2>6, FlushedSound
  <2> QED BY <1>15, <1>2, <2>2, <2>5, <2>6, <2>7 DEF EndFlash, IInv, PlaceInv, StepInv, Working, Unmarked, Fetching
<1>16. CASE Finalize
  <2>1. /\ DiskInv'
        /\ \A g \in past' : ~g.consistent
        /\ fs'.base = fs.base /\ fs'.init = fs.init /\ fs'.slot = fs.slot
        /\ fs'.fin.v = fs.fin.v
    BY <1>16, Unsetting DEF Finalize
  <2> QED BY <1>16, <1>2, <2>1 DEF Finalize, SetInconsistent, At, IInv, PlaceInv, StepInv, Working, Unmarked, Fetching
<1>17. CASE RmTree
  <2>1. CASE RemoveCopy("rmtree")
    <3>1. DiskInv' /\ (\A g \in past' : ~g.consistent) /\ fs' = [fs EXCEPT !.fin = NoCopy]
      BY <1>17, <1>2, <2>1, RemovingCopy DEF RmTree
    <3>2. fs'.base = fs.base /\ fs'.init = fs.init /\ fs'.slot = fs.slot
      BY <1>1, <3>1 DEF FileSystem
    <3> QED BY <1>17, <1>2, <2>1, <3>1, <3>2 DEF RmTree, RemoveCopy, IInv, PlaceInv, StepInv, Working, Unmarked, Fetching
  <2>2. CASE ~RemoveCopy("rmtree")
    <3>1. PICK g : g = [fs EXCEPT !.consistent = FALSE]
      OBVIOUS
    <3>2. pc = "rmtree" /\ pc' = "copytree" /\ Write(g)
      BY <1>17, <2>2, <3>1 DEF RmTree, At
    <3>3. /\ Sound(g) /\ Ready(g, deps, os) /\ ~g.consistent
          /\ g.base = fs.base /\ g.init = fs.init /\ g.slot = fs.slot
      BY <1>1, <1>2, <3>1 DEF Sound, Ready, FileSystem
    <3>4. DiskInv'
      BY <1>17, <1>2, <3>2, <3>3, WriteDisk DEF RmTree, IInv
    <3>5. (\A h \in past' : ~h.consistent) /\ fs' = g
      BY <3>2, <3>3 DEF Write, IInv, StepInv, Unmarked
    <3> QED BY <1>17, <1>2, <3>2, <3>3, <3>4, <3>5 DEF RmTree, IInv, PlaceInv, StepInv, Working, Unmarked, Fetching
  <2> QED BY <2>1, <2>2
<1>18. CASE CopyTree
  <2>1. PICK g : g = [fs EXCEPT !.fin = [v |-> merged.v, of |-> merged.of, synced |-> FALSE]]
    OBVIOUS
  <2>2. /\ pc = "copytree" /\ pc' = "pydeps" /\ Write(g) /\ ~fs.consistent
        /\ merged \in Overlay /\ merged.v # 0 /\ OsOf[merged.v] \in {os, fs.slot}
        /\ fs.init = "fresh" => merged.of = fs.base
    BY <1>18, <2>1 DEF CopyTree, At, DiskInv, IInv, PlaceInv, StepInv, Working, Unmarked, Fetching
  <2>3. /\ g \in FileSystem /\ ~g.consistent /\ g.base = fs.base /\ g.init = fs.init
        /\ g.slot = fs.slot /\ g.fin.v = merged.v /\ g.fin.of = merged.of
    BY <1>1, <2>1, <2>2 DEF FileSystem, Overlay
  <2>4. Sound(g) /\ Ready(g, deps, os)
    BY <1>2, <2>2, <2>3 DEF Sound, Ready
  <2>5. DiskInv'
    BY <1>18, <1>2, <2>2, <2>4, WriteDisk DEF CopyTree, IInv
  <2>6. (\A h \in past' : ~h.consistent) /\ fs' = g
    BY <2>2, <2>3 DEF Write, IInv, StepInv, Unmarked
  <2> QED BY <1>18, <1>2, <2>2, <2>3, <2>5, <2>6 DEF CopyTree, IInv, PlaceInv, StepInv, Working, Unmarked, Fetching
<1>19. CASE InstallPydeps
  <2>1. DiskInv'
    BY <1>19, <1>2, StayDisk DEF InstallPydeps, IInv
  <2>2. fs.fin.v \in Versions
    BY <1>19, <1>1 DEF InstallPydeps, At, FileSystem, Versions, IInv, StepInv
  <2> QED BY <1>19, <1>2, <2>1, <2>2 DEF InstallPydeps, At, IInv, PlaceInv, StepInv, Working, Unmarked, Fetching
<1>20. CASE SetConsistent
  <2>1. PICK g : g = [Flushed(fs) EXCEPT !.consistent = TRUE]
    OBVIOUS
  <2>2. /\ pc = "consistent" /\ pc' = "end" /\ fs.fin.v # 0 /\ fs.fin.v \in deps
        /\ OsOf[fs.fin.v] \in {os, fs.slot}
    BY <1>20 DEF SetConsistent, At, IInv, PlaceInv, StepInv, Working, Unmarked, Fetching
  <2>3. Sync(g)
    <3>1. Flushed(g) = Flushed([fs EXCEPT !.consistent = TRUE])
      <4>1. fs.fin \in [v : 0..MaxVersion, of : Trees, synced : BOOLEAN]
        BY <1>1 DEF FileSystem
      <4>2. [fs.fin EXCEPT !.synced = TRUE] = [[fs.fin EXCEPT !.synced = TRUE] EXCEPT !.synced = TRUE]
        BY <4>1
      <4> QED BY <1>1, <2>1, <4>2 DEF Flushed, FileSystem
    <3> QED BY <1>20, <3>1 DEF SetConsistent, Sync
  <2>4. UNCHANGED <<deps, merged>>
    BY <1>20 DEF SetConsistent
  <2>5. Sound(Flushed(fs)) /\ Flushed(fs) \in FileSystem
    BY <1>1, FlushedSound DEF Sound
  <2>6. /\ Flushed(fs).base = fs.base /\ Flushed(fs).init = fs.init /\ Flushed(fs).slot = fs.slot
        /\ Flushed(fs).fin.v = fs.fin.v /\ Flushed(fs).fin.synced = TRUE
    BY <1>1, FlushedSound
  <2>7. /\ Sound(g) /\ Ready(g, deps', os')
        /\ g.base = fs.base /\ g.init = fs.init
    BY <1>2, <2>1, <2>2, <2>4, <2>5, <2>6 DEF Sound, Ready, FileSystem
  <2>8. DiskInv'
    BY <2>3, <2>7, SyncDisk
  <2>9. fs'.base = fs.base /\ fs'.init = fs.init
    BY <2>3, <2>7, FlushedSound DEF Sync
  <2> QED BY <1>2, <2>2, <2>4, <2>8, <2>9 DEF IInv, PlaceInv, StepInv, Working, Unmarked, Fetching
<1>21. CASE EndRound
  <2>1. DiskInv'
    BY <1>21, <1>2, StayDisk DEF EndRound, IInv
  <2> QED BY <1>21, <1>1, <1>2, <2>1 DEF EndRound, At, IInv, PlaceInv, StepInv, Working, Unmarked, Fetching
<1>22. CASE WakeUp
  <2>1. DiskInv'
    BY <1>22, <1>2, StayDisk DEF WakeUp, IInv
  <2> QED BY <1>22, <1>1, <1>2, <2>1 DEF WakeUp, At, IInv, PlaceInv, StepInv, Working, Unmarked, Fetching
<1>23. CASE RoundFails
  <2>1. PICK g : g = [fs EXCEPT !.init = "absent"]
    OBVIOUS
  <2>2. Write(g) /\ pc' = "sleep" /\ UNCHANGED <<deps, merged>>
    BY <1>23, <2>1 DEF RoundFails
  <2>3. Sound(g) /\ Ready(g, deps, os) /\ g.base = fs.base /\ g.init = "absent"
    BY <1>1, <2>1 DEF Sound, Ready, FileSystem
  <2>4. DiskInv'
    BY <1>2, <2>2, <2>3, WriteDisk DEF IInv
  <2> QED BY <1>2, <2>2, <2>3, <2>4 DEF Write, IInv, PlaceInv, StepInv, Working, Unmarked, Fetching
<1> QED BY <1>3, <1>4, <1>5, <1>6, <1>7, <1>8, <1>9, <1>10, <1>11, <1>12, <1>13, <1>14,
         <1>15, <1>16, <1>17, <1>18, <1>19, <1>20, <1>21, <1>22, <1>23 DEF Updated

-----------------------------------------------------------------------------
(* The theorems                                                            *)

(* What updated and the launcher keep true, at every interruption. *)
THEOREM Invariant == Spec => []IInv
<1>1. Init => IInv
  BY InitHolds
<1>2. IInv /\ [Next]_vars => IInv'
  <2> SUFFICES ASSUME IInv, [Next]_vars PROVE IInv'
    OBVIOUS
  <2>1. CASE UNCHANGED vars
    BY <2>1 DEF vars, IInv, DiskInv, PlaceInv, StepInv
  <2> QED BY <2>1, LauncherStep, UpdatedStep, OthersStep DEF Next
<1> QED BY <1>1, <1>2, PTL DEF Spec

(* A state has the types, and the flag stands only on a copy that is there *)
(* (updated.py:72-80).                                                     *)
THEOREM TypeCorrect == Spec => []TypeOK
<1>1. IInv => TypeOK
  <2> SUFFICES ASSUME IInv PROVE TypeOK
    OBVIOUS
  <2>1. past \subseteq FileSystem
    BY DEF IInv, DiskInv, Sound
  <2>2. fs.consistent => fs.fin.v # 0
    BY DEF IInv, DiskInv, Sound
  <2> QED BY <2>1, <2>2 DEF IInv, DiskInv, PlaceInv, Working, Unmarked, TypeOK
<1> QED BY <1>1, Invariant, PTL

(* Whenever the power goes there is a whole version on the disk            *)
(* (launch_chffrplus.sh:79-80, updated.py:179-200).                        *)
THEOREM AlwaysRecoverable == Spec => []Recoverable
<1>1. IInv => Recoverable
  <2> SUFFICES ASSUME IInv, NEW g \in past, NEW s \in Survives(g)
               PROVE  s.base.v # 0 \/ (s.old.v # 0 /\ s.fin.v # 0)
    BY DEF Recoverable
  <2>1. Sound(g) /\ Ready(g, deps, os)
    BY DEF IInv, DiskInv
  <2> QED BY <2>1, SurvivesSound DEF Sound
<1> QED BY <1>1, Invariant, PTL

(* Only the launcher's first mv begins a swap. *)
LEMMA InstallingIsInstall == Installing /\ Next => Install
BY DEF Installing, Next, Launcher, Install, InstallDone, AgnosInit, StartManager,
       Updated, StartUpdated, OverlayValid, PrepareStaging, RemoveStaging, TouchInit,
       MountOverlay, SkipFetch, FetchUpdate, BeginCheckout, EndCheckout, AgnosAccepted,
       BeginFlash, EndFlash, Finalize, RmTree, CopyTree, InstallPydeps, SetConsistent,
       EndRound, WakeUp, RoundFails, SetInconsistent,
       StopUpdated, Publish, LocalCommit, Reboot, PowerLoss, BootsWith

(* The launcher replaces only the BASEDIR the update was prepared from, at  *)
(* the very commit (launch_chffrplus.sh:60-72).                             *)
THEOREM SwapIsOfItsBase == Spec => SwapsItsBase
<1>1. IInv /\ [Next]_vars => [Installing => fs.fin.of = fs.base]_vars
  <2> SUFFICES ASSUME IInv, [Next]_vars, Installing PROVE fs.fin.of = fs.base
    OBVIOUS
  <2>1. Install
    BY InstallingIsInstall DEF Installing, vars
  <2>2. fs.init = "fresh" /\ fs.consistent
    BY <2>1 DEF Install, UpdateReady
  <2> QED BY <2>2, DiskFacts DEF Sound
<1> QED BY <1>1, Invariant, PTL DEF Spec, SwapsItsBase

(* What is swapped in drives without a network                             *)
(* (updated.py:214-219, 192-199).                                          *)
THEOREM SwapNeedsNoNetwork == Spec => NeedsNoNetwork
<1>1. IInv /\ [Next]_vars => [Installing => /\ fs.fin.v \in deps
                                            /\ OsOf[fs.fin.v] \in {os, fs.slot}]_vars
  <2> SUFFICES ASSUME IInv, [Next]_vars, Installing
               PROVE  fs.fin.v \in deps /\ OsOf[fs.fin.v] \in {os, fs.slot}
    OBVIOUS
  <2>1. Install
    BY InstallingIsInstall DEF Installing, vars
  <2>2. fs.init = "fresh" /\ fs.consistent /\ fs.old = NoTree
    BY <2>1 DEF Install, UpdateReady
  <2> QED BY <2>2, DiskFacts DEF Ready
<1> QED BY <1>1, Invariant, PTL DEF Spec, NeedsNoNetwork
===============================================================================
