--------------------------- MODULE StartupProofs ----------------------------
(***************************************************************************)
(* The safety properties of Startup, proved for any generations, builds,   *)
(* settings and bounds, from one inductive invariant.  Its parts say what  *)
(* the manifest tells of the tree (TreeInv), when saves are without a      *)
(* backup (SavesInv), that the local copy of state.json is still true when *)
(* it is saved again (CopyInv), and what a fallback has made sure of       *)
(* (FallbackInv).                                                          *)
(***************************************************************************)
EXTENDS Startup, TLAPS

-----------------------------------------------------------------------------
(* The inductive invariant *)

Examining == {"inspected", "staged", "queried"}
Preparing == {"booted", "updating", "updated", "prepared"} \cup Examining
Chosen == {"prepared", "applied", "launch", "launched"}

(* A manifest names one build if and only if the tree is of one build, and that one.
   Damage is not part of it: it is looked for when a build is chosen. *)
TreeInv ==
  /\ targetid = buildid <=> content # Mixed
  /\ content # Mixed => content = buildid
  /\ pc \in Examining \cup {"booted"} => attempts = 0
  /\ pc \in Chosen => build # NoBuild /\ targetid = buildid /\ buildid = build
  /\ stage # "stopped" => pc = "launched"

(* Saves without a backup belong to the build of the tree, unless it was overlooked:
   no build was read, though the manifest named one. *)
SavesInv ==
  /\ dirty # NoBuild /\ ~overlooked => content = dirty
  /\ pc \in Examining /\ inst = NoBuild => dirty = NoBuild \/ overlooked
  /\ pc = "updating" => dirty = NoBuild \/ overlooked

(* Until mods are applied nothing but this run changes state.json. *)
CopyInv ==
  /\ {steamBuild, loaded.steamBuild} \subseteq ready \cup {NoBuild}
  /\ pc \in Preparing =>
       /\ loaded.installed = installed /\ loaded.trial = None /\ trial = None
       /\ ~fallback
  /\ pc \in Preparing \ {"booted"} => active \in {None, installed}
  /\ pc = "applied" => ~fallback

(* After a fallback the pair is known and no trial is open or to be decided. *)
FallbackInv ==
  fallback /\ pc \in {"launch", "launched"} =>
    /\ build \in ready /\ selected = installed /\ installed # None /\ trial = None
    /\ ~candidate /\ (pc = "launched" => onTrial # "pending")

IInv == TypeOK /\ TreeInv /\ SavesInv /\ CopyInv /\ FallbackInv

(* The values of the variables, apart from the bounds of the instance. *)
LEMMA InitInv == Init => IInv
<1> SUFFICES ASSUME Init PROVE IInv
  OBVIOUS
<1> USE BoundAssumption, BuildAssumption
    DEF IInv, TypeOK, TreeInv, SavesInv, CopyInv, FallbackInv, Builds, Generations, PCs, Examining, Preparing, Chosen,
        InstalledBuild, updateTries, Parts
<1>1. TypeOK
  <2>1. loaded \in [steamBuild : Builds, installed : Generations, trial : Generations]
    BY DEF Init
  <2>2. fresh \subseteq Gen /\ {installed, trial, active, selected} \subseteq Generations
    BY DEF Init, Mods!Init
  <2>3. /\ starts \in 0 .. MaxStarts /\ faults \in 0 .. MaxFaults
        /\ releases \in 0 .. MaxReleases /\ attempts \in 0 .. updateTries
    BY DEF Init
  <2>4. {buildid, targetid, steamBuild, inst, target, build, dirty} \subseteq Builds /\ content \in Builds \cup {Mixed}
    BY DEF Init
  <2> QED BY <2>1, <2>2, <2>3, <2>4 DEF Init
<1>2. TreeInv /\ SavesInv /\ CopyInv /\ FallbackInv
  BY DEF Init
<1> QED BY <1>1, <1>2

(* What is on trial and installed keeps to its values when a generation is withdrawn. *)
LEMMA DiscardOK ==
  ASSUME TypeOK, DiscardGuarded
  PROVE  fresh' \subseteq Gen /\ installed' = installed /\ trial' = trial
BY DEF TypeOK, DiscardGuarded, Mods!Withdraw, mods

(* The run ends, in whatever way the tree and the mods are left. *)
LEMMA OffInv ==
  ASSUME IInv, pc' = "off", stage' = "stopped",
         fresh' \subseteq Gen, installed' \in Generations, trial' \in Generations,
         guarded' \in BOOLEAN, degraded' \in BOOLEAN, attempts' \in 0 .. updateTries, faults' \in 0 .. MaxFaults,
         {buildid', targetid'} \subseteq Builds, content' \in Builds \cup {Mixed},
         targetid' = buildid' <=> content' # Mixed, content' # Mixed => content' = buildid', spoilt' \subseteq Parts,
         dirty' \in {dirty, NoBuild}, dirty' = NoBuild \/ overlooked \/ content' = content, overlooked' = overlooked,
         UNCHANGED <<remote, cfg, loaded, inst, active, selected, candidate, target, build, fallback>>,
         UNCHANGED <<steamBuild, ready, onTrial, starts, releases>>
  PROVE  IInv'
<1> USE BoundAssumption, BuildAssumption
    DEF IInv, TypeOK, TreeInv, SavesInv, CopyInv, FallbackInv, Builds, Generations, PCs, Examining, Preparing, Chosen,
        InstalledBuild, updateTries, Parts, tree
<1>1. TypeOK'
  OBVIOUS
<1>2. TreeInv' /\ SavesInv' /\ CopyInv' /\ FallbackInv'
  OBVIOUS
<1> QED BY <1>1, <1>2

LEMMA FaultOK == ASSUME TypeOK, Fault PROVE faults' \in 0 .. MaxFaults /\ starts' = starts /\ releases' = releases
BY BoundAssumption DEF TypeOK, Fault

(* Exit ends a run. *)
LEMMA ExitInv ==
  ASSUME IInv, Exit, stage = "stopped", degraded' \in BOOLEAN,
         UNCHANGED <<tree, remote, launched, steamBuild, ready>>, dirty' \in {dirty, NoBuild}, overlooked' = overlooked, Fault \/ UNCHANGED bounds
  PROVE  IInv'
<1>1. faults' \in 0 .. MaxFaults /\ starts' = starts /\ releases' = releases
  BY FaultOK DEF IInv, TypeOK, bounds
<1>2. fresh' \subseteq Gen /\ installed' = installed /\ trial' = trial
  BY DiscardOK DEF IInv, Exit
<1> QED
  BY <1>1, <1>2, OffInv DEF Exit, IInv, TypeOK, TreeInv, SavesInv, tree, launched

(* SteamCMD never leaves a manifest that names one build for other files. *)
LEMMA InterruptedOK ==
  ASSUME TypeOK, TreeInv, Interrupted
  PROVE  /\ {buildid', targetid'} \subseteq Builds /\ content' \in Builds \cup {Mixed}
         /\ spoilt' \subseteq Parts
         /\ targetid' = buildid' <=> content' # Mixed
         /\ content' # Mixed => content' = buildid'
BY BuildAssumption DEF TypeOK, TreeInv, Interrupted, Builds, tree

LEMMA CrashOK ==
  ASSUME TypeOK, TreeInv, Crash
  PROVE  /\ {buildid', targetid'} \subseteq Builds /\ content' \in Builds \cup {Mixed}
         /\ spoilt' \subseteq Parts /\ (targetid' = buildid' <=> content' # Mixed) /\ (content' # Mixed => content' = buildid')
         /\ overlooked' = overlooked /\ dirty' = dirty /\ (pc = "updating" \/ content' = content)
<1>1. UNCHANGED <<dirty, overlooked>>
  BY DEF Crash, saves
<1>2. CASE pc = "updating"
  <2>1. Interrupted
    BY <1>2 DEF Crash
  <2> QED BY <1>1, <1>2, <2>1, InterruptedOK
<1>3. CASE pc # "updating"
  <2>1. UNCHANGED <<content, buildid, targetid, spoilt>>
    BY <1>3 DEF Crash, tree
  <2> QED BY <1>1, <2>1 DEF TypeOK, TreeInv
<1> QED BY <1>2, <1>3

(* Falling back, or giving up, from any of the steps that may. *)
LEMMA GiveUpInv ==
  ASSUME IInv, pc \in {"inspected", "staged", "queried", "updating"},
         Fault, RecordFallback \/ FallbackRefused, dirty' \in {dirty, NoBuild}, overlooked' = overlooked,
         UNCHANGED <<tree, remote, launched, ready>>
  PROVE  IInv'
<1>0. faults' \in 0 .. MaxFaults /\ starts' = starts /\ releases' = releases
  BY FaultOK DEF IInv
<1>1. CASE RecordFallback
  <2> USE BoundAssumption, BuildAssumption
      DEF IInv, TypeOK, TreeInv, SavesInv, CopyInv, FallbackInv, Builds, Generations, PCs, Examining, Preparing, Chosen,
          InstalledBuild, updateTries, Parts, tree, launched
  <2>1. /\ active = installed /\ active # None /\ loaded.installed = installed /\ loaded.trial = None
        /\ inst # NoBuild /\ loaded.steamBuild = inst /\ InstalledBuild = inst /\ inst \in ready
    BY <1>1 DEF RecordFallback, KnownGoodSteam, Validates
  <2>2. /\ fresh' \subseteq Gen /\ installed' = installed /\ trial' = None /\ steamBuild' = inst /\ degraded' = TRUE
        /\ selected' = active /\ candidate' = FALSE /\ guarded' = FALSE /\ build' = inst /\ fallback' = TRUE
        /\ pc' = "launch" /\ UNCHANGED <<cfg, loaded, inst, active, target, attempts>>
    BY <1>1, <2>1 DEF RecordFallback
  <2>3. TypeOK'
    BY <1>0, <2>1, <2>2
  <2>4. TreeInv' /\ SavesInv' /\ CopyInv' /\ FallbackInv'
    BY <2>1, <2>2
  <2> QED BY <2>3, <2>4
<1>2. CASE FallbackRefused
  BY <1>2, ExitInv DEF FallbackRefused, IInv, TypeOK, TreeInv
<1> QED BY <1>1, <1>2

(* Preparing the mods *)
LEMMA PrepareModsInv == IInv /\ PrepareMods => IInv'
<1> SUFFICES ASSUME IInv, PrepareMods PROVE IInv'
  OBVIOUS
<1> USE BoundAssumption, BuildAssumption
    DEF IInv, TypeOK, TreeInv, SavesInv, CopyInv, FallbackInv, Builds, Generations, PCs, Examining, Preparing, Chosen,
        InstalledBuild, updateTries, Parts, tree, state, locals, launched, saves, bounds, mods
<1>1. CASE \E g \in Gen : Stage(g)
  BY <1>1 DEF Stage, NextID
<1>2. CASE StageFails
  BY <1>2, GiveUpInv DEF StageFails, GiveUp
<1>3. CASE UseActive
  BY <1>3 DEF UseActive
<1>4. CASE ActiveRefused
  BY <1>4, ExitInv DEF ActiveRefused
<1>5. CASE NoMods
  BY <1>5 DEF NoMods
<1> QED BY <1>1, <1>2, <1>3, <1>4, <1>5 DEF PrepareMods

(* Preparing the server tree *)
LEMMA PrepareSteamInv == IInv /\ PrepareSteam => IInv'
<1> SUFFICES ASSUME IInv, PrepareSteam PROVE IInv'
  OBVIOUS
<1> USE BoundAssumption, BuildAssumption
    DEF IInv, TypeOK, TreeInv, SavesInv, CopyInv, FallbackInv, Builds, Generations, PCs, Examining, Preparing, Chosen,
        InstalledBuild, updateTries, Parts, tree, state, locals, launched, saves, bounds, mods
<1>1. CASE KeepBuild
  BY <1>1 DEF KeepBuild, UseBuild, Validates
<1>2. CASE KeepRefused
  BY <1>2, ExitInv DEF KeepRefused
<1>3. CASE RemoteBuild
  BY <1>3 DEF RemoteBuild
<1>4. CASE RemoteBuildFails
  BY <1>4, GiveUpInv DEF RemoteBuildFails, GiveUp
<1>5. CASE IsCurrent
  BY <1>5 DEF IsCurrent, UseBuild, Validates
<1>6. CASE CurrentRefused
  BY <1>6, ExitInv DEF CurrentRefused
<1>7. CASE BackUp
  BY <1>7 DEF BackUp, NeedsBackup
<1>8. CASE BackUpFails
  BY <1>8, GiveUpInv DEF BackUpFails
<1>9. CASE UpdateRefused
  BY <1>9, GiveUpInv DEF UpdateRefused, GiveUp
<1>10. CASE Update
  <2>1. /\ pc = "updating" /\ pc' = "updated" /\ content' = remote /\ buildid' = remote /\ targetid' = remote
        /\ UNCHANGED <<remote, state, locals, launched, saves, ready>>
    BY <1>10 DEF Update
  <2>2. spoilt' \subseteq Parts /\ faults' \in 0 .. MaxFaults /\ starts' = starts /\ releases' = releases
    BY <1>10, FaultOK DEF Update
  <2>3. TypeOK'
    BY <2>1, <2>2
  <2>4. TreeInv' /\ SavesInv' /\ CopyInv' /\ FallbackInv'
    BY <2>1
  <2> QED BY <2>3, <2>4
<1>11. CASE UpdateAttemptFails
  <2>1. faults' \in 0 .. MaxFaults /\ starts' = starts /\ releases' = releases
    BY <1>11, FaultOK DEF UpdateAttemptFails
  <2>2. /\ {buildid', targetid'} \subseteq Builds /\ content' \in Builds \cup {Mixed}
        /\ spoilt' \subseteq Parts /\ (targetid' = buildid' <=> content' # Mixed) /\ (content' # Mixed => content' = buildid')
    BY <1>11, InterruptedOK DEF UpdateAttemptFails
  <2>3. /\ pc = "updating" /\ attempts' \in 0 .. updateTries
        /\ UNCHANGED <<cfg, loaded, inst, active, selected, candidate, target, build, fallback>>
        /\ UNCHANGED <<remote, steamBuild, degraded, launched, saves, ready>>
    BY <1>11 DEF UpdateAttemptFails
  <2>4. CASE attempts' = updateTries
    <3>1. fresh' \subseteq Gen /\ installed' = installed /\ trial' = trial /\ guarded' = FALSE /\ pc' = "off"
      BY <1>11, <2>4, DiscardOK DEF UpdateAttemptFails
    <3> QED BY <2>1, <2>2, <2>3, <3>1, OffInv
  <2>5. CASE attempts' # updateTries
    <3>1. UNCHANGED <<mods, guarded, pc>>
      BY <1>11, <2>5 DEF UpdateAttemptFails
    <3> QED BY <2>1, <2>2, <2>3, <2>5, <3>1
  <2> QED BY <2>4, <2>5
<1>12. CASE UpdateValidated
  BY <1>12 DEF UpdateValidated, UseBuild, Validates
<1>13. CASE UpdateMismatch
  BY <1>13, ExitInv DEF UpdateMismatch
<1> QED BY <1>1, <1>2, <1>3, <1>4, <1>5, <1>6, <1>7, <1>8, <1>9, <1>10, <1>11, <1>12, <1>13 DEF
   PrepareSteam

(* Applying the mods *)
LEMMA PrepareLaunchInv == IInv /\ PrepareLaunch => IInv'
<1> SUFFICES ASSUME IInv, PrepareLaunch PROVE IInv'
  OBVIOUS
<1> USE BoundAssumption, BuildAssumption
    DEF IInv, TypeOK, TreeInv, SavesInv, CopyInv, FallbackInv, Builds, Generations, PCs, Examining, Preparing, Chosen,
        InstalledBuild, updateTries, Parts, tree, state, locals, launched, saves, bounds, mods
<1>1. CASE Apply
  <2>1. /\ pc = "prepared" /\ fresh' \subseteq Gen /\ trial' = selected /\ installed' = installed
        /\ guarded' = FALSE /\ pc' = "applied"
        /\ UNCHANGED <<cfg, loaded, inst, active, selected, candidate, target, attempts, build, fallback>>
        /\ UNCHANGED <<tree, remote, steamBuild, degraded, launched, saves, ready, bounds>>
    BY <1>1 DEF Apply, Mods!Try
  <2>2. TypeOK'
    BY <2>1
  <2>3. TreeInv' /\ SavesInv' /\ CopyInv' /\ FallbackInv'
    BY <2>1
  <2> QED BY <2>2, <2>3
<1>2. CASE ApplyFails
  <2>1. faults' \in 0 .. MaxFaults /\ starts' = starts /\ releases' = releases
    BY <1>2, FaultOK DEF ApplyFails
  <2>2. fresh' \subseteq Gen /\ installed' \in Generations /\ trial' \in Generations
    BY <1>2 DEF ApplyFails, Mods!Try, Mods!Withdraw
  <2>3. /\ pc' = "off" /\ stage' = "stopped" /\ guarded' = FALSE
        /\ UNCHANGED <<cfg, loaded, inst, active, selected, candidate, target, attempts, build, fallback>>
        /\ UNCHANGED <<tree, remote, steamBuild, degraded, launched, saves, ready>>
    BY <1>2 DEF ApplyFails
  <2>4. TypeOK'
    BY <2>1, <2>2, <2>3
  <2>5. TreeInv' /\ SavesInv' /\ CopyInv' /\ FallbackInv'
    BY <2>3
  <2> QED BY <2>4, <2>5
<1>3. CASE ClearDegraded
  <2>1. /\ pc \in {"applied", "prepared"} /\ degraded' = FALSE /\ pc' = "launch"
        /\ UNCHANGED <<fresh, installed, trial, guarded, cfg, loaded, inst, active, selected, candidate>>
        /\ UNCHANGED <<target, attempts, build, fallback>>
        /\ UNCHANGED <<tree, remote, steamBuild, launched, saves, ready, bounds>>
    BY <1>3 DEF ClearDegraded
  <2>2. TypeOK'
    BY <2>1
  <2>3. TreeInv' /\ SavesInv' /\ CopyInv' /\ FallbackInv'
    BY <2>1
  <2> QED BY <2>2, <2>3
<1>4. CASE LaunchFails
  BY <1>4 DEF LaunchFails, RollBack, Mods!Abandon, Fault
<1> QED BY <1>1, <1>2, <1>3, <1>4 DEF PrepareLaunch

(* The launch *)
LEMMA SupervisedInv == IInv /\ Supervised => IInv'
<1> SUFFICES ASSUME IInv, Supervised PROVE IInv'
  OBVIOUS
<1> USE BoundAssumption, BuildAssumption
    DEF IInv, TypeOK, TreeInv, SavesInv, CopyInv, FallbackInv, Builds, Generations, PCs, Examining, Preparing, Chosen,
        InstalledBuild, updateTries, Parts, tree, state, locals, launched, saves, bounds, mods
<1>1. CASE StartGame
  BY <1>1 DEF StartGame
<1>2. CASE CommitPromotion
  <2>1. /\ pc = "launched" /\ installed' = trial /\ trial' = None /\ trial # None /\ fresh' = fresh
        /\ onTrial = "pending" /\ onTrial' \in {"promoted", "inDoubt"} /\ stage' = stage
        /\ UNCHANGED <<tree, remote, steamBuild, degraded, pc, locals, saves, ready>>
    BY <1>2 DEF CommitPromotion, Mods!Promote, Launch!Decide
  <2>2. faults' \in 0 .. MaxFaults /\ starts' = starts /\ releases' = releases
    BY <1>2, FaultOK DEF CommitPromotion
  <2>3. TypeOK'
    BY <2>1, <2>2
  <2>4. TreeInv' /\ SavesInv' /\ CopyInv' /\ FallbackInv'
    BY <2>1
  <2> QED BY <2>3, <2>4
<1>3. CASE Serve
  <2>1. /\ pc = "launched" /\ onTrial \in {"none", "promoted"} /\ onTrial' = onTrial /\ stage' = "serving"
        /\ steamBuild' = build /\ ready' = ready \cup {build}
        /\ UNCHANGED <<tree, remote, degraded, mods, pc, locals, saves, bounds>>
    BY <1>3 DEF Serve, Launch!Serve
  <2>2. build \in Build
    BY <2>1
  <2>3. TypeOK'
    BY <2>1, <2>2
  <2>4. TreeInv' /\ SavesInv' /\ CopyInv' /\ FallbackInv'
    BY <2>1
  <2> QED BY <2>3, <2>4
<1>4. CASE StopGame
  <2>1. faults' \in 0 .. MaxFaults /\ starts' = starts /\ releases' = releases
    BY <1>4, FaultOK DEF StopGame
  <2>2. /\ pc = "launched" /\ stage' = "stopped" /\ onTrial' = onTrial
        /\ UNCHANGED <<tree, remote, degraded, mods, pc, locals, saves>>
    BY <1>4 DEF StopGame, Launch!Stop
  <2>3. /\ steamBuild' \in {steamBuild, build} /\ ready \subseteq ready' /\ ready' \subseteq Build
        /\ steamBuild' \in ready' \cup {NoBuild}
    BY <1>4 DEF StopGame
  <2>4. TypeOK'
    BY <2>1, <2>2, <2>3
  <2>5. TreeInv' /\ SavesInv'
    BY <2>1, <2>2
  <2>6. CopyInv' /\ FallbackInv'
    BY <2>1, <2>2, <2>3
  <2> QED BY <2>4, <2>5, <2>6
<1>5. CASE Conclude
  BY <1>5 DEF Conclude, Launch!Drop, Mods!Abandon
<1> QED BY <1>1, <1>2, <1>3, <1>4, <1>5 DEF Supervised

(* Every step of a start, of the container and of Steam keeps the invariant. *)
LEMMA NextInv == IInv /\ [Next]_vars => IInv'
<1> SUFFICES ASSUME IInv, [Next]_vars PROVE IInv'
  OBVIOUS
<1> USE BoundAssumption, BuildAssumption
    DEF IInv, TypeOK, TreeInv, SavesInv, CopyInv, FallbackInv, Builds, Generations, PCs, Examining, Preparing, Chosen,
        InstalledBuild, updateTries, Parts, tree, state, locals, launched, saves, bounds, mods
<1>1. CASE \E c \in Configs : Boot(c)
  <2>1. PICK c \in Configs : Boot(c)
    BY <1>1
  <2>2. fresh' = fresh /\ installed' = installed /\ trial' = None
    BY <2>1 DEF Boot, Mods!Abandon
  <2>3. loaded' = [steamBuild |-> steamBuild, installed |-> installed, trial |-> None]
    BY <2>1, <2>2 DEF Boot
  <2>4. /\ pc' = "booted" /\ pc = "off" /\ stage = "stopped"
        /\ cfg' \in Configs /\ starts' \in 0 .. MaxStarts /\ selected' = None
        /\ candidate' = FALSE /\ guarded' = FALSE /\ target' = NoBuild /\ attempts' = 0 /\ fallback' = FALSE
        /\ UNCHANGED <<tree, remote, steamBuild, degraded, inst, active, build, launched, saves, ready, faults, releases>>
    BY <2>1 DEF Boot
  <2>5. TypeOK'
    <3>1. loaded' \in [steamBuild : Builds, installed : Generations, trial : Generations]
      BY <2>3
    <3>2. fresh' \subseteq Gen /\ {installed', trial', active', selected'} \subseteq Generations
      BY <2>2, <2>4
    <3>3. {buildid', targetid', steamBuild', inst', target', build', dirty'} \subseteq Builds
      BY <2>4
    <3>4. /\ content' \in Builds \cup {Mixed} /\ remote' \in Build /\ ready' \subseteq Build
          /\ pc' \in PCs /\ cfg' \in Configs
          /\ attempts' \in 0 .. updateTries /\ pc' # "updating"
      BY <2>4
    <3>5. {degraded', candidate', guarded', fallback', overlooked'} \subseteq BOOLEAN /\ spoilt' \subseteq Parts
      BY <2>4
    <3>6. /\ stage' \in {"starting", "serving", "stopped"}
          /\ onTrial' \in {"none", "pending", "promoted", "inDoubt", "dropped"}
          /\ starts' \in 0 .. MaxStarts /\ faults' \in 0 .. MaxFaults /\ releases' \in 0 .. MaxReleases
      BY <2>4
    <3> QED BY <3>1, <3>2, <3>3, <3>4, <3>5, <3>6
  <2>6. TreeInv' /\ SavesInv' /\ CopyInv' /\ FallbackInv'
    BY <2>2, <2>3, <2>4
  <2> QED BY <2>5, <2>6
<1>2. CASE Inspect
  <2>1. active' \in {None, installed} /\ faults' \in 0 .. MaxFaults /\ starts' = starts /\ releases' = releases
    BY <1>2, FaultOK DEF Inspect
  <2>2. TypeOK'
    BY <1>2, <2>1 DEF Inspect
  <2>3. /\ pc = "booted" /\ pc' = "inspected" /\ inst' \in {InstalledBuild, NoBuild}
        /\ UNCHANGED <<tree, remote, state, launched, dirty, ready, loaded, build, fallback, attempts>>
    BY <1>2 DEF Inspect
  <2>4. TreeInv'
    BY <2>3
  <2>5. SavesInv'
    <3>1. CASE content = dirty
      <4>1. overlooked' = (inst' = NoBuild /\ ("manifest" \in spoilt \/ faults' # faults))
        BY <1>2, <3>1 DEF Inspect
      <4>2. CASE dirty # NoBuild /\ inst' = NoBuild
        <5>1. targetid = buildid /\ content = buildid
          BY <3>1, <4>2
        <5>2. inst' = InstalledBuild \/ Fault
          BY <1>2 DEF Inspect
        <5>3. Fault => faults' # faults
          BY DEF Fault
        <5>4. overlooked'
          BY <4>1, <4>2, <3>1, <5>1, <5>2, <5>3
        <5> QED BY <2>3, <5>4
      <4> QED BY <2>3, <3>1, <4>2
    <3>2. CASE content # dirty
      <4>1. overlooked' = overlooked
        BY <1>2, <3>2 DEF Inspect
      <4> QED BY <2>3, <3>2, <4>1
    <3> QED BY <3>1, <3>2
  <2>6. CopyInv' /\ FallbackInv'
    BY <1>2, <2>1 DEF Inspect
  <2> QED BY <2>2, <2>4, <2>5, <2>6
<1>3. CASE Crash
  <2>1. faults' \in 0 .. MaxFaults /\ starts' = starts /\ releases' = releases
    BY <1>3, FaultOK DEF Crash
  <2>2. fresh' \subseteq Gen /\ installed' = installed /\ trial' = trial
    BY <1>3, DiscardOK DEF Crash
  <2>3. /\ {buildid', targetid'} \subseteq Builds /\ content' \in Builds \cup {Mixed}
        /\ spoilt' \subseteq Parts /\ (targetid' = buildid' <=> content' # Mixed) /\ (content' # Mixed => content' = buildid')
        /\ overlooked' = overlooked /\ dirty' = dirty /\ (pc = "updating" \/ content' = content)
    BY <1>3, CrashOK
  <2> QED BY <1>3, <2>1, <2>2, <2>3, OffInv DEF Crash
<1>4. CASE \E b \in Build : Release(b)
  BY <1>4 DEF Release
<1>5. CASE UNCHANGED vars
  BY <1>5 DEF vars
<1>6. CASE \E part \in Parts : Spoil(part)
  <2>1. faults' \in 0 .. MaxFaults /\ starts' = starts /\ releases' = releases
    BY <1>6, FaultOK DEF Spoil
  <2>2. spoilt' \subseteq Parts
    BY <1>6 DEF Spoil
  <2> QED BY <1>6, <2>1, <2>2 DEF Spoil
<1> QED
  BY <1>1, <1>2, <1>3, <1>4, <1>5, <1>6, PrepareModsInv, PrepareSteamInv, PrepareLaunchInv, SupervisedInv
     DEF Next, Controller

THEOREM Invariance == Spec => []IInv
BY InitInv, NextInv, PTL DEF Spec

-----------------------------------------------------------------------------
(* A game runs only from a tree that is one build in every file. *)
THEOREM Whole == Spec => []TreeIsWhole
<1>1. IInv => TreeIsWhole
  BY DEF IInv, TreeInv, Chosen, InstalledBuild, TreeIsWhole
<1> QED BY <1>1, Invariance, PTL

(* Saves are left behind without a backup only by a start that could not read the
   manifest of their tree. *)
THEOREM Backed == Spec => []SavesBackedUpIfRead
<1>1. IInv => SavesBackedUpIfRead
  BY DEF IInv, SavesInv, SavesBackedUpIfRead
<1> QED BY <1>1, Invariance, PTL

(* A fallback serves a build that was ready before, with the installed mods. *)
THEOREM KnownGood == Spec => []FallbackKnownGood
<1>1. IInv => FallbackKnownGood
  BY DEF IInv, TreeInv, FallbackInv, FallbackKnownGood
<1> QED BY <1>1, Invariance, PTL

-----------------------------------------------------------------------------
(* Every step is one of the mod lifecycle, or does not touch it: the copy of
   state.json that a fallback saves is still what is there. *)
LEMMA ModStep == IInv /\ [Next]_vars => [Mods!Next]_(Mods!vars)
<1> SUFFICES ASSUME IInv, [Next]_vars PROVE Mods!Next \/ UNCHANGED <<fresh, installed, trial>>
  BY DEF Mods!vars
<1> USE DEF mods, state
<1>1. ASSUME DiscardGuarded PROVE Mods!Next \/ UNCHANGED mods
  BY <1>1 DEF DiscardGuarded, IInv, TypeOK, Mods!Withdraw, Mods!Next
<1>2. ASSUME RecordFallback, pc \in {"inspected", "staged", "queried", "updating"} PROVE Mods!Next \/ UNCHANGED mods
  <2>1. installed' = installed /\ trial' = trial
    BY <1>2 DEF RecordFallback, IInv, CopyInv, Preparing, Examining
  <2>2. CASE guarded /\ selected \in fresh
    BY <1>2, <2>1, <2>2 DEF RecordFallback, IInv, TypeOK, Mods!Withdraw, Mods!Next
  <2>3. CASE ~(guarded /\ selected \in fresh)
    BY <1>2, <2>1, <2>3 DEF RecordFallback
  <2> QED BY <2>2, <2>3
<1>3. CASE PrepareMods
  BY <1>1, <1>2, <1>3 DEF PrepareMods, Stage, StageFails, UseActive, ActiveRefused, NoMods, GiveUp,
     FallbackRefused, Exit
<1>4. CASE PrepareSteam
  BY <1>1, <1>2, <1>4
     DEF PrepareSteam, KeepBuild, KeepRefused, RemoteBuild, RemoteBuildFails, IsCurrent, CurrentRefused, UseBuild,
         BackUp, BackUpFails, UpdateRefused, Update, UpdateAttemptFails, UpdateValidated, UpdateMismatch,
         GiveUp, FallbackRefused, Exit
<1>5. CASE PrepareLaunch
  BY <1>5 DEF PrepareLaunch, Apply, ApplyFails, ClearDegraded, LaunchFails, RollBack, IInv, TypeOK,
              Mods!Withdraw, Mods!Try, Mods!Abandon, Mods!Next
<1>6. CASE Supervised
  BY <1>6 DEF Supervised, StartGame, CommitPromotion, Serve, StopGame, Conclude, Mods!Next
<1>7. CASE (\E c \in Configs : Boot(c)) \/ Inspect \/ Crash \/ (\E part \in Parts : Spoil(part)) \/ (\E b \in Build : Release(b)) \/ UNCHANGED vars
  BY <1>1, <1>7 DEF Boot, Inspect, Crash, Spoil, Release, vars, Mods!Next
<1> QED BY <1>3, <1>4, <1>5, <1>6, <1>7 DEF Next, Controller

(* However starts fall back, crash or are repeated, the mods go through the
   lifecycle of ModUpdate. *)
THEOREM Refinement == Spec => ImplementsModUpdate
<1>1. Init => Mods!Init
  BY DEF Init
<1> QED BY <1>1, Invariance, ModStep, PTL DEF Spec, ImplementsModUpdate, Mods!Spec

=============================================================================
