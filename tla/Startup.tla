------------------------------ MODULE Startup ------------------------------
(***************************************************************************)
(* Application.Run (run.go) with SteamClient (steam.go), over any number   *)
(* of restarts of the container: recover, stage mods, bring the server     *)
(* tree to the Steam build, apply the mods, launch; or fall back to what   *)
(* is known to work.                                                       *)
(*                                                                         *)
(* The mods behave as ModUpdate says and one launch as ServerRun says: the *)
(* modules ModTransaction and Supervisor implement them.  A Build stands   *)
(* for a build ID with its depot manifest and branch.                      *)
(*                                                                         *)
(* Of SteamCMD it is assumed that it writes TargetBuildID before the first *)
(* file and buildid after the last, that an app_update that succeeds has   *)
(* repaired what was damaged, and that a branch only moves forward.        *)
(***************************************************************************)
EXTENDS Naturals, FiniteSets

CONSTANTS
  Gen,          \* generation IDs, in the order Stage makes them
  None,         \* no generation
  Build,        \* Steam builds, in the order of their release
  NoBuild,      \* no build: an empty build ID, an unreadable manifest
  Mixed,        \* content of a tree Steam has started to change
  Configs,      \* settings the operator may start the container with
  MaxStarts,    \* bound on starts of the container
  MaxFaults,    \* bound on failures and crashes
  MaxReleases   \* bound on changes of the remote build

ASSUME GenAssumption == Gen \subseteq Nat /\ None \notin Gen
ASSUME BuildAssumption == Build \subseteq Nat /\ NoBuild \notin Build /\ Mixed \notin Build /\ NoBuild # Mixed
ASSUME ConfigAssumption == Configs \subseteq [mods : BOOLEAN, updateMods : BOOLEAN, updateGame : BOOLEAN]
ASSUME BoundAssumption == {MaxStarts, MaxFaults, MaxReleases} \subseteq Nat

updateTries == 3
Parts == {"manifest", "files"}

VARIABLES
  \* the server tree and its appmanifest
  content,      \* the build all files belong to, or Mixed
  buildid, targetid,
  spoilt,       \* what is damaged: "manifest" cannot be read, "files" fail validation
  remote,       \* the build the branch points to
  \* state.json
  steamBuild,   \* SteamBuild, the build that last became ready
  degraded,     \* Runtime.Degraded
  fresh, installed, trial,
  \* Application.Run
  pc,
  cfg,          \* MODS_ENABLED, UPDATE_MODS, UPDATE_GAME
  loaded,       \* the local copy of state.json
  inst,         \* InstalledBuild as read at the start
  active,       \* the validated active generation
  selected, candidate, guarded,
  target, attempts,
  build, fallback,
  \* the launch
  stage, onTrial,
  \* history and bounds
  dirty,        \* the build that wrote saves no backup has yet
  overlooked,   \* the start that looked last at a tree of that build could not read its manifest
  ready,        \* builds with which a game became ready
  starts, faults, releases

tree == <<content, buildid, targetid, spoilt>>
state == <<steamBuild, degraded, fresh, installed, trial>>
locals == <<cfg, loaded, inst, active, selected, candidate, guarded, target, attempts, build, fallback>>
launched == <<stage, onTrial>>
saves == <<dirty, overlooked>>
bounds == <<starts, faults, releases>>
vars == <<tree, remote, state, pc, locals, launched, saves, ready, bounds>>

Mods == INSTANCE ModUpdate
Launch == INSTANCE ServerRun WITH trial <- onTrial

mods == <<fresh, installed, trial>>

Fault == faults < MaxFaults /\ faults' = faults + 1 /\ UNCHANGED <<starts, releases>>

(* Faulty variant: takes the buildid of a tree that is being updated. *)
InstalledBuildTrusting == buildid

(* InstalledBuild: NoBuild when the manifest is missing, cannot be read or parsed,
   or names another target. *)
InstalledBuild == IF targetid = buildid /\ "manifest" \notin spoilt THEN buildid ELSE NoBuild

(* ValidateInstalled(expected): the executable, steam_appid.txt, and the manifest
   read again *)
Validates(expected) == expected # NoBuild /\ InstalledBuild = expected /\ "files" \notin spoilt

(* Faulty variant: does not ask whether the build has ever been ready. *)
KnownGoodSteamInstalled == inst # NoBuild /\ Validates(inst)

(* validateKnownGoodSteam *)
KnownGoodSteam == inst # NoBuild /\ loaded.steamBuild = inst /\ Validates(inst)

(* The staged generation is withdrawn unless it was applied. *)
DiscardGuarded ==
  IF guarded THEN Mods!Withdraw(selected) ELSE UNCHANGED mods

(* Run returns with an error; the container is restarted. *)
Exit ==
  /\ DiscardGuarded /\ guarded' = FALSE /\ pc' = "off"
  /\ UNCHANGED <<cfg, loaded, inst, active, selected, candidate, target, attempts, build, fallback>>

-----------------------------------------------------------------------------
(* Recovery and inspection *)

(* Faulty variant: state.json is loaded before it is recovered. *)
BootLoadsFirst(c) ==
  /\ pc = "off" /\ stage = "stopped" /\ starts < MaxStarts
  /\ starts' = starts + 1 /\ UNCHANGED <<faults, releases>>
  /\ cfg' = c /\ pc' = "booted"
  /\ IF trial # None THEN Mods!Abandon ELSE UNCHANGED mods
  /\ loaded' = [steamBuild |-> steamBuild, installed |-> installed, trial |-> trial]
  /\ selected' = None /\ candidate' = FALSE /\ guarded' = FALSE
  /\ target' = NoBuild /\ attempts' = 0 /\ fallback' = FALSE
  /\ UNCHANGED <<tree, remote, steamBuild, degraded, inst, active, build, launched, saves, ready>>

(* The lock is taken, an interrupted trial is undone, state.json is loaded. *)
Boot(c) ==
  /\ pc = "off" /\ stage = "stopped" /\ starts < MaxStarts
  /\ starts' = starts + 1 /\ UNCHANGED <<faults, releases>>
  /\ cfg' = c /\ pc' = "booted"
  /\ IF trial # None THEN Mods!Abandon ELSE UNCHANGED mods
  /\ loaded' = [steamBuild |-> steamBuild, installed |-> installed', trial |-> trial']
  /\ selected' = None /\ candidate' = FALSE /\ guarded' = FALSE
  /\ target' = NoBuild /\ attempts' = 0 /\ fallback' = FALSE
  /\ UNCHANGED <<tree, remote, steamBuild, degraded, inst, active, build, launched, saves, ready>>

(* The start learns of what build the tree is, and of its mods: reading the manifest
   may fail, and loadActiveGeneration find no active record or refuse what it finds. *)
Inspect ==
  /\ pc = "booted" /\ pc' = "inspected"
  /\ LET given == IF cfg.mods THEN loaded.installed ELSE None IN
     \/ inst' = InstalledBuild /\ active' = given /\ UNCHANGED bounds
     \/ inst' = InstalledBuild /\ active' = None /\ cfg.mods /\ Fault
     \/ inst' = NoBuild /\ active' = given /\ Fault
  /\ overlooked' = IF content = dirty THEN inst' = NoBuild /\ ("manifest" \in spoilt \/ faults' # faults) ELSE overlooked
  /\ UNCHANGED <<tree, remote, state, launched, dirty, ready>>
  /\ UNCHANGED <<cfg, loaded, selected, candidate, guarded, target, attempts, build, fallback>>

-----------------------------------------------------------------------------
(* Fallback to the known-good pair *)

(* recordFallback saves the local copy; then the active generation is launched
   with the build that is installed. *)
RecordFallback ==
  /\ active # None /\ KnownGoodSteam
  /\ steamBuild' = loaded.steamBuild /\ degraded' = TRUE
  /\ IF guarded THEN fresh' = fresh \ {selected} ELSE UNCHANGED fresh
  /\ installed' = loaded.installed /\ trial' = loaded.trial
  /\ selected' = active /\ candidate' = FALSE /\ guarded' = FALSE
  /\ build' = inst /\ fallback' = TRUE /\ pc' = "launch"
  /\ UNCHANGED <<cfg, loaded, inst, active, target, attempts>>

(* There is no known-good pair, its files are not as recorded, or recording it
   fails before or after its rename. *)
FallbackRefused ==
  \/ (active = None \/ ~KnownGoodSteam) /\ UNCHANGED <<steamBuild, degraded>> /\ Exit
  \/ /\ active # None /\ KnownGoodSteam
     /\ steamBuild' = steamBuild /\ degraded' \in {degraded, TRUE} /\ Exit

(* A step that may give up what it does and fall back. *)
GiveUp ==
  /\ Fault /\ (RecordFallback \/ FallbackRefused)
  /\ UNCHANGED <<tree, remote, launched, saves, ready>>

-----------------------------------------------------------------------------
(* stageCandidate, or the frozen generation *)

NextID(g) == g \in fresh /\ \A h \in fresh : g <= h

Stage(g) ==
  /\ pc = "inspected" /\ cfg.mods /\ cfg.updateMods /\ NextID(g)
  /\ selected' = g /\ guarded' = TRUE /\ candidate' = TRUE /\ pc' = "staged"
  /\ UNCHANGED <<tree, remote, state, launched, saves, ready, bounds>>
  /\ UNCHANGED <<cfg, loaded, inst, active, target, attempts, build, fallback>>

StageFails == pc = "inspected" /\ cfg.mods /\ cfg.updateMods /\ GiveUp

UseActive ==
  /\ pc = "inspected" /\ cfg.mods /\ ~cfg.updateMods /\ active # None /\ KnownGoodSteam
  /\ selected' = active /\ pc' = "staged"
  /\ UNCHANGED <<tree, remote, state, launched, saves, ready, bounds>>
  /\ UNCHANGED <<cfg, loaded, inst, active, candidate, guarded, target, attempts, build, fallback>>

ActiveRefused ==
  /\ pc = "inspected" /\ cfg.mods /\ ~cfg.updateMods
  /\ ((active = None \/ ~KnownGoodSteam) /\ UNCHANGED bounds) \/ Fault
  /\ Exit
  /\ UNCHANGED <<tree, remote, steamBuild, degraded, launched, saves, ready>>

NoMods ==
  /\ pc = "inspected" /\ ~cfg.mods /\ pc' = "staged"
  /\ UNCHANGED <<tree, remote, state, locals, launched, saves, ready, bounds>>

-----------------------------------------------------------------------------
(* prepareSteam *)

UseBuild(b) ==
  /\ Validates(b)
  /\ build' = b /\ pc' = "prepared"
  /\ UNCHANGED <<cfg, loaded, inst, active, selected, candidate, guarded, target, attempts, fallback>>
  /\ UNCHANGED <<tree, remote, state, launched, saves, ready, bounds>>

(* UPDATE_GAME=false *)
KeepBuild == pc = "staged" /\ ~cfg.updateGame /\ UseBuild(inst)

(* A build that is not installed cannot be kept, nor one with damaged files, and
   reading them may fail. *)
KeepRefused ==
  /\ pc = "staged" /\ ~cfg.updateGame
  /\ (~Validates(inst) /\ UNCHANGED bounds) \/ Fault
  /\ Exit
  /\ UNCHANGED <<tree, remote, steamBuild, degraded, launched, saves, ready>>

RemoteBuild ==
  /\ pc = "staged" /\ cfg.updateGame
  /\ target' = remote /\ pc' = "queried"
  /\ UNCHANGED <<tree, remote, state, launched, saves, ready, bounds>>
  /\ UNCHANGED <<cfg, loaded, inst, active, selected, candidate, guarded, attempts, build, fallback>>

RemoteBuildFails == pc = "staged" /\ cfg.updateGame /\ GiveUp

IsCurrent == pc = "queried" /\ inst = target /\ UseBuild(inst)

(* The build is the one the branch points to, but its files fail validation: the
   start ends without an update, as will the next. *)
CurrentRefused ==
  /\ pc = "queried" /\ inst = target
  /\ (~Validates(inst) /\ UNCHANGED bounds) \/ Fault
  /\ Exit
  /\ UNCHANGED <<tree, remote, steamBuild, degraded, launched, saves, ready>>

(* Faulty variant: backs up only what has become ready. *)
NeedsBackupIfReady == inst # NoBuild /\ inst = loaded.steamBuild

NeedsBackup == inst # NoBuild

(* Create and Prune, when a build is installed. *)
BackUp ==
  /\ pc = "queried" /\ inst # target
  /\ dirty' = IF NeedsBackup THEN NoBuild ELSE dirty
  /\ pc' = "updating"
  /\ UNCHANGED <<tree, remote, state, locals, launched, overlooked, ready, bounds>>

(* Create or Prune fails. *)
BackUpFails ==
  /\ pc = "queried" /\ inst # target /\ NeedsBackup
  /\ Fault /\ (RecordFallback \/ FallbackRefused)
  /\ dirty' \in {dirty, NoBuild}
  /\ UNCHANGED <<tree, remote, launched, overlooked, ready>>

UpdateRefused == pc = "updating" /\ attempts = 0 /\ GiveUp

(* Faulty variant: repairs only a tree whose build it can read. *)
UpdateInstalledOnly ==
  /\ pc = "updating" /\ attempts < updateTries /\ (inst # NoBuild \/ content = NoBuild)
  /\ content' = remote /\ buildid' = remote /\ targetid' = remote /\ spoilt' = {}
  /\ pc' = "updated"
  /\ UNCHANGED <<remote, state, locals, launched, saves, ready, bounds>>

(* app_update succeeds and installs what the branch points to by now: a build whose
   files may not be what the controller asks for. *)
Update ==
  /\ pc = "updating" /\ attempts < updateTries
  /\ content' = remote /\ buildid' = remote /\ targetid' = remote
  /\ (spoilt' = {} /\ UNCHANGED bounds) \/ (spoilt' = {"files"} /\ Fault)
  /\ pc' = "updated"
  /\ UNCHANGED <<remote, state, locals, launched, saves, ready>>

(* What an app_update leaves behind that fails or is cut off. *)
Interrupted ==
  \/ UNCHANGED tree
  \/ buildid # remote /\ content' = Mixed /\ targetid' = remote /\ spoilt' \in SUBSET spoilt /\ UNCHANGED buildid
  \/ content' = remote /\ buildid' = remote /\ targetid' = remote /\ spoilt' \in SUBSET spoilt

(* An attempt fails; the last one is fatal. *)
UpdateAttemptFails ==
  /\ pc = "updating" /\ Fault
  /\ Interrupted
  /\ attempts' = attempts + 1
  /\ IF attempts' = updateTries
     THEN /\ DiscardGuarded /\ guarded' = FALSE /\ pc' = "off"
     ELSE UNCHANGED <<mods, guarded, pc>>
  /\ UNCHANGED <<cfg, loaded, inst, active, selected, candidate, target, build, fallback>>
  /\ UNCHANGED <<remote, steamBuild, degraded, launched, saves, ready>>

UpdateValidated == pc = "updated" /\ UseBuild(target)

(* Another build was installed than the query announced, or its files are not
   as they should be, or reading them fails. *)
UpdateMismatch ==
  /\ pc = "updated"
  /\ (~Validates(target) /\ UNCHANGED bounds) \/ Fault
  /\ Exit
  /\ UNCHANGED <<tree, remote, steamBuild, degraded, launched, saves, ready>>

-----------------------------------------------------------------------------
(* Apply and launch *)

Apply ==
  /\ pc = "prepared" /\ candidate
  /\ Mods!Try(selected) /\ guarded' = FALSE /\ pc' = "applied"
  /\ UNCHANGED <<cfg, loaded, inst, active, selected, candidate, target, attempts, build, fallback>>
  /\ UNCHANGED <<tree, remote, steamBuild, degraded, launched, saves, ready, bounds>>

(* Rolled back, or left for the recovery of the next start. *)
ApplyFails ==
  /\ pc = "prepared" /\ candidate /\ Fault
  /\ Mods!Withdraw(selected) \/ Mods!Try(selected)
  /\ guarded' = FALSE /\ pc' = "off"
  /\ UNCHANGED <<cfg, loaded, inst, active, selected, candidate, target, attempts, build, fallback>>
  /\ UNCHANGED <<tree, remote, steamBuild, degraded, launched, saves, ready>>

ClearDegraded ==
  /\ pc = "applied" \/ (pc = "prepared" /\ ~candidate)
  /\ degraded' = FALSE /\ pc' = "launch"
  /\ UNCHANGED <<steamBuild, mods, locals, tree, remote, launched, saves, ready, bounds>>

(* rollbackCandidate, which may leave the rest to the next start. *)
RollBack == IF candidate THEN Mods!Abandon \/ UNCHANGED mods ELSE UNCHANGED mods

(* state.json, the settings or the log directory fail. *)
LaunchFails ==
  /\ pc \in {"applied", "launch"} \/ (pc = "prepared" /\ ~candidate)
  /\ Fault /\ RollBack /\ pc' = "off"
  /\ UNCHANGED <<steamBuild, degraded, locals, tree, remote, launched, saves, ready>>

(* The game starts, and may write to its saves from now on. *)
StartGame ==
  /\ pc = "launch" /\ pc' = "launched"
  /\ stage' = "starting" /\ onTrial' = IF candidate THEN "pending" ELSE "none"
  /\ dirty' = build /\ overlooked' = FALSE
  /\ UNCHANGED <<tree, remote, state, locals, ready, bounds>>

(* OnReady: CommitPromotion, which may fail when it is already durable. *)
CommitPromotion ==
  /\ pc = "launched" /\ Mods!Promote
  /\ \/ Launch!Decide("promoted") /\ UNCHANGED bounds
     \/ Launch!Decide("inDoubt") /\ Fault
  /\ UNCHANGED <<tree, remote, steamBuild, degraded, pc, locals, saves, ready>>

(* Readiness is recorded together with the build. *)
Serve ==
  /\ pc = "launched" /\ Launch!Serve
  /\ steamBuild' = build /\ ready' = ready \cup {build}
  /\ UNCHANGED <<tree, remote, degraded, mods, pc, locals, saves, bounds>>

(* The game stops before it serves or afterwards; a record of readiness that
   failed may have been written all the same. *)
StopGame ==
  /\ pc = "launched" /\ Launch!Stop
  /\ (onTrial = "inDoubt" /\ UNCHANGED bounds) \/ Fault
  /\ \/ UNCHANGED <<steamBuild, ready>>
     \/ /\ stage = "starting" /\ onTrial \in {"none", "promoted"}
        /\ steamBuild' = build /\ ready' = ready \cup {build}
  /\ UNCHANGED <<tree, remote, degraded, mods, pc, locals, saves>>

(* launch returns: a candidate that was not promoted is rolled back. *)
Conclude ==
  /\ pc = "launched" /\ stage = "stopped" /\ pc' = "off"
  /\ IF onTrial = "pending"
     THEN Launch!Drop /\ (Mods!Abandon \/ UNCHANGED mods)
     ELSE UNCHANGED <<launched, mods>>
  /\ UNCHANGED <<tree, remote, steamBuild, degraded, locals, saves, ready, bounds>>

-----------------------------------------------------------------------------
(* The container is killed, with whatever runs in it. *)
Crash ==
  /\ pc # "off" /\ Fault /\ pc' = "off"
  /\ DiscardGuarded /\ guarded' = FALSE
  /\ stage' = "stopped" /\ UNCHANGED onTrial
  /\ IF pc = "updating" THEN Interrupted ELSE UNCHANGED tree
  /\ UNCHANGED <<cfg, loaded, inst, active, selected, candidate, target, attempts, build, fallback>>
  /\ UNCHANGED <<remote, steamBuild, degraded, saves, ready>>

(* An operator or the disk damages the tree, at any time. *)
Spoil(part) ==
  /\ content \in Build /\ part \notin spoilt /\ Fault
  /\ spoilt' = spoilt \cup {part}
  /\ UNCHANGED <<content, buildid, targetid, remote, state, pc, locals, launched, saves, ready>>

Release(b) ==
  /\ releases < MaxReleases /\ b > remote
  /\ remote' = b /\ releases' = releases + 1
  /\ UNCHANGED <<tree, state, pc, locals, launched, saves, ready, starts, faults>>

-----------------------------------------------------------------------------
Init ==
  /\ content = NoBuild /\ buildid = NoBuild /\ targetid = NoBuild /\ spoilt = {} /\ remote \in Build
  /\ steamBuild = NoBuild /\ degraded = FALSE /\ Mods!Init
  /\ pc = "off" /\ cfg \in Configs
  /\ loaded = [steamBuild |-> NoBuild, installed |-> None, trial |-> None]
  /\ inst = NoBuild /\ active = None /\ selected = None /\ candidate = FALSE /\ guarded = FALSE
  /\ target = NoBuild /\ attempts = 0 /\ build = NoBuild /\ fallback = FALSE
  /\ stage = "stopped" /\ onTrial = "none"
  /\ dirty = NoBuild /\ overlooked = FALSE /\ ready = {} /\ starts = 0 /\ faults = 0 /\ releases = 0

PrepareMods == (\E g \in Gen : Stage(g)) \/ StageFails \/ UseActive \/ ActiveRefused \/ NoMods

PrepareSteam ==
  \/ KeepBuild \/ KeepRefused \/ RemoteBuild \/ RemoteBuildFails \/ IsCurrent \/ CurrentRefused
  \/ BackUp \/ BackUpFails
  \/ UpdateRefused \/ Update \/ UpdateAttemptFails \/ UpdateValidated \/ UpdateMismatch

PrepareLaunch == Apply \/ ApplyFails \/ ClearDegraded \/ LaunchFails

Supervised == StartGame \/ CommitPromotion \/ Serve \/ StopGame \/ Conclude

Controller ==
  (\E c \in Configs : Boot(c)) \/ Inspect \/ PrepareMods \/ PrepareSteam \/ PrepareLaunch \/ Supervised

Next == Controller \/ Crash \/ (\E part \in Parts : Spoil(part)) \/ \E b \in Build : Release(b)

Spec == Init /\ [][Next]_vars

(* The container is restarted whenever the controller is gone, every wait of
   the controller ends, and so do faults. *)
FairSpec == Spec /\ WF_vars(Controller /\ faults' = faults)

-----------------------------------------------------------------------------
Builds == Build \cup {NoBuild}
Generations == Gen \cup {None}

PCs == {"off", "booted", "inspected", "staged", "queried", "updating", "updated",
        "prepared", "applied", "launch", "launched"}

(* Every variable keeps to its values; in particular Steam is never asked for
   an update more than three times in a run. *)
TypeOK ==
  /\ {buildid, targetid, steamBuild, inst, target, build, dirty} \subseteq Builds
  /\ content \in Builds \cup {Mixed} /\ remote \in Build /\ ready \subseteq Build /\ spoilt \subseteq Parts
  /\ fresh \subseteq Gen /\ {installed, trial, active, selected} \subseteq Generations
  /\ loaded \in [steamBuild : Builds, installed : Generations, trial : Generations]
  /\ pc \in PCs /\ cfg \in Configs
  /\ attempts \in 0 .. updateTries /\ (pc = "updating" => attempts < updateTries)
  /\ {degraded, candidate, guarded, fallback, overlooked} \subseteq BOOLEAN
  /\ stage \in {"starting", "serving", "stopped"}
  /\ onTrial \in {"none", "pending", "promoted", "inDoubt", "dropped"}
  /\ starts \in 0 .. MaxStarts /\ faults \in 0 .. MaxFaults /\ releases \in 0 .. MaxReleases

(* A game runs only from a tree that is, in every file Steam has written, the one
   build its manifest names and launch was given: an update that failed or was cut
   off in this run or an earlier one is never served. *)
TreeIsWhole == stage # "stopped" => content = build /\ buildid = build

(* As README.md has it, the tree is never changed away from a build that has written
   saves before a backup of them is complete.  It does not hold: a start that cannot
   read the manifest updates without a backup. *)
SavesBackedUp == dirty # NoBuild => content = dirty

(* What does hold: the tree is changed away from a build with saves in no backup only
   by a start that could not read of what build it is, because the manifest was damaged
   or reading it failed; refused, failed, interrupted and repeated updates and backups
   do not lead there. *)
SavesBackedUpIfRead == dirty # NoBuild /\ ~overlooked => content = dirty

(* A fallback serves only a build that has been ready before, with the
   generation a restart would use, and nothing is on trial meanwhile. *)
FallbackKnownGood ==
  stage # "stopped" /\ fallback =>
    build \in ready /\ trial = None /\ selected = installed /\ installed # None

(* However starts fall back, crash or are repeated, the mod lifecycle is that
   of ModUpdate: no start revives a generation that was abandoned or forgets
   one that was promoted, not even by saving a copy of state.json it loaded
   earlier. *)
ImplementsModUpdate == Mods!Spec

(* The installed build is the one the branch points to, but its files fail validation. *)
CurrentDamaged == "files" \in spoilt /\ InstalledBuild = remote

(* With the default settings, once faults and releases stop the server serves for
   good: no sequence of failures leaves a tree or a state.json that no later start can
   repair, save the one that CurrentRefused refuses every time. *)
SelfHeals ==
  [](cfg = [mods |-> TRUE, updateMods |-> TRUE, updateGame |-> TRUE] /\ ~CurrentDamaged)
    => <>[](stage = "serving")

=============================================================================
