--------------------------- MODULE ModTransaction ---------------------------
(***************************************************************************)
(* The managed-file transaction of vrisingctl (mods.go, state.go): how a   *)
(* staged generation of mod files replaces the active one in the live      *)
(* server tree, survives a crash at any rename, unlink or state.json       *)
(* write, and is finally promoted or rolled back.                          *)
(*                                                                         *)
(* One action is one durable file-system operation together with the       *)
(* in-memory decision that leads to it.  A generation stands for its ID,   *)
(* its package lock and its record; a file stands for its SHA-256.  The    *)
(* quarantine and tombstone of a path lie below the candidate generation's *)
(* own rollback directory, so quar and tomb speak of the current candidate.*)
(***************************************************************************)
EXTENDS Naturals, Sequences, FiniteSets

CONSTANTS
  Gen,          \* generation IDs
  Path,         \* managed server-relative paths, ordered as slices.Sort does
  Hash,         \* contents of managed files
  Cfg,          \* contents of BepInEx/config/BepInEx.cfg
  None,         \* a nil *GenerationRecord
  Absent,       \* no file at a path (an empty SHA-256 in the journal)
  Foreign,      \* content that no generation ever contained
  Manifest,     \* Manifest[g][p]: content of p in generation g, or Absent
  Template,     \* the BepInEx.cfg shipped in the archive
  Disable,      \* disableConsoleLogging on contents
  MaxFaults,    \* bound on crashes, failures that end the process and writes by an operator
  MaxExternal   \* bound on the writes alone

ASSUME PathAssumption == Path \subseteq Nat
ASSUME NoneAssumption == None \notin Gen
ASSUME AbsentAssumption == Absent \notin Hash /\ Absent \notin Cfg /\ Absent # Foreign
ASSUME ForeignAssumption == Foreign \notin Hash
ASSUME ManifestAssumption == Manifest \in [Gen -> [Path -> Hash \cup {Absent}]]
ASSUME ConfigAssumption ==
  /\ Template \in Cfg
  /\ Disable \in [Cfg -> Cfg]
  /\ \A c \in Cfg : Disable[Disable[c]] = Disable[c]
ASSUME BoundAssumption == MaxFaults \in Nat /\ MaxExternal \in Nat

VARIABLES
  \* state.json; every action that changes several of these is one Store.Save
  active, previous, candidate, failed,
  phase,           \* Transaction.Phase, "none" when Transaction is nil
  orig, inst,      \* OriginalSHA256 and InstalledSHA256 of each journal entry
  cfgEntry,        \* Transaction.Config is present
  cfgOrig, cfgInst,
  promotion,       \* Promotion.GenerationID
  pendingCleanup,  \* PendingCleanup
  pkgLock,         \* package-lock.json, named by the generation it belongs to
  \* the server tree and the candidate's rollback directory
  live, quar, tomb, cfgLive, cfgQuar,
  gens,            \* directories below generations/
  \* the controller process
  pc, mode,        \* program point; who called recovery or reconcilePromotion
  selected,        \* the staged generation held by Application.Run
  guarded,         \* guardedStage is set
  todo, plan,      \* journal entries still to process; what is left for the first
  \* history and bounds
  used,            \* generation IDs ever created
  touched,         \* paths written by somebody else
  cfgTouched,      \* BepInEx.cfg written while the game was not running
  blocked,         \* a validation of recovery or promotion has failed
  lastCfg,         \* the last BepInEx.cfg content written by game or operator
  crashes, externals

journal == <<phase, orig, inst, cfgEntry, cfgOrig, cfgInst>>
records == <<active, previous, candidate, failed>>
state == <<records, journal, promotion, pendingCleanup>>
files == <<live, quar, tomb>>
config == <<cfgLive, cfgQuar>>
proc == <<pc, mode, selected, guarded, todo, plan>>
history == <<used, touched, cfgTouched, blocked, lastCfg, crashes, externals>>
vars == <<state, pkgLock, files, config, gens, proc, history>>

GenOrNone == Gen \cup {None}
Content == Hash \cup {Absent}
Nothing == [p \in Path |-> Absent]

(* The files a generation record stands for; a nil record has none. *)
Overlay(g) == IF g = None THEN Nothing ELSE Manifest[g]

(* Faulty variant: forgets the paths only the prior generation has. *)
EntriesOfNext(o, n) == {p \in Path : n[p] # Absent}

(* unionManagedPaths: the paths that have a journal entry. *)
Entries(o, n) == {p \in Path : o[p] # Absent \/ n[p] # Absent}

(* The journal entry a loop over the sorted paths handles next. *)
Current(p) == p \in todo /\ \A q \in todo : p <= q

(* generationIsReferenced *)
Referenced(g) == g \in {active, previous, candidate, failed}

(* Faulty variant: does not skip nil records. *)
CleanupGenerationIDsWithNil(a, b) == <<a, b>>

(* cleanupGenerationIDs *)
CleanupGenerationIDs(a, b) ==
  (IF a = None THEN <<>> ELSE <<a>>) \o (IF b = None \/ b = a THEN <<>> ELSE <<b>>)

(* validateTransactionState, which every Load and Save of state.json makes: a
   candidate and its journal exist together, and the entry of BepInEx.cfg has
   content to install. *)
StateValid == (candidate = None <=> phase = "none") /\ (cfgEntry => cfgInst # Absent)

(* transactionArtifacts: every artifact that exists has its journalled hash. *)
ArtifactsValid ==
  /\ StateValid
  /\ \A p \in Entries(orig, inst) : quar[p] \in {Absent, orig[p]} /\ tomb[p] \in {Absent, inst[p]}
  /\ cfgEntry => cfgQuar \in {Absent, cfgOrig}

(* verifyInstalledManagedFiles *)
Installed(g) == \A p \in Path : Overlay(g)[p] # Absent => live[p] = Overlay(g)[p]

(* prepareConsoleConfig: the content to publish. *)
ConsoleConfig == Disable[IF cfgLive = Absent THEN Template ELSE cfgLive]

-----------------------------------------------------------------------------
(* Control flow shared by the actions. *)

ApplyPoints == {"apply", "verify", "publish", "cfgVerify", "cfgPublish", "applied"}

GameUp == pc \in {"running", "serving"} \/
          (mode = "commit" /\ pc \in {"reconcile", "commit", "promote", "cleanup", "cleaned"})

Goto(point) == pc' = point /\ UNCHANGED <<mode, selected, guarded, todo, plan>>

(* The process is gone: only what is on disk is left. *)
ProcessGone ==
  /\ pc' = "down" /\ mode' = "boot" /\ selected' = None /\ guarded' = FALSE
  /\ todo' = {} /\ plan' = "done"

(* A check of recovery, promotion or cleanup failed: the run ends. *)
Refuse ==
  /\ ProcessGone
  /\ blocked' = TRUE
  /\ UNCHANGED <<state, pkgLock, files, config, gens, used, touched, cfgTouched, lastCfg, crashes, externals>>

(* rollbackCandidate *)
ToRollback ==
  /\ pc' = "recover" /\ mode' = "rollback"
  /\ todo' = {} /\ plan' = "done" /\ UNCHANGED <<selected, guarded>>

-----------------------------------------------------------------------------
(* RecoverInterruptedTransaction *)

Boot ==
  /\ pc = "down" /\ Goto("recover")
  /\ UNCHANGED <<state, pkgLock, files, config, gens, history>>

(* Faulty variant: takes a promotion for finished once the candidate is active. *)
RecoverSkipsCleanup ==
  /\ pc = "recover" /\ StateValid
  /\ \/ promotion # None /\ candidate # None /\ Goto("reconcile")
     \/ candidate = None /\ Goto(IF mode = "boot" THEN "idle" ELSE "discard")
     \/ /\ promotion = None /\ candidate # None /\ ArtifactsValid
        /\ pc' = "inspect" /\ todo' = Entries(orig, inst)
        /\ UNCHANGED <<mode, selected, guarded, plan>>
  /\ UNCHANGED <<state, pkgLock, files, config, gens, history>>

Recover ==
  /\ pc = "recover" /\ StateValid
  /\ \/ promotion # None /\ Goto("reconcile")
     \/ /\ promotion = None /\ candidate = None
        /\ Goto(IF mode = "boot" THEN "idle" ELSE "discard")
     \/ /\ promotion = None /\ candidate # None /\ ArtifactsValid
        /\ pc' = "inspect" /\ todo' = Entries(orig, inst)
        /\ UNCHANGED <<mode, selected, guarded, plan>>
  /\ UNCHANGED <<state, pkgLock, files, config, gens, history>>

RecoverRefused ==
  /\ pc = "recover" /\ (~StateValid \/ (promotion = None /\ candidate # None /\ ~ArtifactsValid))
  /\ Refuse

(* Faulty variant: an installed new file is left in place, and a quarantine is
   dropped as soon as anything is at the live path. *)
RecoveryPlanTrustsLive(o, n, l, q, t) ==
  IF t # Absent THEN IF q # Absent THEN "restoreDropTomb" ELSE "dropTomb"
  ELSE IF q = Absent THEN "done" ELSE IF l = Absent THEN "restore" ELSE "dropQuar"

(* The decision table of recoverQuarantinedJournalEntry: original content o,
   installed content n, and what lies at the live path, in the quarantine and
   in the tombstone.  The answer names the file operations still to be done. *)
RecoveryPlan(o, n, l, q, t) ==
  LET newFile ==
        IF t # Absent THEN IF l = Absent THEN "dropTomb" ELSE "error"
        ELSE IF l = Absent THEN "done" ELSE IF l = n THEN "displaceDrop" ELSE "error"
      unmoved ==
        IF l # o THEN "error" ELSE IF t = Absent THEN "done" ELSE "dropTomb"
      moved ==
        IF l = o /\ t = Absent THEN "dropQuar"
        ELSE IF l = Absent THEN IF t = Absent THEN "restore" ELSE "restoreDropTomb"
        ELSE IF l = n /\ t = Absent THEN "displaceRestore" ELSE "error"
  IN IF q \notin {Absent, o} \/ t \notin {Absent, n} THEN "error"
     ELSE IF o = Absent THEN newFile ELSE IF q = Absent THEN unmoved ELSE moved

PlanFor(p) == RecoveryPlan(orig[p], inst[p], live[p], quar[p], tomb[p])

(* Snapshot the three places of one entry and decide. *)
InspectEntry(p) ==
  /\ pc = "inspect" /\ Current(p) /\ PlanFor(p) # "error"
  /\ IF PlanFor(p) = "done"
     THEN todo' = todo \ {p} /\ UNCHANGED <<pc, plan>>
     ELSE pc' = "operate" /\ plan' = PlanFor(p) /\ UNCHANGED todo
  /\ UNCHANGED <<mode, selected, guarded, state, pkgLock, files, config, gens, history>>

InspectRefused(p) ==
  /\ pc = "inspect" /\ Current(p) /\ PlanFor(p) = "error"
  /\ Refuse

PlanDone(p) ==
  /\ pc' = "inspect" /\ todo' = todo \ {p} /\ plan' = "done"
  /\ UNCHANGED <<mode, selected, guarded>>

PlanNext(next) == plan' = next /\ UNCHANGED <<pc, mode, selected, guarded, todo>>

(* moveFileNoReplace live -> tombstone *)
Displace(p) ==
  /\ pc = "operate" /\ Current(p) /\ plan \in {"displaceDrop", "displaceRestore"}
  /\ live[p] # Absent /\ tomb[p] = Absent
  /\ live' = [live EXCEPT ![p] = Absent]
  /\ tomb' = [tomb EXCEPT ![p] = live[p]]
  /\ PlanNext(IF plan = "displaceDrop" THEN "dropTomb" ELSE "restoreDropTomb")
  /\ UNCHANGED <<quar, state, pkgLock, config, gens, history>>

(* moveFileNoReplace quarantine -> live *)
Restore(p) ==
  /\ pc = "operate" /\ Current(p) /\ plan \in {"restore", "restoreDropTomb"}
  /\ live[p] = Absent /\ quar[p] # Absent
  /\ live' = [live EXCEPT ![p] = quar[p]]
  /\ quar' = [quar EXCEPT ![p] = Absent]
  /\ IF plan = "restore" THEN PlanDone(p) ELSE PlanNext("dropTomb")
  /\ UNCHANGED <<tomb, state, pkgLock, config, gens, history>>

(* removeJournalArtifact of the tombstone, after its content is verified *)
DropTombstone(p) ==
  /\ pc = "operate" /\ Current(p) /\ plan = "dropTomb"
  /\ tomb[p] = inst[p]
  /\ tomb' = [tomb EXCEPT ![p] = Absent]
  /\ PlanDone(p)
  /\ UNCHANGED <<live, quar, state, pkgLock, config, gens, history>>

(* removeJournalArtifact of the quarantine: the live file equals it *)
DropQuarantine(p) ==
  /\ pc = "operate" /\ Current(p) /\ plan = "dropQuar"
  /\ quar[p] = orig[p]
  /\ quar' = [quar EXCEPT ![p] = Absent]
  /\ PlanDone(p)
  /\ UNCHANGED <<live, tomb, state, pkgLock, config, gens, history>>

(* The precondition of the pending operation: renameat2 with RENAME_NOREPLACE
   needs its source present and its target free, unlink the expected content. *)
OperationSafe(p) ==
  CASE plan \in {"displaceDrop", "displaceRestore"} -> live[p] # Absent /\ tomb[p] = Absent
    [] plan \in {"restore", "restoreDropTomb"}      -> live[p] = Absent /\ quar[p] # Absent
    [] plan = "dropTomb"                            -> tomb[p] = inst[p]
    [] OTHER                                        -> quar[p] = orig[p]

(* The file changed between the snapshot and the operation. *)
OperateRefused(p) ==
  /\ pc = "operate" /\ Current(p) /\ ~OperationSafe(p)
  /\ Refuse

(* recoverConfigJournalEntry *)
ConfigPlan ==
  IF cfgQuar \notin {Absent, cfgOrig} THEN "error"
  ELSE IF cfgLive \notin {Absent, cfgInst} \/ cfgOrig = Absent THEN "done"
  ELSE IF cfgQuar = Absent THEN IF cfgLive = Absent THEN "error" ELSE "done"
  ELSE IF cfgLive = Absent THEN "restore" ELSE "dropQuar"

InspectConfig ==
  /\ pc = "inspect" /\ todo = {} /\ cfgEntry /\ plan = "done" /\ ConfigPlan # "error"
  /\ IF ConfigPlan = "done"
     THEN pc' = "forget" /\ UNCHANGED plan
     ELSE pc' = "cfgOperate" /\ plan' = ConfigPlan
  /\ UNCHANGED <<mode, selected, guarded, todo, state, pkgLock, files, config, gens, history>>

InspectConfigRefused ==
  /\ pc = "inspect" /\ todo = {} /\ cfgEntry /\ ConfigPlan = "error"
  /\ Refuse

OperateConfig ==
  /\ pc = "cfgOperate"
  /\ \/ plan = "restore" /\ cfgLive = Absent /\ cfgLive' = cfgQuar
     \/ plan = "dropQuar" /\ UNCHANGED cfgLive
  /\ cfgQuar' = Absent
  /\ pc' = "forget" /\ plan' = "done"
  /\ UNCHANGED <<mode, selected, guarded, todo, state, pkgLock, files, gens, history>>

OperateConfigRefused ==
  /\ pc = "cfgOperate" /\ plan = "restore" /\ cfgLive # Absent
  /\ Refuse

(* Clear the recovered transaction; the candidate becomes the failed record. *)
ForgetTransaction ==
  /\ \/ pc = "forget"
     \/ pc = "inspect" /\ todo = {} /\ ~cfgEntry
  /\ candidate' = None /\ failed' = candidate
  /\ phase' = "none" /\ orig' = Nothing /\ inst' = Nothing
  /\ cfgEntry' = FALSE /\ cfgOrig' = Absent /\ cfgInst' = Absent
  /\ Goto(IF mode = "boot" THEN "idle" ELSE "discard")
  /\ UNCHANGED <<active, previous, promotion, pendingCleanup, pkgLock, files, config, gens, history>>

-----------------------------------------------------------------------------
(* Application.Run between recovery and launch *)

(* loadActiveGeneration, then verifyInstalledManagedFiles: the active generation
   can be served as it is.  Whether the Steam build is known good too is left open. *)
KnownGood == active # None /\ active \in gens /\ pkgLock = active /\ Installed(active)

(* fallbackOrFailure: serve the active generation, or leave. *)
FallBack ==
  \/ KnownGood /\ pc' = "serving" /\ mode' = "boot" /\ selected' = None /\ guarded' = FALSE
     /\ todo' = {} /\ plan' = "done"
  \/ ProcessGone

(* Faulty variant: a directory named after the digest alone comes back. *)
StageByDigest(g) ==
  /\ pc = "idle" /\ g \notin gens
  /\ used' = used \cup {g} /\ gens' = gens \cup {g}
  /\ pc' = "staging" /\ selected' = g /\ UNCHANGED <<mode, guarded, todo, plan>>
  /\ UNCHANGED <<state, pkgLock, files, config, touched, cfgTouched, blocked, lastCfg, crashes, externals>>

(* ModManager.Stage makes a fresh directory, named after digest and time ... *)
Stage(g) ==
  /\ pc = "idle" /\ g \notin used
  /\ used' = used \cup {g} /\ gens' = gens \cup {g}
  /\ pc' = "staging" /\ selected' = g /\ UNCHANGED <<mode, guarded, todo, plan>>
  /\ UNCHANGED <<state, pkgLock, files, config, touched, cfgTouched, blocked, lastCfg, crashes, externals>>

(* ... and keeps it only when everything is extracted and recorded. *)
StageComplete ==
  /\ pc = "staging"
  /\ pc' = "staged" /\ guarded' = TRUE /\ UNCHANGED <<mode, selected, todo, plan>>
  /\ UNCHANGED <<state, pkgLock, files, config, gens, history>>

StageFailed ==
  /\ pc = "staging"
  /\ gens' = gens \ {selected}
  /\ FallBack
  /\ UNCHANGED <<state, pkgLock, files, config, history>>

(* prepareSteam falls back or fails: discardGuardedStage, then FallBack. *)
DiscardStaged ==
  /\ pc = "staged" /\ ~Referenced(selected)
  /\ gens' = gens \ {selected}
  /\ FallBack
  /\ UNCHANGED <<state, pkgLock, files, config, history>>

(* UPDATE_MODS=false, or the update cannot even be resolved. *)
LaunchActive ==
  /\ pc = "idle" /\ KnownGood /\ Goto("serving")
  /\ UNCHANGED <<state, pkgLock, files, config, gens, history>>

(* Any failure before staging, or the end of a served game. *)
Exit ==
  /\ pc \in {"idle", "serving"} /\ ProcessGone
  /\ UNCHANGED <<state, pkgLock, files, config, gens, history>>

(* The deferred discardGuardedStage after rollbackCandidate. *)
DiscardAfterRollback ==
  /\ pc = "discard"
  /\ gens' = IF guarded /\ ~Referenced(selected) THEN gens \ {selected} ELSE gens
  /\ ProcessGone
  /\ UNCHANGED <<state, pkgLock, files, config, history>>

-----------------------------------------------------------------------------
(* ModManager.Apply *)

(* The live tree is the prior inventory on every path either side manages. *)
InventoryMatches ==
  \A p \in Entries(Overlay(active), Manifest[selected]) : live[p] = Overlay(active)[p]

CanApply == (active = None \/ active \in gens) /\ InventoryMatches

(* Persist the journal before the first mutation. *)
BeginApply ==
  /\ pc = "staged" /\ CanApply
  /\ candidate' = selected /\ phase' = "applying"
  /\ orig' = Overlay(active) /\ inst' = Manifest[selected]
  /\ cfgEntry' = (ConsoleConfig # cfgLive)
  /\ cfgOrig' = IF ConsoleConfig # cfgLive THEN cfgLive ELSE Absent
  /\ cfgInst' = IF ConsoleConfig # cfgLive THEN ConsoleConfig ELSE Absent
  /\ cfgQuar' = Absent   \* the candidate's own, still empty, rollback directory
  /\ pc' = "apply" /\ todo' = Entries(Overlay(active), Manifest[selected])
  /\ UNCHANGED <<mode, selected, guarded, plan>>
  /\ UNCHANGED <<active, previous, failed, promotion, pendingCleanup, pkgLock, files, cfgLive, gens, history>>

ApplyRefused ==
  /\ pc = "staged" /\ ~CanApply /\ ToRollback
  /\ UNCHANGED <<state, pkgLock, files, config, gens, history>>

(* quarantineManagedFile, the rename *)
QuarantineFile(p) ==
  /\ pc = "apply" /\ Current(p) /\ orig[p] # Absent
  /\ live[p] # Absent /\ quar[p] = Absent
  /\ live' = [live EXCEPT ![p] = Absent] /\ quar' = [quar EXCEPT ![p] = live[p]]
  /\ Goto("verify")
  /\ UNCHANGED <<tomb, state, pkgLock, config, gens, history>>

(* quarantineManagedFile, the check of what was really moved *)
VerifyQuarantine(p) ==
  /\ pc = "verify" /\ Current(p) /\ quar[p] = orig[p]
  /\ Goto("publish")
  /\ UNCHANGED <<state, pkgLock, files, config, gens, history>>

(* Somebody else's file was moved: put it back unless the name is taken again. *)
RestoreDisplaced(p) ==
  /\ pc = "verify" /\ Current(p) /\ quar[p] # orig[p]
  /\ live' = [live EXCEPT ![p] = IF live[p] = Absent THEN quar[p] ELSE live[p]]
  /\ quar' = [quar EXCEPT ![p] = IF live[p] = Absent THEN Absent ELSE quar[p]]
  /\ ToRollback
  /\ UNCHANGED <<tomb, state, pkgLock, config, gens, history>>

AtPublish(p) == Current(p) /\ (pc = "publish" \/ (pc = "apply" /\ orig[p] = Absent))

(* Faulty variant: rename without RENAME_NOREPLACE. *)
PublishFileReplacing(p) ==
  /\ AtPublish(p)
  /\ live' = [live EXCEPT ![p] = inst[p]]
  /\ pc' = "apply" /\ todo' = todo \ {p} /\ UNCHANGED <<mode, selected, guarded, plan>>
  /\ UNCHANGED <<quar, tomb, state, pkgLock, config, gens, history>>

(* publishServerFile, or the check that a stale path stays deleted *)
PublishFile(p) ==
  /\ AtPublish(p) /\ live[p] = Absent
  /\ live' = [live EXCEPT ![p] = inst[p]]
  /\ pc' = "apply" /\ todo' = todo \ {p} /\ UNCHANGED <<mode, selected, guarded, plan>>
  /\ UNCHANGED <<quar, tomb, state, pkgLock, config, gens, history>>

PublishRefused(p) ==
  /\ AtPublish(p) /\ live[p] # Absent /\ ToRollback
  /\ UNCHANGED <<state, pkgLock, files, config, gens, history>>

AtConfig == pc = "apply" /\ todo = {} /\ cfgEntry

QuarantineConfig ==
  /\ AtConfig /\ cfgOrig # Absent /\ cfgLive # Absent
  /\ cfgLive' = Absent /\ cfgQuar' = cfgLive
  /\ Goto("cfgVerify")
  /\ UNCHANGED <<state, pkgLock, files, gens, history>>

VerifyConfig ==
  /\ pc = "cfgVerify" /\ cfgQuar = cfgOrig
  /\ Goto("cfgPublish")
  /\ UNCHANGED <<state, pkgLock, files, config, gens, history>>

RestoreDisplacedConfig ==
  /\ pc = "cfgVerify" /\ cfgQuar # cfgOrig
  /\ cfgLive' = IF cfgLive = Absent THEN cfgQuar ELSE cfgLive
  /\ cfgQuar' = IF cfgLive = Absent THEN Absent ELSE cfgQuar
  /\ ToRollback
  /\ UNCHANGED <<state, pkgLock, files, gens, history>>

AtConfigPublish == pc = "cfgPublish" \/ (AtConfig /\ cfgOrig = Absent)

(* Faulty variant: rename without RENAME_NOREPLACE. *)
PublishConfigReplacing ==
  /\ AtConfigPublish
  /\ cfgLive' = cfgInst
  /\ Goto("applied")
  /\ UNCHANGED <<cfgQuar, state, pkgLock, files, gens, history>>

PublishConfig ==
  /\ AtConfigPublish /\ cfgLive = Absent
  /\ cfgLive' = cfgInst
  /\ Goto("applied")
  /\ UNCHANGED <<cfgQuar, state, pkgLock, files, gens, history>>

PublishConfigRefused ==
  /\ AtConfigPublish /\ cfgLive # Absent /\ ToRollback
  /\ UNCHANGED <<state, pkgLock, files, config, gens, history>>

(* Persist phase "applied"; Run drops guardedStage and launches the candidate. *)
FinishApply ==
  /\ pc = "applied" \/ (pc = "apply" /\ todo = {} /\ ~cfgEntry)
  /\ phase' = "applied"
  /\ pc' = "running" /\ guarded' = FALSE /\ UNCHANGED <<mode, selected, todo, plan>>
  /\ UNCHANGED <<records, orig, inst, cfgEntry, cfgOrig, cfgInst, promotion, pendingCleanup>>
  /\ UNCHANGED <<pkgLock, files, config, gens, history>>

(* An I/O error, a cancelled context or a failed check of the staged overlay. *)
ApplyFails ==
  /\ pc \in ApplyPoints \cup {"staged"} /\ ToRollback
  /\ UNCHANGED <<state, pkgLock, files, config, gens, history>>

-----------------------------------------------------------------------------
(* The candidate runs; CommitPromotion and reconcilePromotion *)

(* launch: no readiness, or CommitPromotion answers PromotionNotCommitted. *)
NotReady ==
  /\ pc = "running" /\ ToRollback
  /\ UNCHANGED <<state, pkgLock, files, config, gens, history>>

CanCommit ==
  /\ selected \in gens /\ candidate = selected /\ phase = "applied"
  /\ promotion = None /\ ArtifactsValid

(* Faulty variant: schedules the generation about to become the previous one. *)
CommitPromotionDropsActive ==
  /\ pc = "running" /\ CanCommit
  /\ promotion' = selected /\ pendingCleanup' = CleanupGenerationIDs(active, failed)
  /\ pc' = "reconcile" /\ mode' = "commit" /\ UNCHANGED <<selected, guarded, todo, plan>>
  /\ UNCHANGED <<records, journal, pkgLock, files, config, gens, history>>

(* Ready: persist the intent to promote, with the generations it makes obsolete. *)
CommitPromotion ==
  /\ pc = "running" /\ CanCommit
  /\ promotion' = selected /\ pendingCleanup' = CleanupGenerationIDs(previous, failed)
  /\ pc' = "reconcile" /\ mode' = "commit" /\ UNCHANGED <<selected, guarded, todo, plan>>
  /\ UNCHANGED <<records, journal, pkgLock, files, config, gens, history>>

(* The pending promotion names the applied candidate, or what it has become. *)
PromotionMatches ==
  IF candidate # None THEN candidate = promotion /\ phase = "applied" ELSE active = promotion

(* Faulty variant: relies on the lock having been saved by the branch that
   finds the promotion already recorded. *)
ReconcilePromotionLateLock ==
  /\ pc = "reconcile"
  /\ IF ArtifactsValid /\ PromotionMatches
     THEN /\ pkgLock' = IF candidate = None THEN promotion ELSE pkgLock
          /\ pc' = IF candidate # None THEN "commit" ELSE "cleanup"
          /\ todo' = Entries(orig, inst)
          /\ UNCHANGED <<mode, selected, guarded, plan, state, files, config, gens, history>>
     ELSE Refuse

(* reconcilePromotion up to SavePackageLock *)
ReconcilePromotion ==
  /\ pc = "reconcile"
  /\ IF ArtifactsValid /\ PromotionMatches
     THEN /\ pkgLock' = promotion
          /\ pc' = IF candidate # None THEN "commit" ELSE "cleanup"
          /\ todo' = Entries(orig, inst)
          /\ UNCHANGED <<mode, selected, guarded, plan, state, files, config, gens, history>>
     ELSE Refuse

(* commitTransactionArtifacts: quarantine and tombstone of one entry.  The
   check before each unlink is ArtifactsValid again; only the controller writes
   below the candidate's rollback directory. *)
CommitArtifact(p) ==
  /\ pc = "commit" /\ Current(p)
  /\ quar' = [quar EXCEPT ![p] = Absent] /\ tomb' = [tomb EXCEPT ![p] = Absent]
  /\ todo' = todo \ {p} /\ UNCHANGED <<pc, mode, selected, guarded, plan>>
  /\ UNCHANGED <<live, state, pkgLock, config, gens, history>>

CommitConfigArtifact ==
  /\ pc = "commit" /\ todo = {}
  /\ cfgQuar' = IF cfgEntry THEN Absent ELSE cfgQuar
  /\ Goto("promote")
  /\ UNCHANGED <<cfgLive, state, pkgLock, files, gens, history>>

(* Persist the promoted state. *)
PromoteCandidate ==
  /\ pc = "promote"
  /\ previous' = active /\ active' = candidate /\ candidate' = None /\ failed' = None
  /\ phase' = "none" /\ orig' = Nothing /\ inst' = Nothing
  /\ cfgEntry' = FALSE /\ cfgOrig' = Absent /\ cfgInst' = Absent
  /\ Goto("cleanup")
  /\ UNCHANGED <<promotion, pendingCleanup, pkgLock, files, config, gens, history>>

(* removeGeneration of the first obsolete generation ... *)
RemovePending ==
  /\ pc = "cleanup" /\ pendingCleanup # <<>>
  /\ IF Referenced(Head(pendingCleanup))
     THEN Refuse
     ELSE /\ gens' = gens \ {Head(pendingCleanup)}
          /\ Goto("cleaned")
          /\ UNCHANGED <<state, pkgLock, files, config, history>>

(* ... and the Save that forgets it. *)
ForgetPending ==
  /\ pc = "cleaned"
  /\ pendingCleanup' = Tail(pendingCleanup)
  /\ Goto("cleanup")
  /\ UNCHANGED <<records, journal, promotion, pkgLock, files, config, gens, history>>

(* Clear the intent.  At boot, Run resumes RecoverInterruptedTransaction. *)
FinishPromotion ==
  /\ pc = "cleanup" /\ pendingCleanup = <<>>
  /\ promotion' = None
  /\ Goto(IF mode = "commit" THEN "serving" ELSE "recover")
  /\ UNCHANGED <<records, journal, pendingCleanup, pkgLock, files, config, gens, history>>

-----------------------------------------------------------------------------
(* The environment *)

(* A crash, a kill, or an I/O error that makes the run return where it stands. *)
Crash ==
  /\ pc # "down" /\ crashes + externals < MaxFaults
  /\ ProcessGone
  /\ crashes' = crashes + 1
  /\ UNCHANGED <<state, pkgLock, files, config, gens, used, touched, cfgTouched, blocked, lastCfg, externals>>

(* BepInEx rewrites its configuration while it is loaded. *)
GameRewritesConfig(c) ==
  /\ GameUp
  /\ cfgLive' = c /\ lastCfg' = c
  /\ UNCHANGED <<cfgQuar, state, pkgLock, files, gens, proc, used, touched, cfgTouched, blocked, crashes, externals>>

(* An operator writes a file at a managed path, at any time. *)
OperatorWrites(p) ==
  /\ externals < MaxExternal /\ crashes + externals < MaxFaults
  /\ live' = [live EXCEPT ![p] = Foreign]
  /\ touched' = touched \cup {p} /\ externals' = externals + 1
  /\ UNCHANGED <<quar, tomb, state, pkgLock, config, gens, proc, used, cfgTouched, blocked, lastCfg, crashes>>

(* An operator edits or deletes BepInEx.cfg while the game is down. *)
OperatorEditsConfig(c) ==
  /\ externals < MaxExternal /\ crashes + externals < MaxFaults
  /\ ~GameUp /\ c # cfgLive
  /\ cfgLive' = c /\ lastCfg' = c
  /\ cfgTouched' = TRUE /\ externals' = externals + 1
  /\ UNCHANGED <<cfgQuar, state, pkgLock, files, gens, proc, used, touched, blocked, crashes>>

-----------------------------------------------------------------------------
(* A first start: no state.json, and a server tree that may hold anything. *)
Init ==
  /\ active = None /\ previous = None /\ candidate = None /\ failed = None
  /\ phase = "none" /\ orig = Nothing /\ inst = Nothing
  /\ cfgEntry = FALSE /\ cfgOrig = Absent /\ cfgInst = Absent
  /\ promotion = None /\ pendingCleanup = <<>> /\ pkgLock = None
  /\ externals \in 0 .. MaxExternal /\ touched \in SUBSET Path /\ Cardinality(touched) = externals
  /\ live = [p \in Path |-> IF p \in touched THEN Foreign ELSE Absent]
  /\ quar = Nothing /\ tomb = Nothing
  /\ cfgLive \in Cfg \cup {Absent} /\ cfgQuar = Absent /\ lastCfg = cfgLive
  /\ gens = {} /\ used = {}
  /\ pc = "down" /\ mode = "boot" /\ selected = None /\ guarded = FALSE
  /\ todo = {} /\ plan = "done"
  /\ cfgTouched = FALSE /\ blocked = FALSE /\ crashes = 0

RecoveryStep ==
  \/ Boot \/ Recover \/ RecoverRefused \/ ForgetTransaction
  \/ InspectConfig \/ InspectConfigRefused \/ OperateConfig \/ OperateConfigRefused
  \/ \E p \in Path :
       \/ InspectEntry(p) \/ InspectRefused(p) \/ OperateRefused(p)
       \/ Displace(p) \/ Restore(p) \/ DropTombstone(p) \/ DropQuarantine(p)

ApplyStep ==
  \/ BeginApply \/ ApplyRefused \/ FinishApply \/ ApplyFails
  \/ QuarantineConfig \/ VerifyConfig \/ RestoreDisplacedConfig
  \/ PublishConfig \/ PublishConfigRefused
  \/ \E p \in Path :
       \/ QuarantineFile(p) \/ VerifyQuarantine(p) \/ RestoreDisplaced(p)
       \/ PublishFile(p) \/ PublishRefused(p)

PromotionStep ==
  \/ NotReady \/ CommitPromotion \/ ReconcilePromotion \/ CommitConfigArtifact
  \/ PromoteCandidate \/ RemovePending \/ ForgetPending \/ FinishPromotion
  \/ \E p \in Path : CommitArtifact(p)

RunStep ==
  \/ \E g \in Gen : Stage(g)
  \/ StageComplete \/ StageFailed \/ DiscardStaged
  \/ LaunchActive \/ Exit \/ DiscardAfterRollback

Controller == RecoveryStep \/ RunStep \/ ApplyStep \/ PromotionStep

Environment ==
  \/ Crash
  \/ \E c \in Cfg : GameRewritesConfig(c)
  \/ \E c \in Cfg \cup {Absent} : OperatorEditsConfig(c)
  \/ \E p \in Path : OperatorWrites(p)

Next == Controller \/ Environment

Spec == Init /\ [][Next]_vars

(* The container is restarted when it stops, and a step of the controller that
   can be taken is taken: every wait in it is bounded by a timeout. *)
FairSpec == Spec /\ WF_vars(Controller)

-----------------------------------------------------------------------------
(* Properties *)

Points ==
  {"down", "recover", "inspect", "operate", "cfgOperate", "forget", "idle", "discard",
   "staging", "staged", "running", "serving", "reconcile", "commit",
   "promote", "cleanup", "cleaned"} \cup ApplyPoints

Plans ==
  {"done", "dropTomb", "dropQuar", "restore", "restoreDropTomb", "displaceDrop", "displaceRestore"}

(* Every variable keeps the type of the field, file or local it stands for. *)
TypeOK ==
  /\ {active, previous, candidate, failed, promotion, pkgLock, selected} \subseteq GenOrNone
  /\ phase \in {"none", "applying", "applied"}
  /\ orig \in [Path -> Content] /\ inst \in [Path -> Content]
  /\ cfgEntry \in BOOLEAN /\ {cfgOrig, cfgInst} \subseteq Cfg \cup {Absent}
  /\ pendingCleanup \in Seq(Gen)
  /\ live \in [Path -> Content \cup {Foreign}]
  /\ quar \in [Path -> Content \cup {Foreign}]
  /\ tomb \in [Path -> Content \cup {Foreign}]
  /\ {cfgLive, cfgQuar, lastCfg} \subseteq Cfg \cup {Absent}
  /\ gens \subseteq Gen /\ used \subseteq Gen
  /\ pc \in Points /\ mode \in {"boot", "rollback", "commit"} /\ guarded \in BOOLEAN
  /\ todo \subseteq Path /\ plan \in Plans /\ touched \subseteq Path
  /\ cfgTouched \in BOOLEAN /\ blocked \in BOOLEAN
  /\ crashes \in Nat /\ externals \in Nat

(* Whenever no candidate is recorded, wherever the process was interrupted
   before, the server tree holds exactly the files of the active generation:
   recovery undoes Apply completely and promotion leaves nothing behind. *)
ManagedFilesAtomic ==
  candidate = None => \A p \in Path \ touched : live[p] = Overlay(active)[p]

(* While a rollback may still be needed, the original of every journal entry
   exists, at its path or in the quarantine, after any prefix of Apply and of
   any number of interrupted recoveries. *)
OriginalRecoverable ==
  candidate # None /\ promotion = None =>
    \A p \in Path \ touched : orig[p] \in {live[p], quar[p]}

(* A game that is up sees the files of one generation only: the candidate's on
   trial, the promoted one's during and after promotion, else the active one's. *)
GameSeesOneGeneration ==
  LET generation == IF pc = "running" THEN candidate
                    ELSE IF promotion # None THEN promotion ELSE active
  IN GameUp => \A p \in Path \ touched : live[p] = Overlay(generation)[p]

(* package-lock.json belongs to the active generation once no promotion is
   pending, so that ValidateActive accepts the fallback after any crash. *)
LockMatchesActive == promotion = None => pkgLock = active

(* The directory of every recorded generation exists: neither cleanup nor
   Discard ever removes what state.json still refers to. *)
RecordedGenerationsExist == {active, previous, candidate, failed} \ {None} \subseteq gens

(* A file of somebody else is never destroyed: it is at its path, or kept in
   the quarantine or tombstone it was moved to by mistake. *)
ForeignPreserved == \A p \in touched : Foreign \in {live[p], quar[p], tomb[p]}

(* Without outside interference no check of recovery, promotion or cleanup
   fails, so no crash leaves a state that needs an operator; the game's own
   rewriting of BepInEx.cfg is no interference. *)
NeverBlocked == touched = {} /\ ~cfgTouched => ~blocked

(* The configuration last written by game or operator survives: as it is, with
   console logging disabled, or in the quarantine with no live file. *)
ConfigKept ==
  lastCfg # Absent =>
    \/ cfgLive \in {lastCfg, Disable[lastCfg]}
    \/ cfgLive = Absent /\ cfgQuar = lastCfg

(* Nothing that somebody else wrote is lost, at any path and at any moment. *)
OthersKept == ForeignPreserved /\ ConfigKept

(* Every trial is decided and an intent to promote, once persisted, is carried
   out, whatever crashes: only interference can stop recovery for good, when it
   refuses to touch what somebody else wrote. *)
TrialsEnd ==
  candidate # None \/ promotion # None ~>
    blocked \/ (candidate = None /\ promotion = None)

(* Generations not yet tried: not staged, or staged and not yet applied. *)
Untried == (Gen \ used) \cup (IF pc \in {"staging", "staged"} THEN {selected} ELSE {})

Update == INSTANCE ModUpdate WITH
  fresh <- Untried,
  installed <- IF promotion # None THEN promotion ELSE active,
  trial <- IF promotion = None THEN candidate ELSE None

(* Seen from outside, the transaction is atomic: a generation is put on trial
   once, and promoted or abandoned in one step that nothing undoes. *)
ImplementsModUpdate == Update!Spec

=============================================================================
