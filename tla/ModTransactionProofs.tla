------------------------ MODULE ModTransactionProofs ------------------------
(***************************************************************************)
(* Proofs about ModTransaction for any generations, paths, manifests and   *)
(* any number of crashes and of writes by an operator.                     *)
(*                                                                         *)
(* The inductive invariant says, for every path nobody else has written,   *)
(* what lies at its three places (live, quarantine, tombstone) at every    *)
(* point of the controller; S below lists what an interruption may leave.  *)
(***************************************************************************)
EXTENDS ModTransaction, SequenceTheorems, TLAPS

At(p, l, q, t) == live[p] = l /\ quar[p] = q /\ tomb[p] = t

(* Before Apply has come to p, and after recovery or promotion has left it. *)
Clean(p, o) == At(p, o, Absent, Absent)

(* What an interrupted Apply, or an interrupted recovery, can leave. *)
Interrupted(p, o, n) ==
  \/ Clean(p, o)             \/ At(p, Absent, o, Absent) \/ At(p, n, o, Absent)
  \/ At(p, Absent, o, n)     \/ At(p, o, Absent, n)

(* What the operation chosen by recovery finds. *)
PlannedFor(operation, p, o, n) ==
  \/ operation = "dropTomb" /\ At(p, o, Absent, n)
  \/ operation = "dropQuar" /\ n = o /\ At(p, o, o, Absent)
  \/ operation = "restore" /\ o # Absent /\ At(p, Absent, o, Absent)
  \/ operation = "restoreDropTomb" /\ o # Absent /\ At(p, Absent, o, n)
  \/ operation = "displaceRestore" /\ o # Absent /\ n # Absent /\ At(p, n, o, Absent)
  \/ operation = "displaceDrop" /\ o = Absent /\ n # Absent /\ At(p, n, Absent, Absent)
Planned(p, o, n) == PlannedFor(plan, p, o, n)

RecoveringPoints == {"inspect", "operate", "cfgOperate", "forget"}
CommittingPoints == {"commit", "promote"}
CleaningPoints == {"cleanup", "cleaned"}

(* Which records exist at which point of the controller. *)
Control ==
  /\ pc \in {"staging", "staged"} => selected # None
  /\ pc \in {"idle", "discard", "serving", "staging", "staged"} => candidate = None /\ promotion = None
  /\ pc \in ApplyPoints \cup {"running"} =>
       candidate # None /\ candidate = selected /\ promotion = None
  /\ pc \in RecoveringPoints => candidate # None /\ promotion = None
  /\ pc \in {"reconcile"} \cup CommittingPoints \cup CleaningPoints => promotion # None
  /\ pc \in CommittingPoints => candidate # None
  /\ pc \in CleaningPoints => candidate = None
  /\ pc \in {"cfgVerify", "cfgPublish", "applied", "promote"} => todo = {}
  /\ pc = "cleaned" => pendingCleanup # <<>>

(* What state.json and package-lock.json say together. *)
Journal ==
  /\ candidate # None => orig = Overlay(active) /\ inst = Manifest[candidate]
  /\ promotion # None => promotion = IF candidate # None THEN candidate ELSE active
  /\ pkgLock = active \/ (promotion # None /\ pkgLock = promotion)
  /\ pc \in CommittingPoints \cup CleaningPoints => pkgLock = promotion

(* What is recorded exists; what is being staged is not recorded. *)
Directories ==
  /\ gens \subseteq used
  /\ RecordedGenerationsExist
  /\ pc \in {"staging", "staged"} => selected \in gens /\ ~Referenced(selected)

(* The files of one path while a candidate may be rolled back. *)
TrialOK(p, o, n) ==
  LET opened == pc \in {"verify", "publish"} /\ Current(p) IN
  /\ Interrupted(p, o, n)
  /\ pc \in ApplyPoints /\ p \notin todo => At(p, n, o, Absent)
  /\ pc \in ApplyPoints /\ p \in todo /\ opened => At(p, Absent, o, Absent)
  /\ pc \in ApplyPoints /\ p \in todo /\ ~opened => Clean(p, o)
  /\ pc = "running" => At(p, n, o, Absent)
  /\ pc \in {"inspect", "operate"} /\ p \notin todo => Clean(p, o)
  /\ pc = "operate" /\ Current(p) => Planned(p, o, n)
  /\ pc \in {"cfgOperate", "forget"} => Clean(p, o)

(* The files of one path once the intent to promote is persisted. *)
PromotionOK(p, o, n) ==
  /\ At(p, n, o, Absent) \/ Clean(p, n)
  /\ pc \in CommittingPoints /\ p \notin todo => Clean(p, n)

FileOK(p) ==
  IF candidate = None THEN Clean(p, Overlay(active)[p])
  ELSE IF promotion # None THEN PromotionOK(p, orig[p], inst[p])
  ELSE TrialOK(p, orig[p], inst[p])

Files == \A p \in Path \ touched : FileOK(p)

IInv == TypeOK /\ Control /\ Journal /\ Directories /\ Files

-----------------------------------------------------------------------------
(* The definitions that only name groups of variables or plain control flow. *)
USE DEF vars, state, records, journal, files, config, proc, history,
        Goto, ProcessGone, Refuse, ToRollback, PlanDone, PlanNext, FallBack

(* A recorded or nil generation stands for a function from paths to contents. *)
LEMMA OverlayType == \A g \in GenOrNone : Overlay(g) \in [Path -> Content]
BY ManifestAssumption DEF GenOrNone, Overlay, Nothing, Content

(* Recovery knows a plan for every combination of contents, or refuses it. *)
LEMMA PlanType ==
  \A p \in Path : PlanFor(p) \in Plans \cup {"error"}
BY DEF PlanFor, RecoveryPlan, Plans

(* Every initial state is well typed and every step keeps the types. *)
LEMMA TypeInit == Init => TypeOK
<1> SUFFICES ASSUME Init PROVE TypeOK
  OBVIOUS
<1>1. Nothing \in [Path -> Content]
  BY DEF Nothing, Content
<1>2. live \in [Path -> Content \cup {Foreign}]
  BY DEF Init, Content
<1>3. /\ quar \in [Path -> Content \cup {Foreign}]
      /\ tomb \in [Path -> Content \cup {Foreign}]
  BY <1>1 DEF Init
<1>4. pendingCleanup \in Seq(Gen)
  BY DEF Init
<1>5. {cfgLive, cfgQuar, lastCfg, cfgOrig, cfgInst} \subseteq Cfg \cup {Absent}
  BY DEF Init
<1>6. {active, previous, candidate, failed, promotion, pkgLock, selected} \subseteq GenOrNone
  BY DEF Init, GenOrNone
<1>7. externals \in Nat
  BY BoundAssumption DEF Init
<1>. QED
  BY <1>1, <1>2, <1>3, <1>4, <1>5, <1>6, <1>7 DEF Init, TypeOK, GenOrNone, Points, ApplyPoints, Plans

(* Every step of recovery, apply, promotion and environment keeps the types. *)
LEMMA TypeStep == TypeOK /\ Control /\ [Next]_vars => TypeOK'
<1> SUFFICES ASSUME TypeOK, Control, [Next]_vars PROVE TypeOK'
  OBVIOUS
<1> USE DEF TypeOK, GenOrNone, Points, ApplyPoints, Plans
<1>1. CASE RecoveryStep
  <2>1. CASE Boot
    BY <2>1 DEF Boot
  <2>2. CASE Recover
    BY <2>2 DEF Recover, Entries
  <2>3. CASE RecoverRefused
    BY ZenonT(40), <2>3 DEF RecoverRefused
  <2>4. CASE ForgetTransaction
    BY ZenonT(40), <2>4 DEF ForgetTransaction, Nothing, Content
  <2>5. CASE InspectConfig
    BY <2>5 DEF InspectConfig, ConfigPlan
  <2>6. CASE InspectConfigRefused
    BY ZenonT(40), <2>6 DEF InspectConfigRefused
  <2>7. CASE OperateConfig
    BY <2>7 DEF OperateConfig
  <2>8. CASE OperateConfigRefused
    BY ZenonT(40), <2>8 DEF OperateConfigRefused
  <2>9. ASSUME NEW p \in Path, InspectEntry(p) PROVE TypeOK'
    BY <2>9, PlanType DEF InspectEntry
  <2>10. ASSUME NEW p \in Path, InspectRefused(p) PROVE TypeOK'
    BY ZenonT(40), <2>10 DEF InspectRefused
  <2>11. ASSUME NEW p \in Path, OperateRefused(p) PROVE TypeOK'
    BY ZenonT(40), <2>11 DEF OperateRefused
  <2>12. ASSUME NEW p \in Path, Displace(p) PROVE TypeOK'
    BY <2>12 DEF Displace
  <2>13. ASSUME NEW p \in Path, Restore(p) PROVE TypeOK'
    BY <2>13 DEF Restore
  <2>14. ASSUME NEW p \in Path, DropTombstone(p) PROVE TypeOK'
    BY <2>14 DEF DropTombstone, Content
  <2>15. ASSUME NEW p \in Path, DropQuarantine(p) PROVE TypeOK'
    BY <2>15 DEF DropQuarantine, Content
  <2>. QED BY <1>1, <2>1, <2>2, <2>3, <2>4, <2>5, <2>6, <2>7, <2>8, <2>9, <2>10, <2>11, <2>12, <2>13,
     <2>14, <2>15 DEF RecoveryStep
<1>2. CASE RunStep
  <2>1. ASSUME NEW g \in Gen, Stage(g) PROVE TypeOK'
    BY <2>1 DEF Stage
  <2>2. CASE StageComplete
    BY <2>2 DEF StageComplete
  <2>3. CASE StageFailed
    BY ZenonT(40), <2>3 DEF StageFailed
  <2>4. CASE DiscardStaged
    BY ZenonT(40), <2>4 DEF DiscardStaged
  <2>5. CASE LaunchActive
    BY <2>5 DEF LaunchActive
  <2>6. CASE Exit
    BY ZenonT(40), <2>6 DEF Exit
  <2>7. CASE DiscardAfterRollback
    BY ZenonT(40), <2>7 DEF DiscardAfterRollback
  <2>. QED BY <1>2, <2>1, <2>2, <2>3, <2>4, <2>5, <2>6, <2>7 DEF RunStep
<1>3. CASE ApplyStep
  <2>1. CASE BeginApply
    <3>1. candidate' \in Gen /\ selected \in Gen
      BY <2>1 DEF BeginApply, Control
    <3>2. orig' \in [Path -> Content] /\ inst' \in [Path -> Content]
      BY <2>1, <3>1, OverlayType, NoneAssumption, ManifestAssumption DEF BeginApply, Content
    <3>3. ConsoleConfig \in Cfg
      BY ConfigAssumption DEF ConsoleConfig
    <3>4. {cfgOrig', cfgInst', cfgLive', cfgQuar', lastCfg'} \subseteq Cfg \cup {Absent}
      BY <2>1, <3>3 DEF BeginApply
    <3>5. todo' \subseteq Path
      BY <2>1 DEF BeginApply, Entries
    <3>6. cfgEntry' \in BOOLEAN
      BY <2>1 DEF BeginApply
    <3>. QED BY <2>1, <3>1, <3>2, <3>4, <3>5, <3>6 DEF BeginApply
  <2>2. CASE ApplyRefused
    BY <2>2 DEF ApplyRefused
  <2>3. CASE FinishApply
    BY <2>3 DEF FinishApply
  <2>4. CASE ApplyFails
    BY <2>4 DEF ApplyFails
  <2>5. CASE QuarantineConfig
    BY <2>5 DEF QuarantineConfig
  <2>6. CASE VerifyConfig
    BY <2>6 DEF VerifyConfig
  <2>7. CASE RestoreDisplacedConfig
    BY <2>7 DEF RestoreDisplacedConfig
  <2>8. CASE PublishConfig
    BY <2>8 DEF PublishConfig
  <2>9. CASE PublishConfigRefused
    BY <2>9 DEF PublishConfigRefused
  <2>10. ASSUME NEW p \in Path, QuarantineFile(p) PROVE TypeOK'
    BY <2>10 DEF QuarantineFile
  <2>11. ASSUME NEW p \in Path, VerifyQuarantine(p) PROVE TypeOK'
    BY <2>11 DEF VerifyQuarantine
  <2>12. ASSUME NEW p \in Path, RestoreDisplaced(p) PROVE TypeOK'
    BY <2>12 DEF RestoreDisplaced
  <2>13. ASSUME NEW p \in Path, PublishFile(p) PROVE TypeOK'
    BY <2>13 DEF PublishFile
  <2>14. ASSUME NEW p \in Path, PublishRefused(p) PROVE TypeOK'
    BY <2>14 DEF PublishRefused
  <2>. QED BY <1>3, <2>1, <2>2, <2>3, <2>4, <2>5, <2>6, <2>7, <2>8, <2>9, <2>10, <2>11, <2>12, <2>13,
     <2>14 DEF ApplyStep
<1>4. CASE PromotionStep
  <2>1. CASE NotReady
    BY <2>1 DEF NotReady
  <2>2. CASE CommitPromotion
    BY <2>2 DEF CommitPromotion, CanCommit, CleanupGenerationIDs
  <2>3. CASE ReconcilePromotion
    <3>1. CASE ArtifactsValid /\ PromotionMatches
      BY <2>3, <3>1 DEF ReconcilePromotion, Entries
    <3>2. CASE ~(ArtifactsValid /\ PromotionMatches)
      BY <2>3, <3>2 DEF ReconcilePromotion
    <3>. QED BY <3>1, <3>2
  <2>4. CASE CommitConfigArtifact
    BY <2>4 DEF CommitConfigArtifact
  <2>5. CASE PromoteCandidate
    BY ZenonT(40), <2>5 DEF PromoteCandidate, Nothing, Content
  <2>6. CASE RemovePending
    <3>1. CASE Referenced(Head(pendingCleanup))
      BY <2>6, <3>1 DEF RemovePending
    <3>2. CASE ~Referenced(Head(pendingCleanup))
      BY <2>6, <3>2 DEF RemovePending
    <3>. QED BY <3>1, <3>2
  <2>7. CASE ForgetPending
    <3>1. pendingCleanup' \in Seq(Gen)
      BY <2>7, HeadTailProperties DEF ForgetPending, Control
    <3>. QED BY <2>7, <3>1 DEF ForgetPending
  <2>8. CASE FinishPromotion
    BY <2>8 DEF FinishPromotion
  <2>9. ASSUME NEW p \in Path, CommitArtifact(p) PROVE TypeOK'
    BY <2>9 DEF CommitArtifact, Content
  <2>. QED BY <1>4, <2>1, <2>2, <2>3, <2>4, <2>5, <2>6, <2>7, <2>8, <2>9 DEF PromotionStep
<1>5. CASE Environment
  <2>1. CASE Crash
    <3>1. crashes' \in Nat
      BY <2>1 DEF Crash
    <3>. QED BY <2>1, <3>1 DEF Crash
  <2>2. ASSUME NEW c \in Cfg, GameRewritesConfig(c) PROVE TypeOK'
    BY <2>2 DEF GameRewritesConfig
  <2>3. ASSUME NEW c \in Cfg \cup {Absent}, OperatorEditsConfig(c) PROVE TypeOK'
    BY <2>3 DEF OperatorEditsConfig
  <2>4. ASSUME NEW p \in Path, OperatorWrites(p) PROVE TypeOK'
    BY <2>4 DEF OperatorWrites
  <2>. QED BY <1>5, <2>1, <2>2, <2>3, <2>4 DEF Environment
<1>6. CASE UNCHANGED vars
  BY <1>6
<1>. QED BY <1>1, <1>2, <1>3, <1>4, <1>5, <1>6 DEF Next, Controller

-----------------------------------------------------------------------------
(* Control, Journal and Directories are kept by every step. *)
LEMMA ControlStep == TypeOK /\ Control /\ [Next]_vars => Control'
<1> SUFFICES ASSUME TypeOK, Control, [Next]_vars PROVE Control'
  OBVIOUS
<1> USE DEF Control, ApplyPoints, RecoveringPoints, CommittingPoints, CleaningPoints
<1>1. CASE RecoveryStep
  <2>1. CASE Boot
    BY <2>1 DEF Boot
  <2>2. CASE Recover
    BY <2>2 DEF Recover
  <2>3. CASE RecoverRefused
    BY <2>3 DEF RecoverRefused
  <2>4. CASE ForgetTransaction
    BY <2>4 DEF ForgetTransaction
  <2>5. CASE InspectConfig
    BY <2>5 DEF InspectConfig
  <2>6. CASE InspectConfigRefused
    BY <2>6 DEF InspectConfigRefused
  <2>7. CASE OperateConfig
    BY <2>7 DEF OperateConfig
  <2>8. CASE OperateConfigRefused
    BY <2>8 DEF OperateConfigRefused
  <2>9. ASSUME NEW p \in Path, InspectEntry(p) PROVE Control'
    BY <2>9 DEF InspectEntry
  <2>10. ASSUME NEW p \in Path, InspectRefused(p) PROVE Control'
    BY <2>10 DEF InspectRefused
  <2>11. ASSUME NEW p \in Path, OperateRefused(p) PROVE Control'
    BY <2>11 DEF OperateRefused
  <2>12. ASSUME NEW p \in Path, Displace(p) PROVE Control'
    BY <2>12 DEF Displace
  <2>13. ASSUME NEW p \in Path, Restore(p) PROVE Control'
    BY <2>13 DEF Restore
  <2>14. ASSUME NEW p \in Path, DropTombstone(p) PROVE Control'
    BY <2>14 DEF DropTombstone
  <2>15. ASSUME NEW p \in Path, DropQuarantine(p) PROVE Control'
    BY <2>15 DEF DropQuarantine
  <2>. QED BY <1>1, <2>1, <2>2, <2>3, <2>4, <2>5, <2>6, <2>7, <2>8, <2>9, <2>10, <2>11, <2>12, <2>13,
     <2>14, <2>15 DEF RecoveryStep
<1>2. CASE RunStep
  <2>1. ASSUME NEW g \in Gen, Stage(g) PROVE Control'
    BY <2>1, NoneAssumption DEF Stage
  <2>2. CASE StageComplete
    BY <2>2 DEF StageComplete
  <2>3. CASE StageFailed
    BY <2>3 DEF StageFailed
  <2>4. CASE DiscardStaged
    BY <2>4 DEF DiscardStaged
  <2>5. CASE LaunchActive
    BY <2>5 DEF LaunchActive
  <2>6. CASE Exit
    BY <2>6 DEF Exit
  <2>7. CASE DiscardAfterRollback
    BY <2>7 DEF DiscardAfterRollback
  <2>. QED BY <1>2, <2>1, <2>2, <2>3, <2>4, <2>5, <2>6, <2>7 DEF RunStep
<1>3. CASE ApplyStep
  <2>1. CASE BeginApply
    BY <2>1, NoneAssumption DEF BeginApply
  <2>2. CASE ApplyRefused
    BY <2>2 DEF ApplyRefused
  <2>3. CASE FinishApply
    BY <2>3 DEF FinishApply
  <2>4. CASE ApplyFails
    BY <2>4 DEF ApplyFails
  <2>5. CASE QuarantineConfig
    BY <2>5 DEF QuarantineConfig, AtConfig
  <2>6. CASE VerifyConfig
    BY <2>6 DEF VerifyConfig
  <2>7. CASE RestoreDisplacedConfig
    BY <2>7 DEF RestoreDisplacedConfig
  <2>8. CASE PublishConfig
    BY <2>8 DEF PublishConfig, AtConfigPublish, AtConfig
  <2>9. CASE PublishConfigRefused
    BY <2>9 DEF PublishConfigRefused, AtConfigPublish, AtConfig
  <2>10. ASSUME NEW p \in Path, QuarantineFile(p) PROVE Control'
    BY <2>10 DEF QuarantineFile
  <2>11. ASSUME NEW p \in Path, VerifyQuarantine(p) PROVE Control'
    BY <2>11 DEF VerifyQuarantine
  <2>12. ASSUME NEW p \in Path, RestoreDisplaced(p) PROVE Control'
    BY <2>12 DEF RestoreDisplaced
  <2>13. ASSUME NEW p \in Path, PublishFile(p) PROVE Control'
    BY <2>13 DEF PublishFile, AtPublish
  <2>14. ASSUME NEW p \in Path, PublishRefused(p) PROVE Control'
    BY <2>14 DEF PublishRefused, AtPublish
  <2>. QED BY <1>3, <2>1, <2>2, <2>3, <2>4, <2>5, <2>6, <2>7, <2>8, <2>9, <2>10, <2>11, <2>12, <2>13,
     <2>14 DEF ApplyStep
<1>4. CASE PromotionStep
  <2>1. CASE NotReady
    BY <2>1 DEF NotReady
  <2>2. CASE CommitPromotion
    BY <2>2 DEF CommitPromotion
  <2>3. CASE ReconcilePromotion
    BY <2>3 DEF ReconcilePromotion
  <2>4. CASE CommitConfigArtifact
    BY <2>4 DEF CommitConfigArtifact
  <2>5. CASE PromoteCandidate
    BY <2>5 DEF PromoteCandidate
  <2>6. CASE RemovePending
    BY <2>6 DEF RemovePending
  <2>7. CASE ForgetPending
    BY <2>7 DEF ForgetPending
  <2>8. CASE FinishPromotion
    BY <2>8 DEF FinishPromotion
  <2>9. ASSUME NEW p \in Path, CommitArtifact(p) PROVE Control'
    BY <2>9 DEF CommitArtifact
  <2>. QED BY <1>4, <2>1, <2>2, <2>3, <2>4, <2>5, <2>6, <2>7, <2>8, <2>9 DEF PromotionStep
<1>5. CASE Environment
  <2>1. CASE Crash
    BY <2>1 DEF Crash
  <2>2. ASSUME NEW c \in Cfg, GameRewritesConfig(c) PROVE Control'
    BY <2>2 DEF GameRewritesConfig
  <2>3. ASSUME NEW c \in Cfg \cup {Absent}, OperatorEditsConfig(c) PROVE Control'
    BY <2>3 DEF OperatorEditsConfig
  <2>4. ASSUME NEW p \in Path, OperatorWrites(p) PROVE Control'
    BY <2>4 DEF OperatorWrites
  <2>. QED BY <1>5, <2>1, <2>2, <2>3, <2>4 DEF Environment
<1>6. CASE UNCHANGED vars
  BY <1>6
<1>. QED BY <1>1, <1>2, <1>3, <1>4, <1>5, <1>6 DEF Next, Controller

(* Records, journal phase, promotion and package lock stay consistent. *)
LEMMA JournalStep == TypeOK /\ Control /\ Journal /\ [Next]_vars => Journal'
<1> SUFFICES ASSUME TypeOK, Control, Journal, [Next]_vars PROVE Journal'
  OBVIOUS
<1> USE DEF Control, Journal, Overlay, ApplyPoints, RecoveringPoints, CommittingPoints, CleaningPoints
<1>1. CASE RecoveryStep
  <2>1. CASE Boot
    BY <2>1 DEF Boot
  <2>2. CASE Recover
    BY <2>2 DEF Recover
  <2>3. CASE RecoverRefused
    BY <2>3 DEF RecoverRefused
  <2>4. CASE ForgetTransaction
    BY <2>4 DEF ForgetTransaction
  <2>5. CASE InspectConfig
    BY <2>5 DEF InspectConfig
  <2>6. CASE InspectConfigRefused
    BY <2>6 DEF InspectConfigRefused
  <2>7. CASE OperateConfig
    BY <2>7 DEF OperateConfig
  <2>8. CASE OperateConfigRefused
    BY <2>8 DEF OperateConfigRefused
  <2>9. ASSUME NEW p \in Path, InspectEntry(p) PROVE Journal'
    BY <2>9 DEF InspectEntry
  <2>10. ASSUME NEW p \in Path, InspectRefused(p) PROVE Journal'
    BY <2>10 DEF InspectRefused
  <2>11. ASSUME NEW p \in Path, OperateRefused(p) PROVE Journal'
    BY <2>11 DEF OperateRefused
  <2>12. ASSUME NEW p \in Path, Displace(p) PROVE Journal'
    BY <2>12 DEF Displace
  <2>13. ASSUME NEW p \in Path, Restore(p) PROVE Journal'
    BY <2>13 DEF Restore
  <2>14. ASSUME NEW p \in Path, DropTombstone(p) PROVE Journal'
    BY <2>14 DEF DropTombstone
  <2>15. ASSUME NEW p \in Path, DropQuarantine(p) PROVE Journal'
    BY <2>15 DEF DropQuarantine
  <2>. QED BY <1>1, <2>1, <2>2, <2>3, <2>4, <2>5, <2>6, <2>7, <2>8, <2>9, <2>10, <2>11, <2>12, <2>13,
     <2>14, <2>15 DEF RecoveryStep
<1>2. CASE RunStep
  <2>1. ASSUME NEW g \in Gen, Stage(g) PROVE Journal'
    BY <2>1 DEF Stage
  <2>2. CASE StageComplete
    BY <2>2 DEF StageComplete
  <2>3. CASE StageFailed
    BY <2>3 DEF StageFailed
  <2>4. CASE DiscardStaged
    BY <2>4 DEF DiscardStaged
  <2>5. CASE LaunchActive
    BY <2>5 DEF LaunchActive
  <2>6. CASE Exit
    BY <2>6 DEF Exit
  <2>7. CASE DiscardAfterRollback
    BY <2>7 DEF DiscardAfterRollback
  <2>. QED BY <1>2, <2>1, <2>2, <2>3, <2>4, <2>5, <2>6, <2>7 DEF RunStep
<1>3. CASE ApplyStep
  <2>1. CASE BeginApply
    BY <2>1 DEF BeginApply
  <2>2. CASE ApplyRefused
    BY <2>2 DEF ApplyRefused
  <2>3. CASE FinishApply
    BY <2>3 DEF FinishApply
  <2>4. CASE ApplyFails
    BY <2>4 DEF ApplyFails
  <2>5. CASE QuarantineConfig
    BY <2>5 DEF QuarantineConfig, AtConfig
  <2>6. CASE VerifyConfig
    BY <2>6 DEF VerifyConfig
  <2>7. CASE RestoreDisplacedConfig
    BY <2>7 DEF RestoreDisplacedConfig
  <2>8. CASE PublishConfig
    BY <2>8 DEF PublishConfig, AtConfigPublish, AtConfig
  <2>9. CASE PublishConfigRefused
    BY <2>9 DEF PublishConfigRefused, AtConfigPublish, AtConfig
  <2>10. ASSUME NEW p \in Path, QuarantineFile(p) PROVE Journal'
    BY <2>10 DEF QuarantineFile
  <2>11. ASSUME NEW p \in Path, VerifyQuarantine(p) PROVE Journal'
    BY <2>11 DEF VerifyQuarantine
  <2>12. ASSUME NEW p \in Path, RestoreDisplaced(p) PROVE Journal'
    BY <2>12 DEF RestoreDisplaced
  <2>13. ASSUME NEW p \in Path, PublishFile(p) PROVE Journal'
    BY <2>13 DEF PublishFile, AtPublish
  <2>14. ASSUME NEW p \in Path, PublishRefused(p) PROVE Journal'
    BY <2>14 DEF PublishRefused, AtPublish
  <2>. QED BY <1>3, <2>1, <2>2, <2>3, <2>4, <2>5, <2>6, <2>7, <2>8, <2>9, <2>10, <2>11, <2>12, <2>13,
     <2>14 DEF ApplyStep
<1>4. CASE PromotionStep
  <2>1. CASE NotReady
    BY <2>1 DEF NotReady
  <2>2. CASE CommitPromotion
    BY <2>2 DEF CommitPromotion, CanCommit
  <2>3. CASE ReconcilePromotion
    BY <2>3 DEF ReconcilePromotion, PromotionMatches
  <2>4. CASE CommitConfigArtifact
    BY <2>4 DEF CommitConfigArtifact
  <2>5. CASE PromoteCandidate
    BY <2>5 DEF PromoteCandidate
  <2>6. CASE RemovePending
    BY <2>6 DEF RemovePending
  <2>7. CASE ForgetPending
    BY <2>7 DEF ForgetPending
  <2>8. CASE FinishPromotion
    BY <2>8 DEF FinishPromotion
  <2>9. ASSUME NEW p \in Path, CommitArtifact(p) PROVE Journal'
    BY <2>9 DEF CommitArtifact
  <2>. QED BY <1>4, <2>1, <2>2, <2>3, <2>4, <2>5, <2>6, <2>7, <2>8, <2>9 DEF PromotionStep
<1>5. CASE Environment
  <2>1. CASE Crash
    BY <2>1 DEF Crash
  <2>2. ASSUME NEW c \in Cfg, GameRewritesConfig(c) PROVE Journal'
    BY <2>2 DEF GameRewritesConfig
  <2>3. ASSUME NEW c \in Cfg \cup {Absent}, OperatorEditsConfig(c) PROVE Journal'
    BY <2>3 DEF OperatorEditsConfig
  <2>4. ASSUME NEW p \in Path, OperatorWrites(p) PROVE Journal'
    BY <2>4 DEF OperatorWrites
  <2>. QED BY <1>5, <2>1, <2>2, <2>3, <2>4 DEF Environment
<1>6. CASE UNCHANGED vars
  BY <1>6
<1>. QED BY <1>1, <1>2, <1>3, <1>4, <1>5, <1>6 DEF Next, Controller

(* Recorded generations keep their directories; only obsolete ones are removed. *)
LEMMA DirectoriesStep == TypeOK /\ Control /\ Directories /\ [Next]_vars => Directories'
<1> SUFFICES ASSUME TypeOK, Control, Directories, [Next]_vars PROVE Directories'
  OBVIOUS
<1> USE DEF Control, Directories, RecordedGenerationsExist, Referenced, ApplyPoints, RecoveringPoints,
            CommittingPoints, CleaningPoints
<1>1. CASE RecoveryStep
  <2>1. CASE Boot
    BY <2>1 DEF Boot
  <2>2. CASE Recover
    BY <2>2 DEF Recover
  <2>3. CASE RecoverRefused
    BY <2>3 DEF RecoverRefused
  <2>4. CASE ForgetTransaction
    BY <2>4 DEF ForgetTransaction
  <2>5. CASE InspectConfig
    BY <2>5 DEF InspectConfig
  <2>6. CASE InspectConfigRefused
    BY <2>6 DEF InspectConfigRefused
  <2>7. CASE OperateConfig
    BY <2>7 DEF OperateConfig
  <2>8. CASE OperateConfigRefused
    BY <2>8 DEF OperateConfigRefused
  <2>9. ASSUME NEW p \in Path, InspectEntry(p) PROVE Directories'
    BY <2>9 DEF InspectEntry
  <2>10. ASSUME NEW p \in Path, InspectRefused(p) PROVE Directories'
    BY <2>10 DEF InspectRefused
  <2>11. ASSUME NEW p \in Path, OperateRefused(p) PROVE Directories'
    BY <2>11 DEF OperateRefused
  <2>12. ASSUME NEW p \in Path, Displace(p) PROVE Directories'
    BY <2>12 DEF Displace
  <2>13. ASSUME NEW p \in Path, Restore(p) PROVE Directories'
    BY <2>13 DEF Restore
  <2>14. ASSUME NEW p \in Path, DropTombstone(p) PROVE Directories'
    BY <2>14 DEF DropTombstone
  <2>15. ASSUME NEW p \in Path, DropQuarantine(p) PROVE Directories'
    BY <2>15 DEF DropQuarantine
  <2>. QED BY <1>1, <2>1, <2>2, <2>3, <2>4, <2>5, <2>6, <2>7, <2>8, <2>9, <2>10, <2>11, <2>12, <2>13,
     <2>14, <2>15 DEF RecoveryStep
<1>2. CASE RunStep
  <2>1. ASSUME NEW g \in Gen, Stage(g) PROVE Directories'
    BY <2>1, NoneAssumption DEF Stage
  <2>2. CASE StageComplete
    BY <2>2 DEF StageComplete
  <2>3. CASE StageFailed
    BY <2>3 DEF StageFailed
  <2>4. CASE DiscardStaged
    BY <2>4 DEF DiscardStaged
  <2>5. CASE LaunchActive
    BY <2>5 DEF LaunchActive
  <2>6. CASE Exit
    BY <2>6 DEF Exit
  <2>7. CASE DiscardAfterRollback
    BY <2>7 DEF DiscardAfterRollback
  <2>. QED BY <1>2, <2>1, <2>2, <2>3, <2>4, <2>5, <2>6, <2>7 DEF RunStep
<1>3. CASE ApplyStep
  <2>1. CASE BeginApply
    BY <2>1 DEF BeginApply
  <2>2. CASE ApplyRefused
    BY <2>2 DEF ApplyRefused
  <2>3. CASE FinishApply
    BY <2>3 DEF FinishApply
  <2>4. CASE ApplyFails
    BY <2>4 DEF ApplyFails
  <2>5. CASE QuarantineConfig
    BY <2>5 DEF QuarantineConfig, AtConfig
  <2>6. CASE VerifyConfig
    BY <2>6 DEF VerifyConfig
  <2>7. CASE RestoreDisplacedConfig
    BY <2>7 DEF RestoreDisplacedConfig
  <2>8. CASE PublishConfig
    BY <2>8 DEF PublishConfig, AtConfigPublish, AtConfig
  <2>9. CASE PublishConfigRefused
    BY <2>9 DEF PublishConfigRefused, AtConfigPublish, AtConfig
  <2>10. ASSUME NEW p \in Path, QuarantineFile(p) PROVE Directories'
    BY <2>10 DEF QuarantineFile
  <2>11. ASSUME NEW p \in Path, VerifyQuarantine(p) PROVE Directories'
    BY <2>11 DEF VerifyQuarantine
  <2>12. ASSUME NEW p \in Path, RestoreDisplaced(p) PROVE Directories'
    BY <2>12 DEF RestoreDisplaced
  <2>13. ASSUME NEW p \in Path, PublishFile(p) PROVE Directories'
    BY <2>13 DEF PublishFile, AtPublish
  <2>14. ASSUME NEW p \in Path, PublishRefused(p) PROVE Directories'
    BY <2>14 DEF PublishRefused, AtPublish
  <2>. QED BY <1>3, <2>1, <2>2, <2>3, <2>4, <2>5, <2>6, <2>7, <2>8, <2>9, <2>10, <2>11, <2>12, <2>13,
     <2>14 DEF ApplyStep
<1>4. CASE PromotionStep
  <2>1. CASE NotReady
    BY <2>1 DEF NotReady
  <2>2. CASE CommitPromotion
    BY <2>2 DEF CommitPromotion, CanCommit
  <2>3. CASE ReconcilePromotion
    BY <2>3 DEF ReconcilePromotion, PromotionMatches
  <2>4. CASE CommitConfigArtifact
    BY <2>4 DEF CommitConfigArtifact
  <2>5. CASE PromoteCandidate
    BY <2>5 DEF PromoteCandidate
  <2>6. CASE RemovePending
    BY <2>6 DEF RemovePending
  <2>7. CASE ForgetPending
    BY <2>7 DEF ForgetPending
  <2>8. CASE FinishPromotion
    BY <2>8 DEF FinishPromotion
  <2>9. ASSUME NEW p \in Path, CommitArtifact(p) PROVE Directories'
    BY <2>9 DEF CommitArtifact
  <2>. QED BY <1>4, <2>1, <2>2, <2>3, <2>4, <2>5, <2>6, <2>7, <2>8, <2>9 DEF PromotionStep
<1>5. CASE Environment
  <2>1. CASE Crash
    BY <2>1 DEF Crash
  <2>2. ASSUME NEW c \in Cfg, GameRewritesConfig(c) PROVE Directories'
    BY <2>2 DEF GameRewritesConfig
  <2>3. ASSUME NEW c \in Cfg \cup {Absent}, OperatorEditsConfig(c) PROVE Directories'
    BY <2>3 DEF OperatorEditsConfig
  <2>4. ASSUME NEW p \in Path, OperatorWrites(p) PROVE Directories'
    BY <2>4 DEF OperatorWrites
  <2>. QED BY <1>5, <2>1, <2>2, <2>3, <2>4 DEF Environment
<1>6. CASE UNCHANGED vars
  BY SMTT(30), <1>6
<1>. QED BY <1>1, <1>2, <1>3, <1>4, <1>5, <1>6 DEF Next, Controller

-----------------------------------------------------------------------------
(* The decision table of recovery finds a plan that fits for everything an
   interruption can leave. *)
LEMMA InterruptedPlan ==
  ASSUME NEW p \in Path, Interrupted(p, orig[p], inst[p])
  PROVE  /\ PlanFor(p) = "done" => Clean(p, orig[p])
         /\ PlanFor(p) \notin {"done", "error"} => PlannedFor(PlanFor(p), p, orig[p], inst[p])
         /\ PlanFor(p) # "error"
<1> USE DEF PlanFor, RecoveryPlan, PlannedFor, At, Clean, Interrupted
<1>1. CASE orig[p] = Absent /\ inst[p] = Absent
  BY <1>1
<1>2. CASE orig[p] = Absent /\ inst[p] # Absent
  BY <1>2
<1>3. CASE orig[p] # Absent /\ inst[p] = Absent
  BY <1>3
<1>4. CASE orig[p] # Absent /\ inst[p] # Absent
  BY <1>4
<1>. QED BY <1>1, <1>2, <1>3, <1>4

(* A path once written by somebody else stays out of the guarantees. *)
LEMMA TouchedGrows == [Next]_vars => touched \subseteq touched'
<1> SUFFICES ASSUME [Next]_vars PROVE touched \subseteq touched'
  OBVIOUS
<1>1. CASE RecoveryStep
  BY <1>1 DEF RecoveryStep, Boot, Recover, RecoverRefused, ForgetTransaction, InspectConfig,
     InspectConfigRefused, OperateConfig, OperateConfigRefused, InspectEntry, InspectRefused,
     OperateRefused, Displace, Restore, DropTombstone, DropQuarantine
<1>2. CASE RunStep
  BY <1>2 DEF RunStep, Stage, StageComplete, StageFailed, DiscardStaged, LaunchActive, Exit,
     DiscardAfterRollback
<1>3. CASE ApplyStep
  BY <1>3 DEF ApplyStep, BeginApply, ApplyRefused, FinishApply, ApplyFails, QuarantineConfig,
     VerifyConfig, RestoreDisplacedConfig, PublishConfig, PublishConfigRefused, QuarantineFile,
     VerifyQuarantine, RestoreDisplaced, PublishFile, PublishRefused
<1>4. CASE PromotionStep
  BY <1>4 DEF PromotionStep, NotReady, CommitPromotion, ReconcilePromotion, CommitConfigArtifact,
     PromoteCandidate, RemovePending, ForgetPending, FinishPromotion, CommitArtifact
<1>5. CASE Environment
  BY <1>5 DEF Environment, Crash, GameRewritesConfig, OperatorEditsConfig, OperatorWrites
<1>. QED BY <1>1, <1>2, <1>3, <1>4, <1>5 DEF Next, Controller

(* Every step keeps the agreement of live file, quarantine and tombstone with
   the journal on every untouched path. *)
LEMMA FilesStep == TypeOK /\ Control /\ Journal /\ Files /\ [Next]_vars => Files'
<1> SUFFICES ASSUME TypeOK, Control, Journal, [Next]_vars,
                    NEW r \in Path, r \notin touched', r \notin touched, FileOK(r)
             PROVE  FileOK(r)'
  BY SMTT(30), TouchedGrows DEF Files
<1> USE DEF Control, Journal, Current, FileOK, TrialOK, PromotionOK, At, Clean, Interrupted, Planned, PlannedFor, ApplyPoints, 
            RecoveringPoints, CommittingPoints, CleaningPoints
<1>1. CASE RecoveryStep
  <2>1. CASE Boot
    BY <2>1 DEF Boot
  <2>2. CASE Recover
    BY <2>2 DEF Recover, Entries
  <2>3. CASE RecoverRefused
    BY <2>3 DEF RecoverRefused
  <2>4. CASE ForgetTransaction
    BY <2>4 DEF ForgetTransaction
  <2>5. CASE InspectConfig
    BY <2>5 DEF InspectConfig
  <2>6. CASE InspectConfigRefused
    BY <2>6 DEF InspectConfigRefused
  <2>7. CASE OperateConfig
    BY <2>7 DEF OperateConfig
  <2>8. CASE OperateConfigRefused
    BY <2>8 DEF OperateConfigRefused
  <2>9. ASSUME NEW p \in Path, InspectEntry(p) PROVE FileOK(r)'
    <3>1. CASE p = r
      <4>1. Interrupted(p, orig[p], inst[p])
        BY <2>9, <3>1 DEF InspectEntry
      <4>2. CASE PlanFor(p) = "done"
        BY <2>9, <3>1, <4>1, <4>2, InterruptedPlan DEF InspectEntry
      <4>3. CASE PlanFor(p) # "done"
        BY <2>9, <3>1, <4>1, <4>3, InterruptedPlan DEF InspectEntry
      <4>. QED BY <4>2, <4>3
    <3>2. CASE p # r
      BY <2>9, <3>2, PathAssumption DEF InspectEntry, TypeOK
    <3>. QED BY <3>1, <3>2
  <2>10. ASSUME NEW p \in Path, InspectRefused(p) PROVE FileOK(r)'
    BY <2>10 DEF InspectRefused
  <2>11. ASSUME NEW p \in Path, OperateRefused(p) PROVE FileOK(r)'
    BY <2>11 DEF OperateRefused
  <2>12. ASSUME NEW p \in Path, Displace(p) PROVE FileOK(r)'
    <3>1. CASE p = r
      BY <2>12, <3>1 DEF Displace, TypeOK
    <3>2. CASE p # r
      BY <2>12, <3>2, PathAssumption DEF Displace, TypeOK
    <3>. QED BY <3>1, <3>2
  <2>13. ASSUME NEW p \in Path, Restore(p) PROVE FileOK(r)'
    <3>1. CASE p = r
      BY <2>13, <3>1 DEF Restore, TypeOK
    <3>2. CASE p # r
      BY <2>13, <3>2, PathAssumption DEF Restore, TypeOK
    <3>. QED BY <3>1, <3>2
  <2>14. ASSUME NEW p \in Path, DropTombstone(p) PROVE FileOK(r)'
    <3>1. CASE p = r
      BY <2>14, <3>1 DEF DropTombstone, TypeOK
    <3>2. CASE p # r
      BY <2>14, <3>2, PathAssumption DEF DropTombstone, TypeOK
    <3>. QED BY <3>1, <3>2
  <2>15. ASSUME NEW p \in Path, DropQuarantine(p) PROVE FileOK(r)'
    <3>1. CASE p = r
      BY <2>15, <3>1 DEF DropQuarantine, TypeOK
    <3>2. CASE p # r
      BY <2>15, <3>2, PathAssumption DEF DropQuarantine, TypeOK
    <3>. QED BY <3>1, <3>2
  <2>. QED BY <1>1, <2>1, <2>2, <2>3, <2>4, <2>5, <2>6, <2>7, <2>8, <2>9, <2>10, <2>11, <2>12, <2>13,
     <2>14, <2>15 DEF RecoveryStep
<1>2. CASE RunStep
  <2>1. ASSUME NEW g \in Gen, Stage(g) PROVE FileOK(r)'
    BY <2>1 DEF Stage
  <2>2. CASE StageComplete
    BY <2>2 DEF StageComplete
  <2>3. CASE StageFailed
    BY <2>3 DEF StageFailed
  <2>4. CASE DiscardStaged
    BY <2>4 DEF DiscardStaged
  <2>5. CASE LaunchActive
    BY <2>5 DEF LaunchActive
  <2>6. CASE Exit
    BY <2>6 DEF Exit
  <2>7. CASE DiscardAfterRollback
    BY SMTT(30), <2>7 DEF DiscardAfterRollback
  <2>. QED BY <1>2, <2>1, <2>2, <2>3, <2>4, <2>5, <2>6, <2>7 DEF RunStep
<1>3. CASE ApplyStep
  <2>1. CASE BeginApply
    BY <2>1, NoneAssumption DEF BeginApply, Overlay, Entries
  <2>2. CASE ApplyRefused
    BY <2>2 DEF ApplyRefused
  <2>3. CASE FinishApply
    BY <2>3 DEF FinishApply
  <2>4. CASE ApplyFails
    BY <2>4 DEF ApplyFails
  <2>5. CASE QuarantineConfig
    BY <2>5 DEF QuarantineConfig, AtConfig
  <2>6. CASE VerifyConfig
    BY <2>6 DEF VerifyConfig
  <2>7. CASE RestoreDisplacedConfig
    BY <2>7 DEF RestoreDisplacedConfig
  <2>8. CASE PublishConfig
    BY <2>8 DEF PublishConfig, AtConfigPublish, AtConfig
  <2>9. CASE PublishConfigRefused
    BY <2>9 DEF PublishConfigRefused, AtConfigPublish, AtConfig
  <2>10. ASSUME NEW p \in Path, QuarantineFile(p) PROVE FileOK(r)'
    <3>1. CASE p = r
      BY <2>10, <3>1 DEF QuarantineFile, TypeOK
    <3>2. CASE p # r
      BY <2>10, <3>2, PathAssumption DEF QuarantineFile, TypeOK
    <3>. QED BY <3>1, <3>2
  <2>11. ASSUME NEW p \in Path, VerifyQuarantine(p) PROVE FileOK(r)'
    <3>1. CASE p = r
      BY <2>11, <3>1 DEF VerifyQuarantine, TypeOK
    <3>2. CASE p # r
      BY <2>11, <3>2, PathAssumption DEF VerifyQuarantine, TypeOK
    <3>. QED BY <3>1, <3>2
  <2>12. ASSUME NEW p \in Path, RestoreDisplaced(p) PROVE FileOK(r)'
    BY <2>12 DEF RestoreDisplaced
  <2>13. ASSUME NEW p \in Path, PublishFile(p) PROVE FileOK(r)'
    <3>1. CASE p = r
      BY <2>13, <3>1 DEF PublishFile, TypeOK, AtPublish
    <3>2. CASE p # r
      BY <2>13, <3>2, PathAssumption DEF PublishFile, TypeOK, AtPublish
    <3>. QED BY <3>1, <3>2
  <2>14. ASSUME NEW p \in Path, PublishRefused(p) PROVE FileOK(r)'
    BY <2>14 DEF PublishRefused, AtPublish
  <2>. QED BY <1>3, <2>1, <2>2, <2>3, <2>4, <2>5, <2>6, <2>7, <2>8, <2>9, <2>10, <2>11, <2>12, <2>13,
     <2>14 DEF ApplyStep
<1>4. CASE PromotionStep
  <2>1. CASE NotReady
    BY <2>1 DEF NotReady
  <2>2. CASE CommitPromotion
    BY <2>2 DEF CommitPromotion, CanCommit
  <2>3. CASE ReconcilePromotion
    BY <2>3 DEF ReconcilePromotion, PromotionMatches, Entries
  <2>4. CASE CommitConfigArtifact
    BY <2>4 DEF CommitConfigArtifact
  <2>5. CASE PromoteCandidate
    BY <2>5 DEF PromoteCandidate, Overlay
  <2>6. CASE RemovePending
    BY <2>6 DEF RemovePending
  <2>7. CASE ForgetPending
    BY <2>7 DEF ForgetPending
  <2>8. CASE FinishPromotion
    BY <2>8 DEF FinishPromotion
  <2>9. ASSUME NEW p \in Path, CommitArtifact(p) PROVE FileOK(r)'
    <3>1. CASE p = r
      BY <2>9, <3>1 DEF CommitArtifact, TypeOK
    <3>2. CASE p # r
      BY <2>9, <3>2, PathAssumption DEF CommitArtifact, TypeOK
    <3>. QED BY <3>1, <3>2
  <2>. QED BY <1>4, <2>1, <2>2, <2>3, <2>4, <2>5, <2>6, <2>7, <2>8, <2>9 DEF PromotionStep
<1>5. CASE Environment
  <2>1. CASE Crash
    BY <2>1 DEF Crash
  <2>2. ASSUME NEW c \in Cfg, GameRewritesConfig(c) PROVE FileOK(r)'
    BY <2>2 DEF GameRewritesConfig
  <2>3. ASSUME NEW c \in Cfg \cup {Absent}, OperatorEditsConfig(c) PROVE FileOK(r)'
    BY <2>3 DEF OperatorEditsConfig
  <2>4. ASSUME NEW p \in Path, OperatorWrites(p) PROVE FileOK(r)'
    BY <2>4 DEF OperatorWrites, TypeOK
  <2>. QED BY <1>5, <2>1, <2>2, <2>3, <2>4 DEF Environment
<1>6. CASE UNCHANGED vars
  BY <1>6
<1>. QED BY <1>1, <1>2, <1>3, <1>4, <1>5, <1>6 DEF Next, Controller

-----------------------------------------------------------------------------
(* The inductive invariant *)

LEMMA InitIInv == Init => IInv
<1> SUFFICES ASSUME Init PROVE IInv
  OBVIOUS
<1>1. Control /\ Journal /\ Directories
  BY DEF Init, Control, Journal, Directories, RecordedGenerationsExist, ApplyPoints,
         RecoveringPoints, CommittingPoints, CleaningPoints
<1>2. Files
  BY DEF Init, Files, FileOK, Clean, At, Overlay, Nothing
<1>. QED BY <1>1, <1>2, TypeInit DEF IInv

(* In every reachable state IInv holds: types, control, journal, directories
   and the content of every path nobody else has written. *)
THEOREM Invariance == Spec => []IInv
<1>1. IInv /\ [Next]_vars => IInv'
  BY TypeStep, ControlStep, JournalStep, DirectoriesStep, FilesStep DEF IInv
<1>. QED BY InitIInv, <1>1, PTL DEF Spec

(* Types are kept by the whole of recovery, apply, promotion and cleanup. *)
THEOREM TypeCorrect == Spec => []TypeOK
<1>1. IInv => TypeOK
  BY DEF IInv
<1>. QED BY Invariance, <1>1, PTL

(* Recovery undoes Apply, and promotion completes it, on every untouched path,
   for any number of crashes at any points. *)
THEOREM Atomicity == Spec => []ManagedFilesAtomic
<1>1. IInv => ManagedFilesAtomic
  BY DEF IInv, ManagedFilesAtomic, Files, FileOK, Clean, At
<1>. QED BY Invariance, <1>1, PTL

(* What a rollback needs is never lost before the intent to promote. *)
THEOREM Recoverability == Spec => []OriginalRecoverable
<1>1. IInv => OriginalRecoverable
  BY DEF IInv, OriginalRecoverable, Files, FileOK, TrialOK, Interrupted, Clean, At
<1>. QED BY Invariance, <1>1, PTL

(* Whatever the game loads comes from one generation. *)
THEOREM OneGeneration == Spec => []GameSeesOneGeneration
<1>1. ASSUME IInv PROVE GameSeesOneGeneration
  <2>1. ASSUME NEW p \in Path, p \notin touched, pc = "running"
        PROVE  live[p] = Overlay(candidate)[p]
    BY <1>1, <2>1 DEF IInv, Files, FileOK, TrialOK, At, Control, Journal, Overlay
  <2>2. ASSUME NEW p \in Path, p \notin touched, promotion # None
        PROVE  live[p] = Overlay(promotion)[p]
    BY <1>1, <2>2 DEF IInv, Files, FileOK, PromotionOK, Clean, At, Journal, Overlay
  <2>3. ASSUME NEW p \in Path, p \notin touched, pc = "serving"
        PROVE  promotion = None /\ live[p] = Overlay(active)[p]
    BY <1>1, <2>3 DEF IInv, Files, FileOK, Clean, At, Control
  <2>4. pc \in {"reconcile", "commit", "promote", "cleanup", "cleaned"} => promotion # None
    BY <1>1 DEF IInv, Control, CommittingPoints, CleaningPoints
  <2>. QED BY <2>1, <2>2, <2>3, <2>4 DEF GameSeesOneGeneration, GameUp
<1>. QED BY Invariance, <1>1, PTL

(* package-lock.json and state.json agree whenever no promotion is pending. *)
THEOREM LockAgreement == Spec => []LockMatchesActive
<1>1. IInv => LockMatchesActive
  BY DEF IInv, Journal, LockMatchesActive
<1>. QED BY Invariance, <1>1, PTL

(* Neither cleanup nor Discard removes a generation that is still recorded. *)
THEOREM GenerationsKept == Spec => []RecordedGenerationsExist
<1>1. IInv => RecordedGenerationsExist
  BY DEF IInv, Directories
<1>. QED BY Invariance, <1>1, PTL

-----------------------------------------------------------------------------
(* ModTransaction implements the safety part of ModUpdate. *)

LEMMA RefinementInit == Init => Update!Init
BY DEF Init, Update!Init, Untried

(* Every step is a step of ModUpdate or changes nothing it can see. *)
LEMMA RefinementStep == IInv /\ [Next]_vars => [Update!Next]_(Update!vars)
<1> SUFFICES ASSUME TypeOK, Control, Journal, Directories, [Next]_vars
             PROVE  [Update!Next]_(Update!vars)
  BY DEF IInv
<1> USE NoneAssumption
    DEF TypeOK, GenOrNone, Control, Journal, Directories, ApplyPoints, RecoveringPoints, CommittingPoints,
        CleaningPoints, Untried, Update!vars, Update!Next, Update!Promote, Update!Abandon,
        Update!Withdraw, Update!Try
<1>1. CASE RecoveryStep
  <2>1. CASE Boot
    BY <2>1 DEF Boot
  <2>2. CASE Recover
    BY <2>2 DEF Recover
  <2>3. CASE RecoverRefused
    BY <2>3 DEF RecoverRefused
  <2>4. CASE ForgetTransaction
    BY <2>4 DEF ForgetTransaction
  <2>5. CASE InspectConfig
    BY <2>5 DEF InspectConfig
  <2>6. CASE InspectConfigRefused
    BY <2>6 DEF InspectConfigRefused
  <2>7. CASE OperateConfig
    BY <2>7 DEF OperateConfig
  <2>8. CASE OperateConfigRefused
    BY <2>8 DEF OperateConfigRefused
  <2>9. ASSUME NEW p \in Path, InspectEntry(p) PROVE [Update!Next]_(Update!vars)
    BY <2>9 DEF InspectEntry
  <2>10. ASSUME NEW p \in Path, InspectRefused(p) PROVE [Update!Next]_(Update!vars)
    BY <2>10 DEF InspectRefused
  <2>11. ASSUME NEW p \in Path, OperateRefused(p) PROVE [Update!Next]_(Update!vars)
    BY <2>11 DEF OperateRefused
  <2>12. ASSUME NEW p \in Path, Displace(p) PROVE [Update!Next]_(Update!vars)
    BY <2>12 DEF Displace
  <2>13. ASSUME NEW p \in Path, Restore(p) PROVE [Update!Next]_(Update!vars)
    BY <2>13 DEF Restore
  <2>14. ASSUME NEW p \in Path, DropTombstone(p) PROVE [Update!Next]_(Update!vars)
    BY <2>14 DEF DropTombstone
  <2>15. ASSUME NEW p \in Path, DropQuarantine(p) PROVE [Update!Next]_(Update!vars)
    BY <2>15 DEF DropQuarantine
  <2>. QED BY <1>1, <2>1, <2>2, <2>3, <2>4, <2>5, <2>6, <2>7, <2>8, <2>9, <2>10, <2>11, <2>12, <2>13,
     <2>14, <2>15 DEF RecoveryStep
<1>2. CASE RunStep
  <2>1. ASSUME NEW g \in Gen, Stage(g) PROVE [Update!Next]_(Update!vars)
    BY <2>1 DEF Stage
  <2>2. CASE StageComplete
    BY <2>2 DEF StageComplete
  <2>3. CASE StageFailed
    BY <2>3 DEF StageFailed
  <2>4. CASE DiscardStaged
    BY <2>4 DEF DiscardStaged
  <2>5. CASE LaunchActive
    BY <2>5 DEF LaunchActive
  <2>6. CASE Exit
    BY <2>6 DEF Exit
  <2>7. CASE DiscardAfterRollback
    BY <2>7 DEF DiscardAfterRollback
  <2>. QED BY <1>2, <2>1, <2>2, <2>3, <2>4, <2>5, <2>6, <2>7 DEF RunStep
<1>3. CASE ApplyStep
  <2>1. CASE BeginApply
    BY <2>1 DEF BeginApply
  <2>2. CASE ApplyRefused
    BY <2>2 DEF ApplyRefused
  <2>3. CASE FinishApply
    BY <2>3 DEF FinishApply
  <2>4. CASE ApplyFails
    BY <2>4 DEF ApplyFails
  <2>5. CASE QuarantineConfig
    BY <2>5 DEF QuarantineConfig, AtConfig
  <2>6. CASE VerifyConfig
    BY <2>6 DEF VerifyConfig
  <2>7. CASE RestoreDisplacedConfig
    BY <2>7 DEF RestoreDisplacedConfig
  <2>8. CASE PublishConfig
    BY <2>8 DEF PublishConfig, AtConfigPublish, AtConfig
  <2>9. CASE PublishConfigRefused
    BY <2>9 DEF PublishConfigRefused, AtConfigPublish, AtConfig
  <2>10. ASSUME NEW p \in Path, QuarantineFile(p) PROVE [Update!Next]_(Update!vars)
    BY <2>10 DEF QuarantineFile
  <2>11. ASSUME NEW p \in Path, VerifyQuarantine(p) PROVE [Update!Next]_(Update!vars)
    BY <2>11 DEF VerifyQuarantine
  <2>12. ASSUME NEW p \in Path, RestoreDisplaced(p) PROVE [Update!Next]_(Update!vars)
    BY <2>12 DEF RestoreDisplaced
  <2>13. ASSUME NEW p \in Path, PublishFile(p) PROVE [Update!Next]_(Update!vars)
    BY <2>13 DEF PublishFile, AtPublish
  <2>14. ASSUME NEW p \in Path, PublishRefused(p) PROVE [Update!Next]_(Update!vars)
    BY <2>14 DEF PublishRefused, AtPublish
  <2>. QED BY <1>3, <2>1, <2>2, <2>3, <2>4, <2>5, <2>6, <2>7, <2>8, <2>9, <2>10, <2>11, <2>12, <2>13,
     <2>14 DEF ApplyStep
<1>4. CASE PromotionStep
  <2>1. CASE NotReady
    BY <2>1 DEF NotReady
  <2>2. CASE CommitPromotion
    BY <2>2 DEF CommitPromotion, CanCommit
  <2>3. CASE ReconcilePromotion
    BY <2>3 DEF ReconcilePromotion, PromotionMatches
  <2>4. CASE CommitConfigArtifact
    BY <2>4 DEF CommitConfigArtifact
  <2>5. CASE PromoteCandidate
    BY <2>5 DEF PromoteCandidate
  <2>6. CASE RemovePending
    BY <2>6 DEF RemovePending
  <2>7. CASE ForgetPending
    BY <2>7 DEF ForgetPending
  <2>8. CASE FinishPromotion
    BY <2>8 DEF FinishPromotion
  <2>9. ASSUME NEW p \in Path, CommitArtifact(p) PROVE [Update!Next]_(Update!vars)
    BY <2>9 DEF CommitArtifact
  <2>. QED BY <1>4, <2>1, <2>2, <2>3, <2>4, <2>5, <2>6, <2>7, <2>8, <2>9 DEF PromotionStep
<1>5. CASE Environment
  <2>1. CASE Crash
    BY <2>1 DEF Crash
  <2>2. ASSUME NEW c \in Cfg, GameRewritesConfig(c) PROVE [Update!Next]_(Update!vars)
    BY <2>2 DEF GameRewritesConfig
  <2>3. ASSUME NEW c \in Cfg \cup {Absent}, OperatorEditsConfig(c) PROVE [Update!Next]_(Update!vars)
    BY <2>3 DEF OperatorEditsConfig
  <2>4. ASSUME NEW p \in Path, OperatorWrites(p) PROVE [Update!Next]_(Update!vars)
    BY <2>4 DEF OperatorWrites
  <2>. QED BY <1>5, <2>1, <2>2, <2>3, <2>4 DEF Environment
<1>6. CASE UNCHANGED vars
  BY <1>6
<1>. QED BY SMTT(30), <1>1, <1>2, <1>3, <1>4, <1>5, <1>6 DEF Next, Controller

(* Whatever crashes, the mods change by trials that are promoted or abandoned
   in one step, each generation once. *)
THEOREM Refinement == Spec => ImplementsModUpdate
<1>1. IInv /\ [Next]_vars => [Update!Next]_(Update!vars)
  BY RefinementStep
<1>. QED BY RefinementInit, <1>1, Invariance, PTL DEF Spec, ImplementsModUpdate, Update!Spec

-----------------------------------------------------------------------------
(* What is promised to those who write the same tree: nothing that the game or an
   operator wrote is lost (OthersKept), and recovery refuses to go on only where
   an operator has written (NeverBlocked). *)

(* A file moved by mistake is put back; what promotion is about to unlink has
   been found to be what the journal says. *)
ForeignInv ==
  /\ ForeignPreserved
  /\ pc = "commit" => \A p \in todo : quar[p] # Foreign /\ tomb[p] # Foreign

(* The journal entry of BepInEx.cfg, and where the last content written to it
   can be found at each point of Apply and of recovery. *)
EntryInv ==
  /\ cfgEntry => candidate # None /\ cfgInst \in Cfg
  /\ cfgEntry /\ cfgOrig # Absent => cfgInst = Disable[cfgOrig]
  /\ pc \in {"cfgVerify", "cfgPublish", "applied", "cfgOperate"} => cfgEntry
  /\ pc \in {"apply", "verify", "publish"} => cfgQuar = Absent
  /\ pc = "cfgPublish" => cfgQuar = cfgOrig
  /\ pc = "cfgOperate" => plan \in {"restore", "dropQuar"} /\ cfgOrig # Absent

InQuarantine ==
  /\ cfgLive = Absent /\ cfgQuar = lastCfg
  /\ cfgEntry /\ promotion = None
  /\ pc \notin {"applied", "running", "forget"} /\ ~(pc = "cfgOperate" /\ plan = "dropQuar")

LastInv ==
  lastCfg # Absent =>
    /\ cfgLive \in {lastCfg, Disable[lastCfg]} \/ InQuarantine
    /\ pc \in {"apply", "verify", "publish"} /\ cfgEntry => cfgLive = lastCfg

ConfigInv == EntryInv /\ LastInv

(* As long as no operator has edited BepInEx.cfg, its two places are those
   recovery knows how to handle. *)
UndisturbedInv ==
  ~cfgTouched /\ cfgEntry =>
    /\ cfgQuar \in {Absent, cfgOrig}
    /\ cfgOrig # Absent /\ cfgLive = Absent => cfgQuar = cfgOrig
    /\ pc \in {"apply", "verify", "publish"} => cfgLive = cfgOrig
    /\ pc = "cfgOperate" => (plan = "restore" <=> cfgLive = Absent)
    /\ pc \in {"applied", "running"} \/ promotion # None => cfgLive # Absent

(* The records name different generations, and what is scheduled for removal
   is none that will be recorded when its turn comes. *)
RecordInv ==
  /\ candidate = None => orig = Nothing /\ inst = Nothing /\ ~cfgEntry
  /\ candidate = None <=> phase = "none"
  /\ candidate # None /\ promotion # None => phase = "applied"
  /\ active # None => active \notin {previous, candidate, failed}
  /\ candidate # None => candidate \notin {active, previous, failed}
  /\ promotion # None /\ candidate = None => failed = None
  /\ promotion # None => \A i \in 1 .. Len(pendingCleanup) :
       pendingCleanup[i] \notin {None, active, IF candidate # None THEN candidate ELSE previous}

OthersInv == ForeignInv /\ ConfigInv /\ UndisturbedInv /\ RecordInv /\ NeverBlocked

-----------------------------------------------------------------------------
(* The definitions that only name groups of variables or plain control flow. *)
USE DEF vars, state, records, journal, files, config, proc, history,
        Goto, ProcessGone, Refuse, ToRollback, PlanDone, PlanNext, FallBack

(* The records, and what is scheduled for removal. *)
LEMMA RecordStep == TypeOK /\ Control /\ Directories /\ RecordInv /\ [Next]_vars => RecordInv'
<1> SUFFICES ASSUME TypeOK, Control, Directories, RecordInv, [Next]_vars PROVE RecordInv'
  OBVIOUS
<1> USE DEF RecordInv, ApplyPoints
<1>1. CASE RecoveryStep
  <2>1. CASE \/ Boot \/ Recover
            \/ RecoverRefused \/ InspectConfig
            \/ InspectConfigRefused \/ OperateConfig
            \/ OperateConfigRefused \/ (\E p \in Path : InspectEntry(p))
            \/ (\E p \in Path : InspectRefused(p)) \/ (\E p \in Path : OperateRefused(p))
            \/ (\E p \in Path : Displace(p)) \/ (\E p \in Path : Restore(p))
            \/ (\E p \in Path : DropTombstone(p)) \/ (\E p \in Path : DropQuarantine(p))
    BY <2>1 DEF Boot, Recover, RecoverRefused, InspectConfig, InspectConfigRefused, OperateConfig,
       OperateConfigRefused, InspectEntry, InspectRefused, OperateRefused, Displace, Restore,
       DropTombstone, DropQuarantine
  <2>2. CASE ForgetTransaction
    BY <2>2 DEF ForgetTransaction, Control, RecoveringPoints
  <2> QED BY <1>1, <2>1, <2>2 DEF RecoveryStep
<1>2. CASE RunStep
  <2>1. CASE \/ StageComplete \/ StageFailed \/ DiscardStaged
            \/ LaunchActive \/ Exit \/ DiscardAfterRollback
    BY <2>1 DEF StageComplete, StageFailed, DiscardStaged, LaunchActive, Exit, DiscardAfterRollback
  <2>2. ASSUME NEW g \in Gen, Stage(g) PROVE RecordInv'
    BY <2>2 DEF Stage
  <2> QED BY <1>2, <2>1, <2>2 DEF RunStep
<1>3. CASE ApplyStep
  <2>1. CASE \/ ApplyRefused \/ ApplyFails \/ QuarantineConfig
            \/ VerifyConfig \/ RestoreDisplacedConfig
            \/ PublishConfig \/ PublishConfigRefused
            \/ (\E p \in Path : QuarantineFile(p)) \/ (\E p \in Path : VerifyQuarantine(p))
            \/ (\E p \in Path : RestoreDisplaced(p)) \/ (\E p \in Path : PublishFile(p))
            \/ (\E p \in Path : PublishRefused(p))
    BY <2>1 DEF ApplyRefused, ApplyFails, QuarantineConfig, VerifyConfig,
       RestoreDisplacedConfig, PublishConfig, PublishConfigRefused, QuarantineFile,
       VerifyQuarantine, RestoreDisplaced, PublishFile, PublishRefused
  <2>2. CASE BeginApply
    BY <2>2, NoneAssumption DEF BeginApply, Control, Directories, Referenced
  <2>3. CASE FinishApply
    BY <2>3 DEF FinishApply, Control
  <2> QED BY <1>3, <2>1, <2>2, <2>3 DEF ApplyStep
<1>4. CASE PromotionStep
  <2>1. CASE \/ NotReady
            \/ CommitConfigArtifact
            \/ (\E p \in Path : CommitArtifact(p))
    BY <2>1 DEF NotReady, CommitConfigArtifact, CommitArtifact
  <2>2. CASE CommitPromotion
    BY <2>2 DEF CommitPromotion, CanCommit, CleanupGenerationIDs, TypeOK
  <2>3. CASE ReconcilePromotion
    BY <2>3 DEF ReconcilePromotion
  <2>4. CASE PromoteCandidate
    BY <2>4 DEF PromoteCandidate, Control, CommittingPoints, TypeOK
  <2>5. CASE RemovePending
    BY <2>5 DEF RemovePending
  <2>6. CASE ForgetPending
    BY <2>6 DEF ForgetPending, TypeOK, Control
  <2>7. CASE FinishPromotion
    BY <2>7 DEF FinishPromotion
  <2> QED BY <1>4, <2>1, <2>2, <2>3, <2>4, <2>5, <2>6, <2>7 DEF PromotionStep
<1>5. CASE Environment
  <2>1. CASE \/ Crash
            \/ (\E c \in Cfg : GameRewritesConfig(c))
            \/ (\E c \in Cfg \cup {Absent} : OperatorEditsConfig(c))
            \/ (\E p \in Path : OperatorWrites(p))
    BY <2>1 DEF Crash, GameRewritesConfig, OperatorEditsConfig, OperatorWrites
  <2> QED BY <1>5, <2>1 DEF Environment
<1>6. CASE UNCHANGED vars
  BY <1>6
<1> QED BY <1>1, <1>2, <1>3, <1>4, <1>5, <1>6 DEF Next, Controller

(* The journal entry of BepInEx.cfg. *)
LEMMA EntryStep == TypeOK /\ Control /\ RecordInv /\ EntryInv /\ [Next]_vars => EntryInv'
<1> SUFFICES ASSUME TypeOK, Control, RecordInv, EntryInv, [Next]_vars PROVE EntryInv'
  OBVIOUS
<1> USE DEF EntryInv, ApplyPoints
<1>1. CASE RecoveryStep
  <2>1. CASE \/ Boot \/ Recover
            \/ RecoverRefused \/ InspectConfigRefused
            \/ OperateConfig \/ OperateConfigRefused
            \/ (\E p \in Path : InspectEntry(p)) \/ (\E p \in Path : InspectRefused(p))
            \/ (\E p \in Path : OperateRefused(p)) \/ (\E p \in Path : Displace(p))
            \/ (\E p \in Path : Restore(p)) \/ (\E p \in Path : DropTombstone(p))
            \/ (\E p \in Path : DropQuarantine(p))
    BY <2>1 DEF Boot, Recover, RecoverRefused, InspectConfigRefused, OperateConfig,
       OperateConfigRefused, InspectEntry, InspectRefused, OperateRefused, Displace, Restore,
       DropTombstone, DropQuarantine
  <2>2. CASE ForgetTransaction
    BY <2>2 DEF ForgetTransaction
  <2>3. CASE InspectConfig
    BY <2>3 DEF InspectConfig, ConfigPlan
  <2> QED BY <1>1, <2>1, <2>2, <2>3 DEF RecoveryStep
<1>2. CASE RunStep
  <2>1. CASE \/ StageComplete \/ StageFailed
            \/ DiscardStaged \/ LaunchActive
            \/ Exit \/ DiscardAfterRollback
            \/ (\E g \in Gen : Stage(g))
    BY <2>1 DEF Stage, StageComplete, StageFailed, DiscardStaged, LaunchActive, Exit,
       DiscardAfterRollback
  <2> QED BY <1>2, <2>1 DEF RunStep
<1>3. CASE ApplyStep
  <2>1. CASE \/ ApplyRefused \/ FinishApply
            \/ ApplyFails \/ RestoreDisplacedConfig
            \/ PublishConfigRefused \/ (\E p \in Path : QuarantineFile(p))
            \/ (\E p \in Path : VerifyQuarantine(p)) \/ (\E p \in Path : RestoreDisplaced(p))
            \/ (\E p \in Path : PublishRefused(p))
    BY <2>1 DEF ApplyRefused, FinishApply, ApplyFails, RestoreDisplacedConfig, PublishConfigRefused,
       QuarantineFile, VerifyQuarantine, RestoreDisplaced, PublishRefused
  <2>2. CASE BeginApply
    BY <2>2, NoneAssumption, AbsentAssumption, ConfigAssumption DEF BeginApply, Control,
       ConsoleConfig, TypeOK
  <2>3. CASE QuarantineConfig
    BY <2>3 DEF QuarantineConfig, AtConfig
  <2>4. CASE VerifyConfig
    BY <2>4 DEF VerifyConfig
  <2>5. CASE PublishConfig
    BY <2>5 DEF PublishConfig, AtConfigPublish, AtConfig
  <2>6. ASSUME NEW p \in Path, PublishFile(p) PROVE EntryInv'
    BY <2>6 DEF PublishFile, AtPublish
  <2> QED BY <1>3, <2>1, <2>2, <2>3, <2>4, <2>5, <2>6 DEF ApplyStep
<1>4. CASE PromotionStep
  <2>1. CASE \/ NotReady \/ CommitPromotion
            \/ RemovePending \/ ForgetPending
            \/ FinishPromotion \/ (\E p \in Path : CommitArtifact(p))
    BY <2>1 DEF NotReady, CommitPromotion, RemovePending, ForgetPending, FinishPromotion,
       CommitArtifact
  <2>2. CASE ReconcilePromotion
    BY <2>2 DEF ReconcilePromotion
  <2>3. CASE CommitConfigArtifact
    BY <2>3 DEF CommitConfigArtifact
  <2>4. CASE PromoteCandidate
    BY <2>4 DEF PromoteCandidate
  <2> QED BY <1>4, <2>1, <2>2, <2>3, <2>4 DEF PromotionStep
<1>5. CASE Environment
  <2>1. CASE \/ Crash
            \/ (\E c \in Cfg : GameRewritesConfig(c))
            \/ (\E c \in Cfg \cup {Absent} : OperatorEditsConfig(c))
            \/ (\E p \in Path : OperatorWrites(p))
    BY <2>1 DEF Crash, GameRewritesConfig, OperatorEditsConfig, OperatorWrites
  <2> QED BY <1>5, <2>1 DEF Environment
<1>6. CASE UNCHANGED vars
  BY <1>6
<1> QED BY <1>1, <1>2, <1>3, <1>4, <1>5, <1>6 DEF Next, Controller

(* The configuration last written is never the only copy of itself that a step
   removes. *)
LEMMA LastStep == TypeOK /\ Control /\ RecordInv /\ EntryInv /\ LastInv /\ [Next]_vars => LastInv'
<1> SUFFICES ASSUME TypeOK, Control, RecordInv, EntryInv, LastInv, [Next]_vars PROVE LastInv'
  OBVIOUS
<1> USE DEF EntryInv, LastInv, InQuarantine, ApplyPoints
<1>1. CASE RecoveryStep
  <2>1. CASE \/ Boot \/ Recover
            \/ RecoverRefused \/ InspectConfigRefused
            \/ OperateConfigRefused \/ (\E p \in Path : InspectEntry(p))
            \/ (\E p \in Path : InspectRefused(p)) \/ (\E p \in Path : OperateRefused(p))
            \/ (\E p \in Path : Displace(p)) \/ (\E p \in Path : Restore(p))
            \/ (\E p \in Path : DropTombstone(p)) \/ (\E p \in Path : DropQuarantine(p))
    BY <2>1 DEF Boot, Recover, RecoverRefused, InspectConfigRefused, OperateConfigRefused,
       InspectEntry, InspectRefused, OperateRefused, Displace, Restore, DropTombstone,
       DropQuarantine
  <2>2. CASE ForgetTransaction
    BY <2>2, AbsentAssumption, ConfigAssumption DEF ForgetTransaction, TypeOK
  <2>3. CASE InspectConfig
    BY <2>3, AbsentAssumption, ConfigAssumption DEF InspectConfig, ConfigPlan, TypeOK, Control,
       RecoveringPoints
  <2>4. CASE OperateConfig
    BY <2>4, AbsentAssumption, ConfigAssumption DEF OperateConfig, TypeOK
  <2> QED BY <1>1, <2>1, <2>2, <2>3, <2>4 DEF RecoveryStep
<1>2. CASE RunStep
  <2>1. CASE \/ StageComplete \/ StageFailed
            \/ DiscardStaged \/ LaunchActive
            \/ Exit \/ DiscardAfterRollback
            \/ (\E g \in Gen : Stage(g))
    BY <2>1 DEF Stage, StageComplete, StageFailed, DiscardStaged, LaunchActive, Exit,
       DiscardAfterRollback
  <2> QED BY <1>2, <2>1 DEF RunStep
<1>3. CASE ApplyStep
  <2>1. CASE \/ ApplyRefused \/ ApplyFails
            \/ VerifyConfig \/ PublishConfigRefused
            \/ (\E p \in Path : QuarantineFile(p)) \/ (\E p \in Path : VerifyQuarantine(p))
            \/ (\E p \in Path : RestoreDisplaced(p)) \/ (\E p \in Path : PublishRefused(p))
    BY <2>1 DEF ApplyRefused, ApplyFails, VerifyConfig, PublishConfigRefused, QuarantineFile,
       VerifyQuarantine, RestoreDisplaced, PublishRefused
  <2>2. CASE BeginApply
    BY <2>2, ConfigAssumption, AbsentAssumption DEF BeginApply, Control, RecordInv, ConsoleConfig,
       TypeOK
  <2>3. CASE FinishApply
    BY <2>3, AbsentAssumption, ConfigAssumption DEF FinishApply, TypeOK, Control
  <2>4. CASE QuarantineConfig
    BY <2>4, AbsentAssumption DEF QuarantineConfig, AtConfig, TypeOK, Control
  <2>5. CASE RestoreDisplacedConfig
    BY <2>5, AbsentAssumption, ConfigAssumption DEF RestoreDisplacedConfig, TypeOK
  <2>6. CASE PublishConfig
    BY <2>6, AbsentAssumption, ConfigAssumption DEF PublishConfig, AtConfigPublish, AtConfig, TypeOK
  <2>7. ASSUME NEW p \in Path, PublishFile(p) PROVE LastInv'
    BY <2>7 DEF PublishFile, AtPublish
  <2> QED BY <1>3, <2>1, <2>2, <2>3, <2>4, <2>5, <2>6, <2>7 DEF ApplyStep
<1>4. CASE PromotionStep
  <2>1. CASE \/ NotReady
            \/ RemovePending
            \/ ForgetPending
            \/ (\E p \in Path : CommitArtifact(p))
    BY <2>1 DEF NotReady, RemovePending, ForgetPending, CommitArtifact
  <2>2. CASE CommitPromotion
    BY <2>2, AbsentAssumption, ConfigAssumption DEF CommitPromotion, TypeOK
  <2>3. CASE ReconcilePromotion
    BY <2>3 DEF ReconcilePromotion
  <2>4. CASE CommitConfigArtifact
    BY <2>4, AbsentAssumption, ConfigAssumption DEF CommitConfigArtifact, TypeOK, Control,
       CommittingPoints
  <2>5. CASE PromoteCandidate
    BY <2>5, AbsentAssumption, ConfigAssumption DEF PromoteCandidate, TypeOK, Control,
       CommittingPoints
  <2>6. CASE FinishPromotion
    BY <2>6 DEF FinishPromotion, Control, CleaningPoints, RecordInv
  <2> QED BY <1>4, <2>1, <2>2, <2>3, <2>4, <2>5, <2>6 DEF PromotionStep
<1>5. CASE Environment
  <2>1. CASE \/ Crash
            \/ (\E p \in Path : OperatorWrites(p))
    BY <2>1 DEF Crash, OperatorWrites
  <2>2. ASSUME NEW c \in Cfg, GameRewritesConfig(c) PROVE LastInv'
    BY <2>2 DEF GameRewritesConfig
  <2>3. ASSUME NEW c \in Cfg \cup {Absent}, OperatorEditsConfig(c) PROVE LastInv'
    BY <2>3 DEF OperatorEditsConfig, GameUp
  <2> QED BY <1>5, <2>1, <2>2, <2>3 DEF Environment
<1>6. CASE UNCHANGED vars
  BY <1>6
<1> QED BY <1>1, <1>2, <1>3, <1>4, <1>5, <1>6 DEF Next, Controller

(* Without an operator recovery knows how to handle BepInEx.cfg. *)
LEMMA UndisturbedStep == TypeOK /\ Control /\ EntryInv /\ UndisturbedInv /\ [Next]_vars =>
   UndisturbedInv'
<1> SUFFICES ASSUME TypeOK, Control, EntryInv, UndisturbedInv, [Next]_vars PROVE UndisturbedInv'
  OBVIOUS
<1> USE DEF EntryInv, UndisturbedInv, ApplyPoints
<1>1. CASE RecoveryStep
  <2>1. CASE \/ Boot \/ Recover
            \/ RecoverRefused \/ InspectConfigRefused
            \/ OperateConfigRefused \/ (\E p \in Path : InspectEntry(p))
            \/ (\E p \in Path : InspectRefused(p)) \/ (\E p \in Path : OperateRefused(p))
            \/ (\E p \in Path : Displace(p)) \/ (\E p \in Path : Restore(p))
            \/ (\E p \in Path : DropTombstone(p)) \/ (\E p \in Path : DropQuarantine(p))
    BY ZenonT(40), <2>1 DEF Boot, Recover, RecoverRefused, InspectConfigRefused, OperateConfigRefused,
       InspectEntry, InspectRefused, OperateRefused, Displace, Restore, DropTombstone,
       DropQuarantine
  <2>2. CASE ForgetTransaction
    BY <2>2 DEF ForgetTransaction
  <2>3. CASE InspectConfig
    BY <2>3, AbsentAssumption DEF InspectConfig, ConfigPlan, TypeOK, Control, RecoveringPoints
  <2>4. CASE OperateConfig
    BY <2>4, AbsentAssumption DEF OperateConfig, TypeOK, Control, RecoveringPoints
  <2> QED BY <1>1, <2>1, <2>2, <2>3, <2>4 DEF RecoveryStep
<1>2. CASE RunStep
  <2>1. CASE \/ StageComplete \/ StageFailed
            \/ DiscardStaged \/ LaunchActive
            \/ Exit \/ DiscardAfterRollback
            \/ (\E g \in Gen : Stage(g))
    BY <2>1 DEF Stage, StageComplete, StageFailed, DiscardStaged, LaunchActive, Exit,
       DiscardAfterRollback
  <2> QED BY <1>2, <2>1 DEF RunStep
<1>3. CASE ApplyStep
  <2>1. CASE \/ ApplyRefused \/ ApplyFails
            \/ VerifyConfig \/ PublishConfigRefused
            \/ (\E p \in Path : QuarantineFile(p)) \/ (\E p \in Path : VerifyQuarantine(p))
            \/ (\E p \in Path : RestoreDisplaced(p)) \/ (\E p \in Path : PublishRefused(p))
    BY ZenonT(40), <2>1 DEF ApplyRefused, ApplyFails, VerifyConfig, PublishConfigRefused, QuarantineFile,
       VerifyQuarantine, RestoreDisplaced, PublishRefused
  <2>2. CASE BeginApply
    BY <2>2 DEF BeginApply, Control, TypeOK
  <2>3. CASE FinishApply
    BY <2>3 DEF FinishApply, Control
  <2>4. CASE QuarantineConfig
    BY <2>4, AbsentAssumption DEF QuarantineConfig, AtConfig, TypeOK, Control
  <2>5. CASE RestoreDisplacedConfig
    BY <2>5 DEF RestoreDisplacedConfig, Control
  <2>6. CASE PublishConfig
    BY <2>6, AbsentAssumption DEF PublishConfig, AtConfigPublish, AtConfig, TypeOK, Control
  <2>7. ASSUME NEW p \in Path, PublishFile(p) PROVE UndisturbedInv'
    BY <2>7 DEF PublishFile, AtPublish
  <2> QED BY <1>3, <2>1, <2>2, <2>3, <2>4, <2>5, <2>6, <2>7 DEF ApplyStep
<1>4. CASE PromotionStep
  <2>1. CASE \/ NotReady \/ RemovePending
            \/ ForgetPending \/ FinishPromotion
            \/ (\E p \in Path : CommitArtifact(p))
    BY <2>1 DEF NotReady, RemovePending, ForgetPending, FinishPromotion, CommitArtifact
  <2>2. CASE CommitPromotion
    BY <2>2 DEF CommitPromotion, CanCommit
  <2>3. CASE ReconcilePromotion
    BY <2>3 DEF ReconcilePromotion
  <2>4. CASE CommitConfigArtifact
    BY <2>4 DEF CommitConfigArtifact, TypeOK, Control, CommittingPoints
  <2>5. CASE PromoteCandidate
    BY <2>5 DEF PromoteCandidate
  <2> QED BY <1>4, <2>1, <2>2, <2>3, <2>4, <2>5 DEF PromotionStep
<1>5. CASE Environment
  <2>1. CASE \/ Crash
            \/ (\E p \in Path : OperatorWrites(p))
    BY <2>1 DEF Crash, OperatorWrites
  <2>2. ASSUME NEW c \in Cfg, GameRewritesConfig(c) PROVE UndisturbedInv'
    BY <2>2, AbsentAssumption DEF GameRewritesConfig, GameUp, Control, RecoveringPoints
  <2>3. ASSUME NEW c \in Cfg \cup {Absent}, OperatorEditsConfig(c) PROVE UndisturbedInv'
    BY <2>3 DEF OperatorEditsConfig
  <2> QED BY <1>5, <2>1, <2>2, <2>3 DEF Environment
<1>6. CASE UNCHANGED vars
  BY <1>6
<1> QED BY <1>1, <1>2, <1>3, <1>4, <1>5, <1>6 DEF Next, Controller

(* No step destroys what an operator has written. *)
LEMMA ForeignStep == TypeOK /\ ForeignInv /\ [Next]_vars => ForeignInv'
<1> SUFFICES ASSUME TypeOK, ForeignInv, [Next]_vars PROVE ForeignInv'
  OBVIOUS
<1> USE DEF ForeignInv, ForeignPreserved
<1>1. CASE RecoveryStep
  <2>1. CASE \/ Boot \/ Recover
            \/ RecoverRefused \/ ForgetTransaction
            \/ InspectConfig \/ InspectConfigRefused
            \/ OperateConfig \/ OperateConfigRefused
            \/ (\E p \in Path : InspectEntry(p)) \/ (\E p \in Path : InspectRefused(p))
            \/ (\E p \in Path : OperateRefused(p))
    BY <2>1 DEF Boot, Recover, RecoverRefused, ForgetTransaction, InspectConfig,
       InspectConfigRefused, OperateConfig, OperateConfigRefused, InspectEntry, InspectRefused,
       OperateRefused
  <2>2. ASSUME NEW p \in Path, Displace(p) PROVE ForeignInv'
    BY <2>2, AbsentAssumption DEF Displace, TypeOK
  <2>3. ASSUME NEW p \in Path, Restore(p) PROVE ForeignInv'
    BY <2>3, AbsentAssumption DEF Restore, TypeOK
  <2>4. ASSUME NEW p \in Path, DropTombstone(p) PROVE ForeignInv'
    BY <2>4, AbsentAssumption, ForeignAssumption DEF DropTombstone, TypeOK, Content
  <2>5. ASSUME NEW p \in Path, DropQuarantine(p) PROVE ForeignInv'
    BY <2>5, AbsentAssumption, ForeignAssumption DEF DropQuarantine, TypeOK, Content
  <2> QED BY <1>1, <2>1, <2>2, <2>3, <2>4, <2>5 DEF RecoveryStep
<1>2. CASE RunStep
  <2>1. CASE \/ StageComplete \/ StageFailed
            \/ DiscardStaged \/ LaunchActive
            \/ Exit \/ DiscardAfterRollback
            \/ (\E g \in Gen : Stage(g))
    BY <2>1 DEF Stage, StageComplete, StageFailed, DiscardStaged, LaunchActive, Exit,
       DiscardAfterRollback
  <2> QED BY <1>2, <2>1 DEF RunStep
<1>3. CASE ApplyStep
  <2>1. CASE \/ BeginApply \/ ApplyRefused
            \/ FinishApply \/ ApplyFails
            \/ QuarantineConfig \/ VerifyConfig
            \/ RestoreDisplacedConfig \/ PublishConfig
            \/ PublishConfigRefused \/ (\E p \in Path : VerifyQuarantine(p))
    BY <2>1 DEF BeginApply, ApplyRefused, FinishApply, ApplyFails, QuarantineConfig, VerifyConfig,
       RestoreDisplacedConfig, PublishConfig, PublishConfigRefused, VerifyQuarantine
  <2>2. ASSUME NEW p \in Path, QuarantineFile(p) PROVE ForeignInv'
    BY <2>2, AbsentAssumption DEF QuarantineFile, TypeOK
  <2>3. ASSUME NEW p \in Path, RestoreDisplaced(p) PROVE ForeignInv'
    BY <2>3, AbsentAssumption DEF RestoreDisplaced, TypeOK
  <2>4. ASSUME NEW p \in Path, PublishFile(p) PROVE ForeignInv'
    BY <2>4, AbsentAssumption DEF PublishFile, TypeOK, AtPublish
  <2>5. ASSUME NEW p \in Path, PublishRefused(p) PROVE ForeignInv'
    BY <2>5 DEF PublishRefused, AtPublish
  <2> QED BY <1>3, <2>1, <2>2, <2>3, <2>4, <2>5 DEF ApplyStep
<1>4. CASE PromotionStep
  <2>1. CASE \/ NotReady \/ CommitPromotion \/ CommitConfigArtifact
            \/ PromoteCandidate \/ RemovePending \/ ForgetPending
            \/ FinishPromotion
    BY <2>1 DEF NotReady, CommitPromotion, CommitConfigArtifact, PromoteCandidate, RemovePending,
       ForgetPending, FinishPromotion
  <2>2. CASE ReconcilePromotion
    BY <2>2, AbsentAssumption, ForeignAssumption DEF ReconcilePromotion, ArtifactsValid, Entries,
       TypeOK, Content
  <2>3. ASSUME NEW p \in Path, CommitArtifact(p) PROVE ForeignInv'
    BY <2>3, AbsentAssumption DEF CommitArtifact, TypeOK, Current
  <2> QED BY <1>4, <2>1, <2>2, <2>3 DEF PromotionStep
<1>5. CASE Environment
  <2>1. CASE \/ Crash
            \/ (\E c \in Cfg : GameRewritesConfig(c))
            \/ (\E c \in Cfg \cup {Absent} : OperatorEditsConfig(c))
    BY <2>1 DEF Crash, GameRewritesConfig, OperatorEditsConfig
  <2>2. ASSUME NEW p \in Path, OperatorWrites(p) PROVE ForeignInv'
    BY <2>2 DEF OperatorWrites, TypeOK
  <2> QED BY <1>5, <2>1, <2>2 DEF Environment
<1>6. CASE UNCHANGED vars
  BY <1>6
<1> QED BY <1>1, <1>2, <1>3, <1>4, <1>5, <1>6 DEF Next, Controller

-----------------------------------------------------------------------------
(* No state this program writes is one that its own validation refuses. *)
LEMMA StateOK == RecordInv /\ EntryInv => StateValid
  BY AbsentAssumption DEF RecordInv, EntryInv, StateValid

(* Where no operator has written, all that is found in the quarantine and the
   tombstones is what the journal says. *)
LEMMA Valid ==
  IInv /\ RecordInv /\ EntryInv /\ UndisturbedInv /\ touched = {} /\ ~cfgTouched => ArtifactsValid
<1> SUFFICES ASSUME IInv, RecordInv, EntryInv, UndisturbedInv, touched = {}, ~cfgTouched
             PROVE  ArtifactsValid
  OBVIOUS
<1>3. StateValid
  BY StateOK
<1>1. cfgEntry => cfgQuar \in {Absent, cfgOrig}
  BY DEF UndisturbedInv
<1>2. ASSUME NEW p \in Entries(orig, inst)
      PROVE  quar[p] \in {Absent, orig[p]} /\ tomb[p] \in {Absent, inst[p]}
  <2>1. p \in Path /\ candidate # None
    BY <1>2 DEF RecordInv, Entries, Nothing
  <2>2. FileOK(p)
    BY <2>1 DEF IInv, Files
  <2> QED BY <2>1, <2>2 DEF FileOK, TrialOK, PromotionOK, Interrupted, Clean, At
<1> QED BY <1>1, <1>2, <1>3 DEF ArtifactsValid

(* A check of recovery, promotion or cleanup fails only after an operator has
   written. *)
LEMMA BlockedStep ==
  IInv /\ RecordInv /\ EntryInv /\ UndisturbedInv /\ NeverBlocked /\ [Next]_vars => NeverBlocked'
<1> SUFFICES ASSUME IInv, RecordInv, EntryInv, UndisturbedInv, NeverBlocked, [Next]_vars,
                    touched' = {}, ~cfgTouched'
             PROVE  ~blocked'
  BY DEF NeverBlocked
<1>1. touched = {}
  BY TouchedGrows
<1>2. \A p \in Path : FileOK(p)
  BY <1>1 DEF IInv, Files
<1> USE DEF NeverBlocked
<1>3. CASE RecoveryStep
  <2> ~cfgTouched
    BY <1>3 DEF RecoveryStep, Boot, Recover, RecoverRefused, ForgetTransaction, InspectConfig,
       InspectConfigRefused, OperateConfig, OperateConfigRefused, InspectEntry, InspectRefused,
       OperateRefused, Displace, Restore, DropTombstone, DropQuarantine
  <2>1. CASE Boot \/ Recover \/ ForgetTransaction \/ InspectConfig \/ OperateConfig
    BY <1>1, <2>1 DEF Boot, Recover, ForgetTransaction, InspectConfig, OperateConfig
  <2>2. CASE \E p \in Path : \/ InspectEntry(p) \/ Displace(p) \/ Restore(p)
                             \/ DropTombstone(p) \/ DropQuarantine(p)
    BY <1>1, <2>2 DEF InspectEntry, Displace, Restore, DropTombstone, DropQuarantine
  <2>3. CASE RecoverRefused
    BY <1>1, <2>3, Valid, StateOK DEF RecoverRefused
  <2>4. CASE InspectConfigRefused
    BY <2>4 DEF InspectConfigRefused, ConfigPlan, UndisturbedInv
  <2>5. CASE OperateConfigRefused
    BY <2>5 DEF OperateConfigRefused, UndisturbedInv, EntryInv
  <2>6. ASSUME NEW p \in Path, InspectRefused(p) PROVE ~blocked'
    <3>1. Interrupted(p, orig[p], inst[p])
      BY <1>2, <2>6 DEF InspectRefused, IInv, Control, RecoveringPoints, FileOK, TrialOK
    <3> QED BY <2>6, <3>1, InterruptedPlan DEF InspectRefused
  <2>7. ASSUME NEW p \in Path, OperateRefused(p) PROVE ~blocked'
    <3>1. Planned(p, orig[p], inst[p])
      BY <1>2, <2>7 DEF OperateRefused, IInv, Control, RecoveringPoints, FileOK, TrialOK
    <3> QED BY <2>7, <3>1 DEF OperateRefused, OperationSafe, Planned, PlannedFor, At
  <2> QED BY <1>3, <2>1, <2>2, <2>3, <2>4, <2>5, <2>6, <2>7 DEF RecoveryStep
<1>4. CASE RunStep
  BY <1>1, <1>4 DEF RunStep, Stage, StageComplete, StageFailed, DiscardStaged, LaunchActive, Exit,
     DiscardAfterRollback
<1>5. CASE ApplyStep
  BY <1>1, <1>5 DEF ApplyStep, BeginApply, ApplyRefused, FinishApply, ApplyFails, QuarantineConfig,
     VerifyConfig, RestoreDisplacedConfig, PublishConfig, PublishConfigRefused, QuarantineFile,
     VerifyQuarantine, RestoreDisplaced, PublishFile, PublishRefused
<1>6. CASE PromotionStep
  <2>1. CASE \/ NotReady \/ CommitPromotion \/ CommitConfigArtifact \/ PromoteCandidate
             \/ ForgetPending \/ FinishPromotion \/ \E p \in Path : CommitArtifact(p)
    BY <1>1, <2>1 DEF NotReady, CommitPromotion, CommitConfigArtifact, PromoteCandidate,
       ForgetPending, FinishPromotion, CommitArtifact
  <2>2. CASE ReconcilePromotion
    <3>1. PromotionMatches
      BY <2>2 DEF ReconcilePromotion, PromotionMatches, IInv, Control, Journal, RecordInv
    <3>2. ~cfgTouched
      BY <2>2 DEF ReconcilePromotion
    <3> QED BY <1>1, <2>2, <3>1, <3>2, Valid DEF ReconcilePromotion
  <2>3. CASE RemovePending
    <3>1. pendingCleanup[1] \notin {None, active, previous} /\ candidate = None /\ failed = None
      BY <2>3 DEF RemovePending, IInv, TypeOK, Control, CleaningPoints, RecordInv
    <3>2. ~Referenced(Head(pendingCleanup))
      BY <2>3, <3>1 DEF RemovePending, Referenced, IInv, TypeOK
    <3> QED BY <1>1, <2>3, <3>2 DEF RemovePending
  <2> QED BY <1>6, <2>1, <2>2, <2>3 DEF PromotionStep
<1>7. CASE Environment
  BY <1>1, <1>7 DEF Environment, Crash, GameRewritesConfig, OperatorEditsConfig, OperatorWrites
<1>8. CASE UNCHANGED vars
  BY <1>1, <1>8
<1> QED BY <1>3, <1>4, <1>5, <1>6, <1>7, <1>8 DEF Next, Controller

-----------------------------------------------------------------------------
LEMMA OthersInit == Init => OthersInv
<1> SUFFICES ASSUME Init PROVE OthersInv
  OBVIOUS
<1>1. ForeignInv /\ NeverBlocked
  BY DEF Init, ForeignInv, ForeignPreserved, NeverBlocked
<1>2. ConfigInv /\ UndisturbedInv /\ RecordInv
  BY DEF Init, ConfigInv, EntryInv, LastInv, UndisturbedInv, RecordInv
<1> QED BY <1>1, <1>2 DEF OthersInv

LEMMA Together == Spec => [](IInv /\ OthersInv)
<1>1. IInv /\ OthersInv /\ [Next]_vars => OthersInv'
  BY RecordStep, EntryStep, LastStep, UndisturbedStep, ForeignStep, BlockedStep
     DEF IInv, OthersInv, ConfigInv
<1>2. Spec => []OthersInv
  BY OthersInit, <1>1, Invariance, PTL DEF Spec
<1> QED BY <1>2, Invariance, PTL

(* Nothing that game or operator wrote is lost, at any path and any moment. *)
THEOREM Preservation == Spec => []OthersKept
<1>1. IInv /\ OthersInv => OthersKept
  BY DEF OthersInv, ForeignInv, ConfigInv, LastInv, InQuarantine, OthersKept, ConfigKept
<1> QED BY <1>1, Together, PTL

(* Without outside interference every start recovers by itself. *)
THEOREM Recovery == Spec => []NeverBlocked
<1>1. OthersInv => NeverBlocked
  BY DEF OthersInv
<1> QED BY <1>1, Together, PTL

=============================================================================
