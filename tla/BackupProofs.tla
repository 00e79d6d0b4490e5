---------------------------- MODULE BackupProofs ----------------------------
(***************************************************************************)
(* For any members, retention and bounds: what has the name of a completed *)
(* archive is whole, a new archive holds the sources as they were at one   *)
(* instant after they had been read, and under a steady clock it survives  *)
(* the pruning that follows.                                               *)
(***************************************************************************)
EXTENDS Backup, FiniteSetTheorems, WellFoundedInduction, TLAPS

Known == archives \cup pruned \cup own

(* An archive of this run exists between publication and the end. *)
OwnInv == pc \in {"collecting", "writing", "validating"} => own = {}

TodoInv == pc \in Creating \cup {"created"} => todo = {}

ClockInv == pc \in (Creating \ {"collecting"}) => clock \in Times

(* Everything published was synced first. *)
WholeInv ==
  /\ pc = "validating" => synced
  /\ \A a \in Known : a.durable /\ a.payload \in Stamps

(* What was collected or written is no newer than the sources. *)
EntriesInv ==
  /\ \A m \in Member : source[m] <= changes
  /\ pc = "collecting" => \A m \in Member \ left : entries[m] <= source[m]
  /\ pc = "writing" => \A m \in Member :
       entries[m] <= source[m] /\ (m \notin left => payload[m] = entries[m])
  /\ pc = "validating" => payload = entries

(* Some state since the archive was written lies between the archive and the
   sources, and agrees with the archive on every member compared again. *)
WitnessInv ==
  /\ pc = "validating" =>
       \E s \in since : \A m \in Member :
         /\ entries[m] <= s[m] /\ s[m] <= source[m]
         /\ m \notin left => s[m] = entries[m]
  /\ \A a \in own : a.payload \in since

IInv == TypeOK /\ OwnInv /\ TodoInv /\ ClockInv /\ WholeInv /\ EntriesInv /\ WitnessInv

-----------------------------------------------------------------------------
LEMMA InitInv == Init => IInv
<1> SUFFICES ASSUME Init PROVE IInv
  OBVIOUS
<1>1. source \in Stamps
  BY BoundAssumption DEF Init, Stamps
<1>2. TypeOK
  <2>1. since \subseteq Stamps /\ entries \in Stamps /\ payload \in Stamps
    BY <1>1 DEF Init
  <2>2. changes \in 0 .. MaxChanges /\ clock \in 0 .. MaxTime /\ steady \in BOOLEAN
    BY BoundAssumption DEF Init
  <2> QED BY <1>1, <2>1, <2>2 DEF Init, TypeOK
<1>3. OwnInv /\ TodoInv /\ ClockInv /\ WholeInv /\ WitnessInv
  BY DEF Init, OwnInv, TodoInv, ClockInv, WholeInv, WitnessInv, Known, Creating
<1>4. EntriesInv
  BY DEF Init, EntriesInv
<1> QED BY <1>2, <1>3, <1>4 DEF IInv

(* A step of Create before the archive is published. *)
LEMMA MakeStep ==
  ASSUME IInv,
         \/ Start \/ (\E t \in Times : Stamp(t)) \/ SyncArchive \/ CreateFails
         \/ \E m \in Member : Collect(m) \/ Write(m) \/ Revalidate(m)
  PROVE  IInv'
<1>1. CASE Start
  BY <1>1 DEF Start, Go, moment, IInv, TypeOK, OwnInv, TodoInv, ClockInv, WholeInv, EntriesInv,
     WitnessInv,
     Known, Stamps, Creating, Times, Completed
<1>2. CASE \E t \in Times : Stamp(t)
  <2>1. PICK t \in Times :
          /\ pc = "collecting" /\ left = {} /\ pc' = "writing" /\ clock' = t /\ left' = Member /\ synced' = FALSE
          /\ steady' = (steady /\ t > clock)
          /\ UNCHANGED <<source, changes, entries, payload, archives, own, todo, pruned, since>>
    BY <1>2 DEF Stamp, Go, directory, moment
  <2>2. TypeOK'
    <3>1. clock' \in 0 .. MaxTime
      BY <2>1, BoundAssumption DEF Times
    <3> QED BY <2>1, <3>1 DEF IInv, TypeOK, Creating
  <2>3. OwnInv' /\ TodoInv' /\ ClockInv' /\ WholeInv' /\ WitnessInv'
    BY <2>1 DEF IInv, OwnInv, TodoInv, ClockInv, WholeInv, WitnessInv, Known, Creating
  <2>4. EntriesInv'
    BY <2>1 DEF IInv, EntriesInv
  <2> QED BY <2>2, <2>3, <2>4 DEF IInv
<1>3. CASE SyncArchive
  <2>1. /\ pc = "writing" /\ pc' = "validating" /\ left = {} /\ left' = Member /\ synced' = TRUE
        /\ since' = {source}
        /\ UNCHANGED <<source, changes, entries, payload, clock, steady, archives, own, todo, pruned>>
    BY <1>3 DEF SyncArchive, Go, directory, moment
  <2>2. TypeOK' /\ OwnInv' /\ TodoInv' /\ ClockInv' /\ WholeInv'
    BY <2>1 DEF IInv, TypeOK, OwnInv, TodoInv, ClockInv, WholeInv, Known, Stamps, Creating, Times
  <2>3. payload = entries
    <3>1. payload \in Stamps /\ entries \in Stamps
      BY DEF IInv, TypeOK
    <3>2. \A m \in Member : payload[m] = entries[m]
      BY <2>1 DEF IInv, EntriesInv
    <3> QED BY <3>1, <3>2 DEF Stamps
  <2>4. EntriesInv'
    BY <2>1, <2>3 DEF IInv, EntriesInv
  <2>5. \A m \in Member : source[m] <= source[m] /\ entries[m] <= source[m]
    <3>1. source \in Stamps
      BY DEF IInv, TypeOK
    <3>2. \A m \in Member : entries[m] <= source[m]
      BY <2>1 DEF IInv, EntriesInv
    <3> QED BY <3>1, <3>2, BoundAssumption DEF Stamps
  <2>6. WitnessInv'
    BY <2>1, <2>5 DEF IInv, OwnInv, WitnessInv
  <2> QED BY <2>2, <2>4, <2>6 DEF IInv
<1>4. CASE CreateFails
  BY <1>4 DEF CreateFails, Go, scan, directory, moment, IInv, TypeOK, OwnInv, TodoInv, ClockInv,
     WholeInv, EntriesInv,
     WitnessInv, Known, Stamps, Creating, Times, Completed
<1>5. ASSUME NEW m \in Member, Collect(m) PROVE IInv'
  <2>1. TypeOK' /\ OwnInv' /\ TodoInv' /\ ClockInv' /\ WholeInv' /\ WitnessInv'
    BY <1>5 DEF Collect, directory, moment, IInv, TypeOK, OwnInv, TodoInv, ClockInv, WholeInv,
       WitnessInv, Known,
       Stamps, Creating, Times
  <2>2. EntriesInv'
    BY <1>5 DEF Collect, directory, moment, IInv, TypeOK, EntriesInv, Stamps
  <2> QED BY <2>1, <2>2 DEF IInv
<1>6. ASSUME NEW m \in Member, Write(m) PROVE IInv'
  <2>1. TypeOK' /\ OwnInv' /\ TodoInv' /\ ClockInv' /\ WholeInv' /\ WitnessInv'
    BY <1>6 DEF Write, directory, moment, IInv, TypeOK, OwnInv, TodoInv, ClockInv, WholeInv,
       WitnessInv, Known,
       Stamps, Creating, Times
  <2>2. EntriesInv'
    BY <1>6 DEF Write, directory, moment, IInv, TypeOK, EntriesInv, Stamps
  <2> QED BY <2>1, <2>2 DEF IInv
<1>7. ASSUME NEW m \in Member, Revalidate(m) PROVE IInv'
  <2>1. /\ pc = "validating" /\ source[m] = entries[m] /\ left' = left \ {m}
        /\ UNCHANGED <<source, changes, pc, entries, payload, synced, clock, steady, since, archives, own, todo, pruned>>
    BY <1>7 DEF Revalidate, directory, moment
  <2>2. TypeOK' /\ OwnInv' /\ TodoInv' /\ ClockInv' /\ WholeInv' /\ EntriesInv'
    BY <2>1 DEF IInv, TypeOK, OwnInv, TodoInv, ClockInv, WholeInv, EntriesInv, Known, Creating, Times
  <2>3. PICK s \in since : \A n \in Member :
          entries[n] <= s[n] /\ s[n] <= source[n] /\ (n \notin left => s[n] = entries[n])
    BY <2>1 DEF IInv, WitnessInv
  <2>4. s[m] = entries[m]
    <3>1. s \in Stamps /\ entries \in Stamps
      BY DEF IInv, TypeOK
    <3> QED BY <2>1, <2>3, <3>1 DEF Stamps
  <2>5. WitnessInv'
    BY <2>1, <2>3, <2>4 DEF IInv, WitnessInv
  <2> QED BY <2>2, <2>5 DEF IInv
<1> QED BY <1>1, <1>2, <1>3, <1>4, <1>5, <1>6, <1>7

LEMMA PublishStep ==
  ASSUME IInv, Publish
  PROVE  IInv'
<1>1. /\ pc = "validating" /\ pc' = "published" /\ left = {}
      /\ own' = {Archive} /\ archives' = archives \cup {Archive}
      /\ UNCHANGED <<source, changes, left, entries, payload, synced, clock, steady, todo, pruned, since>>
  BY DEF Publish, Go, scan, moment
<1>2. Archive \in Completed /\ Archive.durable /\ Archive.payload = payload /\ payload \in Stamps
  BY <1>1 DEF Archive, Completed, IInv, TypeOK, WholeInv, ClockInv, Creating
<1>3. PICK s \in since : \A m \in Member : s[m] = entries[m]
  BY <1>1 DEF IInv, WitnessInv
<1>4. payload \in since
  BY <1>1, <1>3 DEF IInv, TypeOK, EntriesInv, Stamps
<1>5. TypeOK' /\ OwnInv' /\ TodoInv' /\ ClockInv'
  BY <1>1, <1>2 DEF IInv, TypeOK, OwnInv, TodoInv, ClockInv, Creating
<1>6. WholeInv'
  BY <1>1, <1>2 DEF IInv, WholeInv, Known
<1>7. EntriesInv' /\ WitnessInv'
  BY <1>1, <1>2, <1>4 DEF IInv, EntriesInv, WitnessInv
<1> QED BY <1>5, <1>6, <1>7 DEF IInv

LEMMA DirectoryStep ==
  ASSUME IInv, SyncDirectory \/ SyncDirectoryFails
  PROVE  IInv'
  BY DEF SyncDirectory, SyncDirectoryFails, Go, scan, directory, moment, IInv, TypeOK, OwnInv,
     TodoInv, ClockInv,
     WholeInv, EntriesInv, WitnessInv, Known, Creating

LEMMA PruneStep ==
  ASSUME IInv, Prune \/ Finish
  PROVE  IInv'
<1>1. CASE List
  BY <1>1 DEF List, Excess, Go, scan, moment, IInv, TypeOK, OwnInv, TodoInv, ClockInv, WholeInv,
     EntriesInv, WitnessInv,
     Known, Creating
<1>2. CASE \E a \in todo : Unlink(a)
  BY <1>2 DEF Unlink, Go, scan, moment, IInv, TypeOK, OwnInv, TodoInv, ClockInv, WholeInv, EntriesInv,
     WitnessInv,
     Known, Creating
<1>3. CASE PruneDone \/ PruneFails
  BY <1>3 DEF PruneDone, PruneFails, Go, scan, moment, IInv, TypeOK, OwnInv, TodoInv, ClockInv,
     WholeInv, EntriesInv,
     WitnessInv, Known, Creating
<1>4. CASE Finish
  BY <1>4 DEF Finish, Go, scan, directory, moment, IInv, TypeOK, OwnInv, TodoInv, ClockInv, WholeInv,
     EntriesInv,
     WitnessInv, Known, Creating
<1> QED BY <1>1, <1>2, <1>3, <1>4 DEF Prune

LEMMA ChangeStep ==
  ASSUME IInv, NEW m \in Member, Change(m)
  PROVE  IInv'
<1>1. /\ changes < MaxChanges /\ changes' = changes + 1
      /\ source' = [source EXCEPT ![m] = changes + 1] /\ since' = since \cup {source'}
      /\ UNCHANGED <<pc, left, entries, payload, synced, clock, steady, archives, own, todo, pruned>>
  BY DEF Change, scan, directory, moment
<1>2. TypeOK'
  BY <1>1, BoundAssumption DEF IInv, TypeOK, Stamps
<1>3. OwnInv' /\ TodoInv' /\ ClockInv' /\ WholeInv'
  BY <1>1 DEF IInv, OwnInv, TodoInv, ClockInv, WholeInv, Known
<1>4. \A n \in Member : source[n] <= source'[n] /\ source'[n] <= changes'
  BY <1>1, BoundAssumption DEF IInv, TypeOK, EntriesInv, Stamps
<1>5. source \in Stamps /\ source' \in Stamps /\ entries \in Stamps
  BY <1>2 DEF IInv, TypeOK
<1>6. EntriesInv'
  <2>1. \A n \in Member : entries[n] <= source[n] => entries[n] <= source'[n]
    BY <1>4, <1>5, BoundAssumption DEF Stamps
  <2> QED BY <1>1, <1>4, <2>1 DEF IInv, EntriesInv
<1>7. WitnessInv'
  <2>1. \A a \in own' : a.payload \in since'
    BY <1>1 DEF IInv, WitnessInv
  <2>2. ASSUME pc' = "validating"
        PROVE  \E s \in since' : \A n \in Member :
                 entries'[n] <= s[n] /\ s[n] <= source'[n] /\ (n \notin left' => s[n] = entries'[n])
    <3>1. PICK s \in since : \A n \in Member :
            entries[n] <= s[n] /\ s[n] <= source[n] /\ (n \notin left => s[n] = entries[n])
      BY <1>1, <2>2 DEF IInv, WitnessInv
    <3>2. s \in Stamps /\ s \in since'
      BY <1>1 DEF IInv, TypeOK
    <3> QED BY <1>1, <1>4, <1>5, <3>1, <3>2 DEF Stamps
  <2> QED BY <2>1, <2>2 DEF WitnessInv
<1> QED BY <1>2, <1>3, <1>6, <1>7 DEF IInv

(* Everything with a final name was synced first, so a crash tears nothing. *)
LEMMA CrashRestores ==
  ASSUME IInv, Crash
  PROVE  archives' \subseteq archives \cup pruned
<1>1. PICK back \in SUBSET pruned, gone \in IF pc = "published" THEN SUBSET own ELSE {{}} :
        archives' = {IF a.durable THEN a ELSE [a EXCEPT !.payload = Torn, !.durable = TRUE] :
                       a \in (archives \cup back) \ gone}
  BY DEF Crash
<1>2. \A a \in (archives \cup back) \ gone : a.durable
  BY DEF IInv, WholeInv, Known
<1> QED BY <1>1, <1>2

LEMMA CrashStep ==
  ASSUME IInv, Crash
  PROVE  IInv'
<1>1. /\ pc' = "idle" /\ todo' = {} /\ own' = {} /\ pruned' = {}
      /\ UNCHANGED <<source, changes, left, entries, payload, synced, clock, steady, since>>
  BY DEF Crash, Go, scan, moment
<1>2. archives' \subseteq archives \cup pruned
  BY CrashRestores
<1>3. TypeOK'
  BY <1>1, <1>2 DEF IInv, TypeOK
<1>4. OwnInv' /\ TodoInv' /\ ClockInv' /\ WholeInv' /\ EntriesInv' /\ WitnessInv'
  BY <1>1, <1>2 DEF IInv, OwnInv, TodoInv, ClockInv, WholeInv, EntriesInv, WitnessInv, Known, Creating
<1> QED BY <1>3, <1>4 DEF IInv

LEMMA NextInv == IInv /\ [Next]_vars => IInv'
<1> SUFFICES ASSUME IInv, [Next]_vars PROVE IInv'
  OBVIOUS
<1>1. CASE UNCHANGED vars
  BY <1>1 DEF vars, scan, directory, moment, IInv, TypeOK, OwnInv, TodoInv, ClockInv, WholeInv,
     EntriesInv, WitnessInv,
     Known
<1>2. CASE Next
  BY <1>2, MakeStep, PublishStep, DirectoryStep, PruneStep, ChangeStep, CrashStep DEF Next, Create
<1> QED BY <1>1, <1>2

(* The inductive invariant of the backups. *)
THEOREM Invariance == Spec => []IInv
  BY InitInv, NextInv, PTL DEF Spec

(* A file with the name of a completed archive is whole after any crash. *)
THEOREM Whole == Spec => []NamedIsWhole
<1>1. IInv => NamedIsWhole
  BY TornAssumption DEF IInv, WholeInv, Known, NamedIsWhole, Stamps
<1> QED BY <1>1, Invariance, PTL

(* A new archive holds the sources as they were at one instant after the last
   of them had been read. *)
THEOREM Current == Spec => []SnapshotIsCurrent
<1>1. IInv => SnapshotIsCurrent
  BY DEF IInv, WitnessInv, SnapshotIsCurrent
<1> QED BY <1>1, Invariance, PTL

-----------------------------------------------------------------------------
(* No archive is newer than the clock, and from its publication on the archive
   of this run has a time no other has, and Prune has not chosen it. *)
TimesInv == \A a \in Known : a.time <= clock

KeptInv ==
  pc \in {"published", "created", "pruning", "backedUp"} =>
    own # {} /\ \A a \in own : a.time = clock /\ a \in archives /\ a \notin todo

SteadyInv == IInv /\ (steady => TimesInv /\ KeptInv)

LEMMA InitSteady == Init => SteadyInv
<1>1. Init => TimesInv /\ KeptInv
  BY DEF Init, TimesInv, KeptInv, Known
<1> QED BY <1>1, InitInv DEF SteadyInv

LEMMA NewestHasNoNewer ==
  ASSUME IInv, TimesInv, NEW a \in archives, a.time = clock
  PROVE  a \notin Excess
<1>1. clock \in Nat
  BY BoundAssumption DEF IInv, TypeOK
<1>2. \A b \in archives : b.time <= clock /\ b.time \in Nat
  BY DEF TimesInv, Known, IInv, TypeOK, Completed, Times
<1>3. Newer(a) = {}
  BY <1>1, <1>2 DEF Newer
<1>4. Cardinality(Newer(a)) = 0
  BY <1>3, FS_EmptySet
<1> QED BY <1>4, RetainAssumption DEF Excess

(* Once a time was read that is not later than the one before, it stays known. *)
LEMMA SteadyFalls ==
  ASSUME [Next]_vars, steady'
  PROVE  steady
  BY DEF Next, Create, Prune, Start, Collect, Stamp, Write, SyncArchive, Revalidate, Publish,
     SyncDirectory,
     SyncDirectoryFails, CreateFails, List, Unlink, PruneDone, PruneFails, Finish, Change, Crash, vars, moment

LEMMA NextSteady == SteadyInv /\ [Next]_vars => SteadyInv'
<1> SUFFICES ASSUME SteadyInv, [Next]_vars PROVE SteadyInv'
  OBVIOUS
<1>0. IInv /\ IInv'
  BY NextInv DEF SteadyInv
<1> SUFFICES ASSUME steady' PROVE TimesInv' /\ KeptInv'
  BY <1>0 DEF SteadyInv
<1>1. TimesInv /\ KeptInv
  BY SteadyFalls DEF SteadyInv
<1>2. CASE Start \/ SyncArchive \/ CreateFails \/ \E m \in Member : Collect(m) \/ Write(m) \/ Revalidate(m)
  BY <1>1, <1>2 DEF Start, SyncArchive, CreateFails, Collect, Write, Revalidate, Go, scan, directory,
     moment,
     TimesInv, KeptInv, Known
<1>3. CASE \E t \in Times : Stamp(t)
  <2>1. PICK t \in Times : t > clock /\ clock' = t /\ pc' = "writing" /\ UNCHANGED <<archives, own, pruned>>
    BY <1>3 DEF Stamp, Go, directory, moment
  <2>2. clock \in Nat /\ \A a \in Known : a.time \in Nat
    BY <1>0, BoundAssumption DEF IInv, TypeOK, Known, Completed, Times
  <2>3. TimesInv'
    BY <1>1, <2>1, <2>2 DEF TimesInv, Known, Times
  <2> QED BY <2>1, <2>3 DEF KeptInv
<1>4. CASE Publish
  <2>1. /\ own' = {Archive} /\ archives' = archives \cup {Archive} /\ pc = "validating"
        /\ UNCHANGED <<clock, steady, todo, pruned>>
    BY <1>4 DEF Publish, moment
  <2>2. Archive.time = clock /\ clock \in Nat /\ todo = {}
    BY <1>0, <2>1, BoundAssumption DEF Archive, IInv, TypeOK, TodoInv, Creating
  <2> QED BY <1>1, <2>1, <2>2 DEF TimesInv, KeptInv, Known
<1>5. CASE SyncDirectory \/ SyncDirectoryFails
  BY <1>1, <1>5 DEF SyncDirectory, SyncDirectoryFails, Go, scan, directory, moment, TimesInv, KeptInv,
     Known
<1>6. CASE List
  BY <1>0, <1>1, <1>6, NewestHasNoNewer DEF List, Go, scan, moment, TimesInv, KeptInv, Known
<1>7. CASE \E a \in todo : Unlink(a)
  <2>1. PICK a \in todo : /\ archives' = archives \ {a} /\ todo' = todo \ {a} /\ pruned' = pruned \cup {a}
                          /\ pc = "pruning" /\ UNCHANGED <<pc, clock, steady, own>>
    BY <1>7 DEF Unlink, moment
  <2>2. a \in archives
    BY <1>0 DEF IInv, TypeOK
  <2> QED BY <1>1, <2>1, <2>2 DEF TimesInv, KeptInv, Known
<1>8. CASE PruneDone \/ PruneFails \/ Finish
  BY <1>1, <1>8 DEF PruneDone, PruneFails, Finish, Go, scan, directory, moment, TimesInv, KeptInv, Known
<1>9. CASE \E m \in Member : Change(m)
  BY <1>1, <1>9 DEF Change, scan, directory, moment, TimesInv, KeptInv, Known
<1>10. CASE Crash
  <2>1. pc' = "idle" /\ own' = {} /\ pruned' = {} /\ clock' = clock
    BY <1>10 DEF Crash, Go, moment
  <2>2. archives' \subseteq archives \cup pruned
    BY <1>0, <1>10, CrashRestores
  <2> QED BY <1>1, <2>1, <2>2 DEF TimesInv, KeptInv, Known
<1>11. CASE UNCHANGED vars
  BY <1>1, <1>11 DEF vars, directory, moment, TimesInv, KeptInv, Known
<1> QED BY <1>2, <1>3, <1>4, <1>5, <1>6, <1>7, <1>8, <1>9, <1>10, <1>11 DEF Next, Create, Prune

(* While the clock of the host only moves forward, the archive just made is
   there when the update begins. *)
THEOREM Kept == Spec => []KeptWhileSteady
<1>1. SteadyInv /\ [Next]_vars => SteadyInv'
  BY NextSteady
<1>2. SteadyInv => KeptWhileSteady
  BY DEF SteadyInv, KeptInv, KeptWhileSteady, NewArchiveKept
<1> QED BY <1>1, <1>2, InitSteady, PTL DEF Spec

-----------------------------------------------------------------------------
(* Prune deletes the newest first, so what it has left to delete is older than Retain
   archives that it keeps. *)
KeptBefore(a) == {b \in archives \ todo : b.time > a.time}

RetainInv ==
  /\ IsFiniteSet(archives) /\ IsFiniteSet(pruned)
  /\ pc = "pruning" => \A a \in todo : Cardinality(KeptBefore(a)) >= Retain

LEMMA FiniteSubset == ASSUME NEW S, NEW T \in SUBSET S, IsFiniteSet(S) PROVE IsFiniteSet(T) /\ Cardinality(T) <= Cardinality(S)
BY FS_Subset

(* Some archive of a set is the newest of it. *)
LEMMA NewestExists ==
  ASSUME NEW S \in SUBSET Completed, S # {}
  PROVE  \E a \in S : \A b \in S : b.time <= a.time
<1> DEFINE age(a) == MaxTime - a.time
           ages == {age(a) : a \in S}
<1>1. \A a \in S : age(a) \in Nat /\ a.time \in Nat
  BY BoundAssumption DEF Completed, Times
<1>2. ages \subseteq Nat /\ ages # {}
  BY <1>1
<1>3. PICK n \in ages : \A m \in ages : ~(<<m, n>> \in OpToRel(<, Nat))
  BY <1>2, NatLessThanWellFounded, WFMin
<1>4. \A m \in ages : ~(m < n)
  BY <1>2, <1>3 DEF OpToRel
<1>5. PICK a \in S : n = age(a)
  BY <1>3
<1>6. ASSUME NEW b \in S PROVE b.time <= a.time
  <2>1. ~(age(b) < age(a))
    BY <1>4, <1>5
  <2> QED BY <1>1, <2>1, BoundAssumption
<1> QED BY <1>6

LEMMA ListKeepsNewest ==
  ASSUME IInv, IsFiniteSet(archives), NEW a \in Excess
  PROVE  Cardinality({b \in archives \ Excess : b.time > a.time}) >= Retain
<1>1. Excess \subseteq archives /\ archives \subseteq Completed
  BY DEF Excess, IInv, TypeOK
<1>2. PICK c \in Excess : \A b \in Excess : b.time <= c.time
  BY <1>1, NewestExists
<1>3. \A b \in archives : b.time \in Nat
  BY <1>1 DEF Completed, Times
<1>4. Newer(c) \subseteq {b \in archives \ Excess : b.time > a.time}
  BY <1>1, <1>2, <1>3 DEF Newer
<1>5. Cardinality(Newer(c)) >= Retain
  BY <1>2 DEF Excess
<1>6. IsFiniteSet({b \in archives \ Excess : b.time > a.time})
  BY FiniteSubset
<1>7. /\ Cardinality(Newer(c)) <= Cardinality({b \in archives \ Excess : b.time > a.time})
      /\ IsFiniteSet(Newer(c))
  BY <1>4, <1>6, FiniteSubset
<1>8. Cardinality(Newer(c)) \in Nat /\ Cardinality({b \in archives \ Excess : b.time > a.time}) \in Nat
  BY <1>6, <1>7, FS_CardinalityType
<1> QED BY <1>5, <1>7, <1>8, RetainAssumption

LEMMA InitRetain == Init => RetainInv
BY FS_EmptySet DEF Init, RetainInv

LEMMA UnlinkRetains ==
  ASSUME IInv, RetainInv, NEW a \in todo, Unlink(a)
  PROVE  /\ archives \ archives' = {a} /\ RetainInv'
         /\ Cardinality(Newer(a) \cap archives') >= Retain
<1>1. /\ pc = "pruning" /\ (\A b \in todo : b.time <= a.time) /\ archives' = archives \ {a} /\ todo' = todo \ {a}
      /\ pruned' = pruned \cup {a} /\ pc' = pc /\ a \in archives
  BY DEF Unlink, IInv, TypeOK
<1>2. IsFiniteSet(archives') /\ IsFiniteSet(pruned')
  BY <1>1, FiniteSubset, FS_AddElement DEF RetainInv
<1>3. \A b : KeptBefore(b)' = KeptBefore(b)
  BY <1>1 DEF KeptBefore
<1>4. Newer(a) \cap archives' = KeptBefore(a)
  <2>1. \A b \in archives : b.time \in Nat
    BY DEF IInv, TypeOK, Completed, Times
  <2> QED BY <1>1, <2>1 DEF Newer, KeptBefore, IInv, TypeOK
<1> QED BY <1>1, <1>2, <1>3, <1>4 DEF RetainInv

LEMMA NextRetain == IInv /\ RetainInv /\ [Next]_vars => RetainInv'
<1> SUFFICES ASSUME IInv, RetainInv, [Next]_vars PROVE RetainInv'
  OBVIOUS
<1>1. CASE List
  <2>1. todo' = Excess /\ UNCHANGED <<archives, pruned>>
    BY <1>1 DEF List
  <2>2. \A a \in todo' : Cardinality({b \in archives' \ todo' : b.time > a.time}) >= Retain
    BY <2>1, ListKeepsNewest DEF RetainInv
  <2> QED BY <2>1, <2>2 DEF RetainInv, KeptBefore
<1>2. CASE \E a \in todo : Unlink(a)
  BY <1>2, UnlinkRetains
<1>3. CASE Publish
  BY <1>3, FS_AddElement DEF Publish, Go, RetainInv
<1>4. CASE Crash
  <2>1. archives' \subseteq archives \cup pruned /\ pruned' = {} /\ pc' = "idle"
    BY <1>4, CrashRestores DEF Crash, Go
  <2>2. IsFiniteSet(archives \cup pruned)
    BY FS_Union DEF RetainInv
  <2> QED BY <2>1, <2>2, FiniteSubset, FS_EmptySet DEF RetainInv
<1>5. CASE SyncDirectoryFails \/ PruneDone \/ PruneFails
  BY <1>5, FiniteSubset, FS_EmptySet DEF SyncDirectoryFails, PruneDone, PruneFails, Go, RetainInv
<1>6. CASE \/ Start \/ SyncArchive \/ CreateFails \/ SyncDirectory \/ Finish \/ \E t \in Times : Stamp(t)
           \/ \E m \in Member : Collect(m) \/ Write(m) \/ Revalidate(m)
  BY <1>6 DEF Start, SyncArchive, CreateFails, SyncDirectory, Finish, Stamp, Collect, Write, Revalidate, Go, directory,
     RetainInv
<1>7. CASE (\E m \in Member : Change(m)) \/ UNCHANGED vars
  BY <1>7 DEF Change, directory, vars, RetainInv, KeptBefore
<1> QED BY <1>1, <1>2, <1>3, <1>4, <1>5, <1>6, <1>7 DEF Next, Create, Prune

(* Prune never deletes an archive unless Retain archives with later names stay. *)
THEOREM Newest == Spec => NewestKept
<1>1. IInv /\ RetainInv /\ [Next]_vars =>
        [pc = "pruning" => \A a \in archives \ archives' : Cardinality(Newer(a) \cap archives') >= Retain]_vars
  <2> SUFFICES ASSUME IInv, RetainInv, Next, pc = "pruning", NEW a \in archives \ archives'
               PROVE  Cardinality(Newer(a) \cap archives') >= Retain
    OBVIOUS
  <2>1. CASE \E b \in todo : Unlink(b)
    <3>1. PICK b \in todo : Unlink(b)
      BY <2>1
    <3>2. archives \ archives' = {b} /\ Cardinality(Newer(b) \cap archives') >= Retain
      BY <3>1, UnlinkRetains
    <3> QED BY <3>2
  <2>2. CASE Crash
    <3>1. \A b \in archives : b.durable
      BY DEF IInv, WholeInv, Known
    <3>2. a \in archives'
      BY <2>2, <3>1 DEF Crash
    <3> QED BY <3>2
  <2>3. archives' = archives \/ (\E b \in todo : Unlink(b)) \/ Crash
    BY DEF Next, Create, Prune, Start, Collect, Stamp, Write, SyncArchive, Revalidate, Publish, SyncDirectory,
       SyncDirectoryFails, CreateFails, List, PruneDone, PruneFails, Finish, Change, directory
  <2> QED BY <2>1, <2>2, <2>3
<1>2. Spec => []RetainInv
  BY InitRetain, NextRetain, Invariance, PTL DEF Spec
<1> QED BY <1>1, <1>2, Invariance, PTL DEF Spec, NewestKept

=============================================================================
