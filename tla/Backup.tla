------------------------------- MODULE Backup -------------------------------
(***************************************************************************)
(* BackupManager (backup.go): before Steam replaces an installed build,    *)
(* Create archives saves, settings and mod configuration, and Prune        *)
(* retires archives beyond the newest Retain.  Somebody may edit the       *)
(* sources meanwhile, and the container may be killed at any point.        *)
(*                                                                         *)
(* The source directories exist throughout, so every change of a member,   *)
(* its disappearance too, changes a stat that is compared: a member is     *)
(* here the stamp of its last change.  An archive is its name, that is its *)
(* time, with the stamps of what it contains.  Temporary files have names  *)
(* of their own and no part in anything.                                   *)
(***************************************************************************)
EXTENDS Naturals, FiniteSets

CONSTANTS
  Member,      \* files and directories below the three sources
  Retain,      \* BACKUP_RETENTION
  Torn,        \* content of an archive whose data never reached the disk
  MaxTime,     \* bound on the clock
  MaxChanges   \* bound on changes of the sources

ASSUME RetainAssumption == Retain \in Nat \ {0}
ASSUME BoundAssumption == MaxTime \in Nat /\ MaxChanges \in Nat
ASSUME TornAssumption == Torn \notin [Member -> 0 .. MaxChanges]

VARIABLES
  source,     \* stamp of every member
  changes,    \* number of changes so far
  pc,
  left,       \* members still to be visited in this pass
  entries,    \* stamps as collected
  payload,    \* stamps of what was archived
  synced,     \* the temporary file is on disk
  clock,      \* the time last read, CreatedAt
  steady,     \* history: every time read was later than the one before it
  archives,   \* completed archives by name
  own,        \* the archives this Create has published: none or one
  todo,       \* what Prune has decided to delete
  pruned,     \* deleted, with the directory not yet synced
  since       \* history: the sources' states since the archive was written

scan == <<left, entries, payload, synced>>
moment == <<clock, steady>>
directory == <<archives, own, todo, pruned>>
vars == <<source, changes, pc, scan, moment, directory, since>>

Times == 1 .. MaxTime
Creating == {"collecting", "writing", "validating", "published"}

Go(next) == pc' = next

-----------------------------------------------------------------------------
(* Create *)

Start ==
  /\ pc = "idle" /\ Go("collecting")
  /\ left' = Member /\ own' = {} /\ todo' = {}
  /\ UNCHANGED <<source, changes, entries, payload, synced, moment, archives, pruned, since>>

Collect(m) ==
  /\ pc = "collecting" /\ m \in left
  /\ entries' = [entries EXCEPT ![m] = source[m]] /\ left' = left \ {m}
  /\ UNCHANGED <<source, changes, pc, payload, synced, moment, directory, since>>

(* CreatedAt names the archive; its temporary file is created. *)
Stamp(t) ==
  /\ pc = "collecting" /\ left = {}
  /\ Go("writing") /\ clock' = t /\ steady' = (steady /\ t > clock) /\ left' = Member /\ synced' = FALSE
  /\ UNCHANGED <<source, changes, entries, payload, directory, since>>

(* writeBackupSourceEntry *)
Write(m) ==
  /\ pc = "writing" /\ m \in left /\ source[m] = entries[m]
  /\ payload' = [payload EXCEPT ![m] = source[m]] /\ left' = left \ {m}
  /\ UNCHANGED <<source, changes, pc, entries, synced, moment, directory, since>>

(* Faulty variant: the temporary file is not synced. *)
SyncArchiveSkipped ==
  /\ pc = "writing" /\ left = {}
  /\ Go("validating") /\ left' = Member /\ since' = {source}
  /\ UNCHANGED <<source, changes, entries, payload, synced, moment, directory>>

(* The archive is synced and read back. *)
SyncArchive ==
  /\ pc = "writing" /\ left = {}
  /\ Go("validating") /\ synced' = TRUE /\ left' = Member /\ since' = {source}
  /\ UNCHANGED <<source, changes, entries, payload, moment, directory>>

(* Faulty variant: a member is not compared again. *)
RevalidateUnchecked(m) ==
  /\ pc = "validating" /\ m \in left /\ left' = left \ {m}
  /\ UNCHANGED <<source, changes, pc, entries, payload, synced, moment, directory, since>>

(* validateBackupSourceSnapshot *)
Revalidate(m) ==
  /\ pc = "validating" /\ m \in left /\ source[m] = entries[m] /\ left' = left \ {m}
  /\ UNCHANGED <<source, changes, pc, entries, payload, synced, moment, directory, since>>

Archive == [time |-> clock, payload |-> payload, durable |-> synced]

(* Renameat2 with RENAME_NOREPLACE *)
Publish ==
  /\ pc = "validating" /\ left = {} /\ \A a \in archives : a.time # clock
  /\ Go("published") /\ own' = {Archive} /\ archives' = archives \cup {Archive}
  /\ UNCHANGED <<source, changes, scan, moment, todo, pruned, since>>

SyncDirectory ==
  /\ pc = "published" /\ Go("created")
  /\ UNCHANGED <<source, changes, scan, moment, directory, since>>

(* An archive whose name is not durable is taken back, if that succeeds. *)
SyncDirectoryFails ==
  /\ pc = "published" /\ Go("idle")
  /\ archives' \in {archives, archives \ own} /\ own' = {}
  /\ UNCHANGED <<source, changes, scan, moment, todo, pruned, since>>

(* A source changed, the name is taken, space ran out: the temporary file is
   removed and Create has failed. *)
CreateFails ==
  /\ pc \in {"collecting", "writing", "validating"} /\ Go("idle")
  /\ UNCHANGED <<source, changes, scan, moment, directory, since>>

-----------------------------------------------------------------------------
(* Prune *)

Newer(a) == {b \in archives : b.time > a.time}

(* Faulty variant: sorted the other way round. *)
ExcessOldestFirst == {a \in archives : Cardinality({b \in archives : b.time < a.time}) >= Retain}

(* Faulty variant: counts the archive itself among those it keeps. *)
ExcessOneMore == {a \in archives : Cardinality(Newer(a)) + 1 >= Retain}

(* What follows the newest Retain archives. *)
Excess == {a \in archives : Cardinality(Newer(a)) >= Retain}

List ==
  /\ pc = "created" /\ Go("pruning") /\ todo' = Excess
  /\ UNCHANGED <<source, changes, scan, moment, archives, own, pruned, since>>

Unlink(a) ==
  /\ pc = "pruning" /\ a \in todo /\ \A b \in todo : b.time <= a.time
  /\ archives' = archives \ {a} /\ todo' = todo \ {a} /\ pruned' = pruned \cup {a}
  /\ UNCHANGED <<source, changes, pc, scan, moment, own, since>>

(* The directory is synced; the update may begin. *)
PruneDone ==
  /\ pc = "pruning" /\ todo = {} /\ Go("backedUp") /\ pruned' = {}
  /\ UNCHANGED <<source, changes, scan, moment, archives, own, todo, since>>

(* An archive cannot be read, has changed or cannot be deleted; what was
   deleted is synced, if that does not fail as well. *)
PruneFails ==
  /\ pc = "pruning" /\ Go("idle") /\ todo' = {} /\ pruned' \in {{}, pruned}
  /\ UNCHANGED <<source, changes, scan, moment, archives, own, since>>

(* The update that asked for the backup is over. *)
Finish ==
  /\ pc = "backedUp" /\ Go("idle")
  /\ UNCHANGED <<source, changes, scan, moment, directory, since>>

-----------------------------------------------------------------------------
Change(m) ==
  /\ changes < MaxChanges /\ changes' = changes + 1
  /\ source' = [source EXCEPT ![m] = changes + 1]
  /\ since' = since \cup {source'}
  /\ UNCHANGED <<pc, scan, moment, directory>>

(* A deletion or a publication that was not synced may be undone, and an
   archive that was not synced has lost its data. *)
Crash ==
  /\ Go("idle") /\ todo' = {} /\ own' = {} /\ pruned' = {}
  /\ \E back \in SUBSET pruned, gone \in IF pc = "published" THEN SUBSET own ELSE {{}} :
       archives' = {IF a.durable THEN a ELSE [a EXCEPT !.payload = Torn, !.durable = TRUE] :
                      a \in (archives \cup back) \ gone}
  /\ UNCHANGED <<source, changes, scan, moment, since>>

Init ==
  /\ source = [m \in Member |-> 0] /\ changes = 0
  /\ pc = "idle" /\ left = {} /\ entries = source /\ payload = source /\ synced = FALSE
  /\ clock = 0 /\ steady = TRUE /\ archives = {} /\ own = {} /\ todo = {} /\ pruned = {} /\ since = {source}

Create ==
  \/ Start \/ (\E t \in Times : Stamp(t)) \/ SyncArchive \/ Publish
  \/ SyncDirectory \/ SyncDirectoryFails \/ CreateFails
  \/ \E m \in Member : Collect(m) \/ Write(m) \/ Revalidate(m)

Prune == List \/ (\E a \in todo : Unlink(a)) \/ PruneDone \/ PruneFails

Next == Create \/ Prune \/ Finish \/ Crash \/ \E m \in Member : Change(m)

Spec == Init /\ [][Next]_vars

-----------------------------------------------------------------------------
Stamps == [Member -> 0 .. MaxChanges]
Completed == [time : Times, payload : Stamps \cup {Torn}, durable : BOOLEAN]

(* Every variable keeps to its values; Prune only has archives in hand that are
   still there. *)
TypeOK ==
  /\ source \in Stamps /\ entries \in Stamps /\ payload \in Stamps /\ since \subseteq Stamps
  /\ changes \in 0 .. MaxChanges /\ clock \in 0 .. MaxTime /\ steady \in BOOLEAN
  /\ pc \in Creating \cup {"idle", "created", "pruning", "backedUp"}
  /\ left \subseteq Member /\ synced \in BOOLEAN
  /\ archives \subseteq Completed /\ own \subseteq Completed /\ pruned \subseteq Completed
  /\ todo \subseteq archives

(* A file with the name of a completed archive is whole, after any crash. *)
NamedIsWhole == \A a \in archives : a.payload # Torn

(* A new archive holds the sources as they all were at one instant after the
   last of them had been read: an edit made while they were read is never
   missing from the archive. *)
SnapshotIsCurrent == \A a \in own : a.payload \in since

(* Whenever Prune deletes an archive, Retain archives with later names are
   left. *)
NewestKept ==
  [][pc = "pruning" => \A a \in archives \ archives' : Cardinality(Newer(a) \cap archives') >= Retain]_vars

(* When Create and Prune have returned and the update begins, the archive just
   made is there. *)
NewArchiveKept == pc = "backedUp" => own # {} /\ own \subseteq archives

(* While the clock of the host only moves forward that holds: the update begins
   with the archive that was made for it. *)
KeptWhileSteady == steady => NewArchiveKept

=============================================================================
