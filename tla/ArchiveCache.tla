----------------------------- MODULE ArchiveCache -----------------------------
(***************************************************************************)
(* ArchiveCache.Fetch (archive.go) for one version of a package: from the  *)
(* cache, or downloaded in several attempts to a temporary file, checked   *)
(* and published under its name.  The caller records the size and digest   *)
(* it was given and passes them to later calls.                            *)
(*                                                                         *)
(* An archive is a sequence of chunks; a digest tells contents apart, so   *)
(* the contents stand for it.  Definitions with a namesake in Resolver are *)
(* called Cache...: PackageProofs extends both modules.                    *)
(***************************************************************************)
EXTENDS Naturals, Sequences

CONSTANTS
  Body,         \* contents a registry may serve for the package
  Length,       \* chunks of a body
  Good,         \* bodies validatePackageZIP accepts
  Attempts,     \* ArchiveCache.Attempts
  MaxUnknown,   \* maxUnknownArchive, in chunks
  MaxCalls,     \* bound on calls of Fetch
  MaxMeddles,   \* bound on edits of the cache by others
  MaxRepublish  \* bound on changes of what the registry serves

ASSUME BodyAssumption == Good \subseteq Body /\ Length \in [Body -> Nat \ {0}]
ASSUME BoundAssumption ==
  Attempts \in Nat \ {0} /\ {MaxUnknown, MaxCalls, MaxMeddles, MaxRepublish} \subseteq Nat

VARIABLES
  served,     \* the body the registry has now
  archive,    \* the file under the package's name
  durable,    \* ... as a power loss would leave it
  temporary,  \* the file of this call
  pc,
  metadata,   \* pkg.FileSize: the size the registry tells, or 0
  attempt,
  response,   \* body and Content-Length of the current response
  hash,       \* what was read of it
  held,       \* the archive that is returned, and what is said of it
  lock,       \* what the caller recorded
  calls, meddles, republished

call == <<temporary, metadata, attempt, response, hash, held>>
bounds == <<calls, meddles, republished>>
cacheVars == <<served, archive, durable, call, pc, lock, bounds>>

All(b) == [i \in 1 .. Length[b] |-> <<b, i>>]
Contents == UNION {{SubSeq(All(b), 1, n) : n \in 0 .. Length[b]} : b \in Body}

NoFile == [there |-> FALSE, ours |-> FALSE, data |-> <<>>, synced |-> FALSE]
File(ours, data, synced) == [there |-> TRUE, ours |-> ours, data |-> data, synced |-> synced]
NoResponse == [body |-> <<>>, size |-> 0]
Nothing == [data |-> <<>>, digest |-> <<>>]

(* validatePackageZIP *)
ValidZIP(data) == \E b \in Good : data = All(b)

(* Faulty variant: the lock is only compared by size. *)
AgreesInSize(digest) == lock # <<>> => Len(digest) = Len(lock)

(* validateLockedBytes, without a lock for the first call *)
AgreesWithLock(digest) == lock # <<>> => digest = lock

-----------------------------------------------------------------------------
Begin ==
  /\ pc = "idle" /\ calls < MaxCalls /\ calls' = calls + 1
  /\ metadata' \in {0} \cup {Length[b] : b \in Body}
  (* validatePriorLockedPackage *)
  /\ pc' = IF lock # <<>> /\ metadata' > 0 /\ Len(lock) # metadata' THEN "failed" ELSE "open"
  /\ attempt' = 0 /\ hash' = <<>> /\ held' = Nothing /\ temporary' = NoFile /\ response' = NoResponse
  /\ UNCHANGED <<served, archive, durable, lock, meddles, republished>>

Fails(to) ==
  /\ pc' = to /\ temporary' = NoFile
  /\ UNCHANGED <<served, archive, durable, metadata, attempt, response, hash, held, lock, bounds>>

Keeps == UNCHANGED <<served, archive, durable, metadata, lock, bounds>>

(* cachedArchive *)
UseCached ==
  /\ pc = "open" /\ archive.there
  /\ archive.data # <<>> /\ (metadata > 0 => Len(archive.data) = metadata)
  /\ AgreesWithLock(archive.data) /\ ValidZIP(archive.data)
  /\ held' = [data |-> archive.data, digest |-> archive.data] /\ pc' = "returned"
  /\ Keeps /\ UNCHANGED <<temporary, attempt, response, hash>>

(* An archive that is there and does not fit is not replaced. *)
CachedRefused ==
  /\ pc = "open" /\ archive.there
  /\ \/ archive.data = <<>> \/ (metadata > 0 /\ Len(archive.data) # metadata)
     \/ ~AgreesWithLock(archive.data) \/ ~ValidZIP(archive.data)
  /\ Fails("failed")

(* No space, or no temporary file *)
NoRoom == pc = "open" /\ ~archive.there /\ Fails("failed")

CreateTemporary ==
  /\ pc = "open" /\ ~archive.there
  /\ temporary' = File(TRUE, <<>>, FALSE) /\ pc' = "attempt"
  /\ Keeps /\ UNCHANGED <<attempt, response, hash, held>>

-----------------------------------------------------------------------------
(* download *)

(* resetTemporaryFile, and a response whose header agrees with the metadata *)
Request ==
  /\ pc = "attempt" /\ temporary' = [temporary EXCEPT !.data = <<>>] /\ hash' = <<>>
  /\ \E announced \in {0, Length[served]} :
       /\ announced > 0 => announced \in {metadata} \cup (IF metadata = 0 THEN 1 .. MaxUnknown ELSE {})
       /\ response' = [body |-> All(served), size |-> announced]
  /\ pc' = "read" /\ Keeps /\ UNCHANGED <<attempt, held>>

(* Another status, a malformed header, one that disagrees, a permanent error, a
   cancelled context, or a file that cannot be written or synced *)
RequestRefused == pc \in {"attempt", "read", "sync"} /\ Fails("failed")

(* 429, 5xx, a timeout, a connection that breaks: the last attempt fails the call. *)
Transient ==
  /\ pc \in {"attempt", "read"}
  /\ \/ attempt + 1 = Attempts /\ Fails("failed")
     \/ /\ attempt + 1 < Attempts /\ attempt' = attempt + 1 /\ pc' = "attempt"
        /\ response' = NoResponse /\ hash' = <<>> /\ Keeps /\ UNCHANGED <<temporary, held>>

Limit == IF metadata > 0 THEN metadata ELSE MaxUnknown

(* One chunk, never more than one past the limit *)
ReadChunk ==
  /\ pc = "read" /\ Len(hash) < Len(response.body) /\ Len(hash) <= Limit
  /\ LET chunk == response.body[Len(hash) + 1] IN
     hash' = Append(hash, chunk) /\ temporary' = [temporary EXCEPT !.data = Append(@, chunk)]
  /\ pc' = "read" /\ Keeps /\ UNCHANGED <<attempt, response, held>>

(* Faulty variant: whatever came until the stream ended is taken. *)
FitsAnything == hash # <<>>

(* What readArchiveResponse accepts when the stream ends *)
Fits ==
  /\ Len(hash) \in 1 .. Limit /\ (metadata > 0 => Len(hash) = metadata)
  /\ response.size > 0 => Len(hash) = response.size

(* A stream may end early without an error when no length was announced. *)
EndOfStream ==
  /\ pc = "read" /\ (response.size > 0 => Len(hash) = Len(response.body) \/ Len(hash) > Limit)
  /\ \/ Fits /\ AgreesWithLock(hash) /\ pc' = "sync" /\ Keeps /\ UNCHANGED <<temporary, attempt, response, hash, held>>
     \/ ~(Fits /\ AgreesWithLock(hash)) /\ Fails("failed")

-----------------------------------------------------------------------------
(* Publication *)

(* Faulty variant: the file is not synced. *)
SyncSkipped ==
  /\ pc = "sync" /\ pc' = "validate" /\ UNCHANGED <<temporary, attempt, response, hash, held>> /\ Keeps

Sync ==
  /\ pc = "sync" /\ pc' = "validate" /\ temporary' = [temporary EXCEPT !.synced = TRUE]
  /\ Keeps /\ UNCHANGED <<attempt, response, hash, held>>

Validate ==
  /\ pc = "validate"
  /\ \/ ValidZIP(temporary.data) /\ pc' = "publish" /\ Keeps /\ UNCHANGED <<temporary, attempt, response, hash, held>>
     \/ ~ValidZIP(temporary.data) /\ Fails("failed")

(* The temporary name is somebody else's by now, or the name is taken. *)
PublishRefused ==
  /\ pc = "publish" /\ (~temporary.ours \/ archive.there)
  /\ Fails("failed")

Publish ==
  /\ pc = "publish" /\ temporary.ours /\ ~archive.there
  /\ archive' = temporary /\ pc' = "published"
  /\ UNCHANGED <<served, durable, call, lock, bounds>>

(* Somebody put another file there since: it is taken away. *)
PublishUndone ==
  /\ pc = "published" /\ ~(archive.there /\ archive.ours)
  /\ archive' = NoFile /\ durable' \in {durable, NoFile} /\ pc' = "failed" /\ temporary' = NoFile
  /\ UNCHANGED <<served, metadata, attempt, response, hash, held, lock, bounds>>

SyncCache ==
  /\ pc = "published" /\ archive.there /\ archive.ours
  /\ durable' = archive /\ pc' = "returned"
  /\ held' = [data |-> temporary.data, digest |-> hash]
  /\ UNCHANGED <<served, archive, temporary, metadata, attempt, response, hash, lock, bounds>>

(* The directory cannot be synced; the name stays. *)
SyncCacheFails ==
  /\ pc = "published" /\ archive.there /\ archive.ours /\ pc' = "failed"
  /\ UNCHANGED <<served, archive, durable, call, lock, bounds>>

-----------------------------------------------------------------------------
(* The caller: a staged package set is recorded with its lock, or given up. *)
Record ==
  /\ pc = "returned" /\ lock' = held.digest /\ pc' = "idle"
  /\ UNCHANGED <<served, archive, durable, call, bounds>>

GiveUp ==
  /\ pc \in {"returned", "failed"} /\ pc' = "idle"
  /\ UNCHANGED <<served, archive, durable, call, lock, bounds>>

(* The server moves on to a set of packages without this version. *)
Drop ==
  /\ pc = "idle" /\ lock # <<>> /\ lock' = <<>>
  /\ UNCHANGED <<served, archive, durable, call, pc, bounds>>

(* Power is lost, or the process is killed: an unsynced name may or may not be
   there, a file that was not synced may have lost its end. *)
Crash ==
  /\ pc # "idle" /\ pc' = "idle" /\ temporary' = NoFile
  /\ \E f \in {archive, durable} :
       \/ archive' = f
       \/ /\ f.there /\ ~f.synced
          /\ \E n \in 0 .. Len(f.data) : archive' = [f EXCEPT !.data = SubSeq(@, 1, n)]
  /\ durable' = archive'
  /\ UNCHANGED <<served, metadata, attempt, response, hash, held, lock, bounds>>

(* Somebody deletes or replaces what has the name of the archive, or of the
   temporary file. *)
Meddle ==
  /\ meddles < MaxMeddles /\ meddles' = meddles + 1
  /\ \/ \E f \in {NoFile} \cup {File(FALSE, data, TRUE) : data \in Contents} :
          archive' = f /\ durable' = f /\ UNCHANGED temporary
     \/ temporary.ours /\ temporary' = [temporary EXCEPT !.ours = FALSE] /\ UNCHANGED <<archive, durable>>
  /\ UNCHANGED <<served, pc, metadata, attempt, response, hash, held, lock, calls, republished>>

(* The registry has other contents for the same version. *)
Republish ==
  /\ republished < MaxRepublish /\ republished' = republished + 1 /\ served' \in Body \ {served}
  /\ UNCHANGED <<archive, durable, call, pc, lock, calls, meddles>>

-----------------------------------------------------------------------------
CacheInit ==
  /\ served \in Body /\ archive = NoFile /\ durable = NoFile /\ temporary = NoFile /\ pc = "idle"
  /\ metadata = 0 /\ attempt = 0 /\ response = NoResponse /\ hash = <<>> /\ held = Nothing
  /\ lock = <<>> /\ calls = 0 /\ meddles = 0 /\ republished = 0

Fetch ==
  \/ UseCached \/ CachedRefused \/ NoRoom \/ CreateTemporary
  \/ Request \/ RequestRefused \/ Transient \/ ReadChunk \/ EndOfStream
  \/ Sync \/ Validate \/ PublishRefused \/ Publish \/ PublishUndone \/ SyncCache \/ SyncCacheFails

CacheNext == Fetch \/ Begin \/ Record \/ GiveUp \/ Drop \/ Crash \/ Meddle \/ Republish

CacheSpec == CacheInit /\ [][CacheNext]_cacheVars

-----------------------------------------------------------------------------
States == {"idle", "open", "attempt", "read", "sync", "validate", "publish", "published", "returned", "failed"}

(* Every variable keeps to its values. *)
CacheTypeOK ==
  /\ served \in Body /\ pc \in States /\ attempt \in 0 .. Attempts - 1
  /\ \A f \in {archive, durable} : f.data \in Contents
  /\ hash \in Contents /\ lock \in Contents

(* What Fetch returns is what it says: the bytes of one response, or of a whole
   archive in the cache, that are a package, of the size the registry told, and
   with the digest the lock of the package will carry. *)
ReturnedIsVouched ==
  pc = "returned" =>
    /\ held.data = held.digest /\ ValidZIP(held.data)
    /\ metadata > 0 => Len(held.data) = metadata

(* Left alone, the name only ever stands for a whole package, at any time and
   after any crash. *)
NamedIsWhole == meddles = 0 /\ archive.there => ValidZIP(archive.data)

(* As long as a version of a package is in use it keeps the bytes it was locked
   with, whatever the registry serves later and whatever becomes of the cache. *)
LockStands == [][lock # <<>> /\ lock' # <<>> => lock' = lock]_cacheVars

=============================================================================
