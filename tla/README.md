# A verification of vrisingctl

`vrisingctl` is the controller inside the docker-vrising image: at every start of
the container it gives the mounts to the configured user, recovers what an earlier
run left unfinished, decides which Steam build and which generation of mods to
serve, replaces files of the live server tree, starts Wine under Xvfb, waits for
evidence of readiness, promotes or rolls back the mods, and supervises the game until
it stops. This directory holds TLA+ models of that program, the TLC configurations
that check them and the proofs TLAPS checks. `PROJECT.json` maps every definition to
the lines it models.

Check a model with `tlc -config ModTransaction.cfg MCModTransaction`, a proof with
`tlapm ModTransactionProofs.tla`.

## Inventory

| Component | Source | State it keeps | Operations | What makes it hard |
|---|---|---|---|---|
| Application | `run.go`, `main.go` | none of its own; locals of one run | `Run`, `prepareSteam`, `recordFallback`, `launch`, `rollbackCandidate` | order of recovery, staging, Steam update, apply; what may be launched after which failure |
| State store | `state.go` | `state.json`, `package-lock.json`, lifetime locks | `Load`, `Save`, `OpenLifetimeLock`, `RecoverInterruptedTransaction`, artifact commit | crash between two writes; a save that fails after it took effect |
| Mod manager | `mods.go` | managed files of the server tree, `BepInEx.cfg` | `ValidateActive`, `Apply`, `Rollback`, `CommitPromotion`, `RecoverPromotion`, `Discard` | many renames that must look like one; somebody else writing the same tree |
| Staging | `mods.go`, `archive.go` | `generations/` | `Stage`, `ExtractArchive`, the manifest and its verification | archives with paths that collide, wrong packages, overlays edited later |
| Supervisor | `process.go` | Xvfb and Wine processes, `Runtime` in `state.json` | `Run`, `stopWine`, `stopProcess` | four goroutines and three timers raced by one `select` |
| Readiness and logs | `logs.go` | offsets, pending rotated files, evidence | `watch`, the followers, `PruneServerLogs` | rotation, truncation, two logs read one after the other |
| Steam client | `steam.go` | the server tree, its app manifest | `InstalledBuild`, `RemoteBuild`, `Update` | retries; nothing may be trusted after a failed mutation; builds read from console output |
| Resolver | `thunderstore.go` | none | `Resolve` | a graph of pinned dependencies with conflicts and cycles, walked twice |
| Archive cache | `archive.go` | `cache/` | `Fetch` | retried downloads, power loss, locked bytes versus served bytes |
| Backups | `backup.go` | `backups/` | `Create`, `Prune` | complete before retention; a tree that changes meanwhile |
| Identity | `identity.go` | ownership of both mounts | `PrepareOwnership`, `DropPrivileges` | a walk over a tree that changes under it |
| Locks, fence, health | `state.go`, `run.go`, `health.go` | locks, the process record in `state.json` | `OpenLifetimeLock`, `fencePriorProcess`, `CheckHealth` | a recorded PID that names another process |
| Configuration | `config.go`, `settings.go` | none | `LoadConfig`, `seedServerSettings` | precedence of aliases |
| Acceptance, fixture hooks | `acceptance.go`, `fixture_hook_*.go` | none | read-only verification, test hooks | |

Components interact by direct calls from `Application.Run`, by `state.json`
(written by the store, the mod manager, the application and the supervisor, always
under the lifetime lock), by the `OnReady` callback through which the supervisor
lets the application commit a promotion, and by channels inside the supervisor.
A container restart (`restart: unless-stopped`, `compose.yaml`) starts `Run` again.

What would make each component wrong: an application that launches a tree or a
generation it has no right to trust; a store or mod manager that loses a file, a
record or a decision in a crash; staging that unpacks something other than the
archive, or uses it after it was edited; a supervisor that leaves a process behind or
calls a candidate ready that is then rolled back; a monitor that counts old evidence
or misses a failure; a resolver that picks two versions of a package; a cache that
returns bytes nobody vouched for; a backup that is torn, mixes two moments or is retired
too early; a lock or a health check that takes another container's process for its own;
a change of ownership that leaves a file behind, or reaches one outside the mounts.
`PROJECT.json` lists these hazards at their lines with the properties that cover them.

## Modules

| Module | Models | State and actions |
|---|---|---|
| `ModUpdate` | what the mod lifecycle promises (abstract) | which generations are fresh, installed, on trial; `Try`, `Promote`, `Abandon`, `Withdraw` |
| `ModTransaction` | the managed-file transaction of `mods.go` and `state.go` | the live tree, the quarantine, generation directories, `state.json` with its journal, `package-lock.json`, `BepInEx.cfg`; one action per durable operation, a program counter named after the function at work |
| `ConsoleLogging` | `disableConsoleLogging` on the lines of `BepInEx.cfg` | operators, no state |
| `ServerRun` | what one supervised launch promises (abstract) | starting, serving, stopped; the trial pending, promoted, in doubt, dropped |
| `Supervisor` | `Supervisor.Run` and the verdict of `launch` | two processes, four channels, three timers, the locals of `Run`; one action per case of a `select`, system call or deferred step |
| `Startup` | `Application.Run` with `SteamClient`, over restarts | the server tree and its manifest, `state.json`, the locals of `Run`; one action per outcome of a call |
| `SteamDocument` | the VDF parser of `steam.go`, the console text around it, and the two builds read with it | operators, no state |
| `Backup` | `Create` and `Prune` of `backup.go` | stamps of the source files, the archive being made, the completed archives |
| `Lifetime` | locks, fence, process record and health check | per container: where its controller is, the mounts it holds, live processes; per server mount: the record in `state.json` |
| `Readiness` | `ReadinessMonitor.watch`, `observeReadinessRound`, `logFollower` | the files of each log, what each follower has open, read and remembers, the evidence; one action per chunk read, adoption, replacement seen or round ended; the game writes, truncates and replaces meanwhile |
| `Resolution` | what dependency resolution promises (abstract) | the graph; one step to an answer or a justified refusal |
| `Resolver` | `Thunderstore.Resolve` with `visit` and `canonicalPackageOrder` | an explicit call stack, the packages visited, attempts; one action per request, call, return |
| `ArchiveCache` | `Fetch` for one package version, and the lock its caller records | what is in the cache and durable, the download under way, the registry; one action per chunk, check, sync, rename |
| `Staging` | `Stage`, `ExtractArchive`, the persisted manifest and its checks | the archives' entries, the extracted tree, the overlay; one action per entry |
| `Ownership` | `prepareOwnership` | two trees of inodes with owners and modes, the walk's stack of directories; one action per system call that matters |
| `*Proofs` | theorems | see Proofs |
| `MC*` | values of the constants for TLC, and bounded inputs for the operators | |

How they compose:

    Startup  --uses, implements-->  ModUpdate   <--implemented by--  ModTransaction
       |-------------uses-------->  ServerRun   <--implemented by--  Supervisor
                                    Resolution  <--implemented by--  Resolver

`Startup` changes the mods only by the actions of `ModUpdate` and the launch only by
those of `ServerRun`; the detailed modules are shown to implement these, so what
`Startup` relies on is what the code below it does. The remaining relations are by
reading, not by a refinement mapping: `Ownership` and `Lifetime` stand before
`Startup` (`Run` reaches `Boot` only with both); `Backup` details its single step
`BackUp`, `SteamDocument` its `InstalledBuild` and `RemoteBuild`; `Resolver`,
`ArchiveCache` and `Staging` are what `Stage` does with packages; `Readiness` is the
monitor `Supervisor` takes as an interface that announces readiness once, fails, or runs
on; `ConsoleLogging` is the constant `Disable` of `ModTransaction`.

Every definition that has no faulty twin is the code's; a definition marked
"Faulty variant" is a plausible mistake in the code, used nowhere in the
specifications. `PROJECT.json` pairs each with the property it violates: a property
that no mistake in the code could violate has no place here.

### Order of the work

1. `ModTransaction` with `ModUpdate`: the core promise of the program (done, proved).
2. `Supervisor` with `ServerRun` (done, proved).
3. `Startup` above both (done, safety proved).
4. `Backup` (done, proved), `Lifetime` (done, proved).
5. `Readiness` (done, proved), `Resolver` with `Resolution` (done, proved), `ArchiveCache`
   (done, proved), `Staging` (done, proved), `Ownership` (done, proved).
6. Operators checked over bounded inputs: `ConsoleLogging`, `SteamDocument` (done).
7. Left: a refinement of the monitor interface of `Supervisor` by `Readiness`;
   `PruneServerLogs`.

## What is abstracted

- **Content.** A file is the hash of its content (`a`, `b`), `Absent`, or `Foreign`
  for what somebody else wrote. A generation is its manifest, a function from
  managed paths to hashes. `BepInEx.cfg` is one of a few configurations in
  `ModTransaction`; their text is that of `ConsoleLogging`.
- **Builds and generations** are numbers in the order of release or staging; digests
  of generations are not compared because staging gives each a new ID.
- **Failures** of a call are a choice, bounded by `MaxFaults` where they are counted;
  errors are told apart only where the code tells them apart.
- **Persistence.** A completed `fsync`, `rename` or `Save` survives a crash. `Save`
  can fail before its rename (nothing changed) or after it (the new state is
  there). In `Backup` and `ArchiveCache`, where the order of data and directory syncs is
  itself the question, unsynced data or an unsynced name may be lost.
- **Lines.** A log is read line by line, a log line is a marker, a failure or noise; a
  document or a configuration is a sequence of kinds of lines.
- **Formats and wording**, exit statuses other than 0, log output and temporary names
  are left out; permissions too, except in `Ownership`.

Some steps are coarser than the code. In `Readiness` a `Stat` and the read that follows
it are one step; the game acts only while somebody reads, and the monitor stops once
it has announced readiness. In `ArchiveCache` the failures of reading, syncing and requesting that
end an attempt alike are one action. In `Staging` somebody edits the staged overlay only,
not the archive being read; a killed `Stage` leaves an unreferenced directory, which is not
followed further. In `Ownership` the listing of a directory is one step, the private
directories are prepared in any order, and the owner read for a mount without an explicit
identity is the one at the start of the run.

## Environment assumed

- A crash of the container takes the game with it (the image runs under tini); only
  `Lifetime` lets a game outlive its controller, as it does after a `docker exec`.
- Nobody edits the files below the protected state directory (`README.md:263`), except in
  `ArchiveCache`, `Staging` and `Ownership`, where the code checks for it. Somebody may, in
  `ModTransaction`, overwrite managed paths and edit `BepInEx.cfg` at any time; nobody
  else deletes managed files.
- SteamCMD writes `TargetBuildID` before the first file and `buildid` after the last,
  and a branch only moves forward. An `app_update` that succeeds leaves no damage behind,
  except where it is itself the fault: then it installs files that fail validation. One that
  fails may have repaired any part.
- An operator or the disk may damage the installed tree at any time (`Spoil`): the manifest
  so that it cannot be read, or the files so that they fail validation. A damaged game that
  is already running goes on.
- The three source directories of a backup exist throughout and every change of a
  file shows in its `stat`.
- Process start ticks are unique within a boot; containers have PID namespaces of
  their own.
- In `Supervisor` the parent context is never cancelled except by signals, which is how
  `main.go` calls it.
- A log that is truncated does not grow beyond its old size within the chunk the follower
  is reading (`SlowRegrowth`). Without this a truncation is invisible to a size comparison.
- A mount point cannot be renamed inside the container, an entry is not moved between
  the mounts, and no directory is put below itself (`rename` refuses it). In `Ownership` the
  roots of the mounts keep their owner and mode but for what the start does; a directory that
  is made is one of the unused empty ones of the instance.

## Runs

| Run | Bounds | States | Question |
|---|---|---|---|
| `mod_transaction` | 3 generations, 3 paths, 2 faults, one of them possibly a write by an operator, fairness | 857,000 | Does every crash point of apply, recovery, promotion and cleanup, a crash during recovery included, leave a state from which a restart recovers by itself? Is somebody else's file or setting ever destroyed? |
| `supervisor` | 3 signals, 1 failing save, fairness | 621,000 | Every interleaving of a launch: no process left, no false readiness, no wrong verdict, and an end to every start and stop |
| `startup` | 5 starts, 3 faults, 5 generations, 2 builds, 1 release, all 6 settings that differ, fairness | 732,000 | What is ever launched from which tree and with which mods, which start may replace saves without a backup, and which failures can keep every later start from serving? |
| `startup_unreadable_manifest` | 2 starts, 2 faults, 1 release, default settings | | Finding, see below |
| `backup` | 2 members, 2 edits, 4 times in any order, retention 2 | 1.4 million | What is in an archive, and which archives survive? |
| `backup_clock_set_back` | the same | | Finding, see below |
| `lifetime` | 3 containers, 2 symmetric process IDs, 2 ticks; the first container shares its data mount with the second and its server mount with the third | 1.3 million | One controller at a time, one game per container, and who may be called healthy? |
| `readiness` | one log replaced twice; one truncated before, one after it was replaced; two logs; 2 or 3 lines each; room for 1 replacement, 2 lines a round, fairness | 1.5 million | What is dropped, reopened, counted twice or passed over, and does a complete log lead to a verdict? |
| `readiness_lost_evidence` | the log truncated after it was replaced | | Finding, see below |
| `resolver` | all 65,536 graphs over two roots and a library in two versions, 2 attempts, fairness | 1.0 million | Is the answer exactly the closure, in order, with one version each? Does it end? |
| `packages` | 3 calls, 3 attempts, 1 edit of the cache, 1 change of the served bytes, 4 bodies; or every archive of up to 3 further entries of a pool of 10 or 13 awkward ones, then one edit | 367,000 | Are the bytes `Fetch` returns those that are vouched for, after any end of a stream and any power loss? Is what is used what was packaged? |
| `ownership` | 2 starts as root or with an identity, 2 edits, 9 inodes | 1.5 million | Does every entry get its owner, keep its access, and is nothing outside touched? |

Why the bounds are enough. Three manifests give, for some ordered pair of
generations, every case of a path the transaction distinguishes: kept, replaced,
deleted, new, unchanged content. Two crashes reach a crash in the recovery from a
crash, and recovery begins afresh each time. One failing save suffices in
`Supervisor` because every failure of a save leads straight to the end of the run.
Five starts and three faults allow a good start, one that fails in the update, one that
falls back, and two that meet what those left; `updateTries` failures in a row need three
faults. Three starts may be lost to faults and one to a release between the query and the
update, so five are the least with which `SelfHeals` holds. Three archives with retention 2 are the least that make `Prune` choose. Two
ticks with two IDs include a reuse of an ID by another process, and each container
restarting. Room for one replacement is exceeded by the second, two lines a round by the
third. The four packages of `resolver` contain every shape its walk tells apart: a repeated,
missing, conflicting, cyclic and self-naming dependency, below either root or both. Three attempts
are those of the code, and a locked version can be served changed before, between and after
them. Two entries collide, and a third may stand between, before or after them. Two edits
put an entry where the walk has been and take it from where it will come.

`packages` checks `ArchiveCache` and `Staging` in one run (`MCPackages`): in each behaviour one
of the two goes on while the other rests in its initial state. They share only whether the
bytes handed over are as locked, so interleaving them would add no case; every action of both
is taken.

The operators without state are checked by assumptions TLC evaluates at the start of a run.
`MCModTransaction` (run `mod_transaction`) goes through every configuration of up to five
lines: the first console section is off, every other setting is kept in its place, and
doing it twice changes nothing, which is what `ModTransaction` assumes of `Disable`. Only
the first console section is changed, so a second one keeps what it says. `MCSteamDocument`
(run `startup`) goes through short outputs around one document and through the metadata
of two branches with any line lost, doubled or everything after it missing: what the
parser takes is what a definition by counting braces takes, a lookup in a Go map has at
most one answer, and a damaged output gives the build of the selected branch or none.

Deadlock is checked for `mod_transaction`, whose program restarts for ever. The other
specifications stop: a launch, a resolution or a scene ends, or a bound on starts, times,
calls or edits does.

## Fairness

- `ModTransaction`: weak fairness of the controller as a whole. The container is
  restarted (`compose.yaml:16`, `restart: unless-stopped`) and every wait of the
  controller has a timeout. Crashes are bounded, as a controller that is killed in
  every run promises nothing. What is shown: every candidate is decided and every
  persisted promotion is completed, unless recovery refused because somebody else had
  written the same files; `NeverBlocked` says that nothing else makes it refuse.
- `Supervisor`: `Run` takes the steps it can take; the startup timer expires; a killed
  process dies; the goroutines that wait for a process report its end; `winecfg`
  returns once cancelled (`WaitDelay`); the monitor notices its context. Nothing is
  assumed of the game: it need not become ready, end, or react to a signal.
- `Startup`: weak fairness of a controller step that is not a fault. The
  run's own waits are bounded by timeouts; `SelfHeals` is about the state left behind once
  faults have stopped and the branch has seen its last release. It excepts one state,
  `CurrentDamaged`, in which the code does not heal (see below). The exception is for the whole
  behaviour, not only for its end: in this state starts are spent, of which an instance has
  few. Damage to the manifest, to another build than the current one, or to a build that a
  release then replaces is not excepted.
- `Readiness`: weak fairness of the monitor's steps, which a ticker drives. The game may
  stop writing at any moment.
- `Resolver`: weak fairness of its next step; a request has a timeout and bounded retries.
- `ArchiveCache`, `Staging`, `Ownership`, `Backup` and `Lifetime` state safety only: their
  calls end by themselves or with an error, which the callers' models take as an outcome.

## Proofs

TLAPS checks the following for all values of the constants, from the assumptions on
constants named in the modules. The assumptions are about types and about distinctness of
special values, except these: `ConfigAssumption` (`Disable` is idempotent, checked for the
code's function as described above); `MountAssumption` of `Ownership` (in the file systems
as the first start finds them a directory has one name, a root has none and an entry is in
the mount of its directory, as a kernel sees to); `LayoutAssumption` of `Staging` (the
directory of the plugins and what is managed of the loader are not inside each other, as in
`isManagedBepInExPath`, whose paths are constants here); and, for `Kept` alone, a history
variable that says the clock has not been set back.

**`ModTransactionProofs`.** The safety properties are not inductive: that recovery
finds the originals depends on what the journal says at each point of `Apply`. The
invariant is `IInv == TypeOK /\ Control /\ Journal /\ Directories /\ Files`: which
locals mean something at which program counter; which parts of the journal and of the
lock are set; which generation directories exist; and, per path, where original and
new content are (`FileOK`), with a separate form for an operation in progress. Paths
are independent, so each step is proved for one path at a time. From it:
`TypeCorrect`, `Atomicity`, `Recoverability`, `OneGeneration`, `LockAgreement`,
`GenerationsKept` and, with a step-by-step mapping, `Refinement` (every step is one
of `ModUpdate` or a stutter).

Its second part adds what somebody else's writes need: a foreign file moved by
mistake is not among what promotion is about to delete (`ForeignInv`); the last
configuration written is live, live with the console off, or in the quarantine with a
journal entry that leads back to it (`LastInv`); an undisturbed configuration is in one
of the places recovery knows (`UndisturbedInv`); and the records name different
generations (`RecordInv`). From these `Preservation` (`OthersKept`) and `Recovery`
(`NeverBlocked`): each check recovery makes is shown to succeed at the step that
makes it, the validation of `state.json` itself among them.

**`SupervisorProofs`.** `IInv` adds to the types: which processes exist at each point
(`ProcessInv`), that readiness is announced once and only while the timer is armed
(`ReadinessInv`), what has been recorded (`RecordInv`), and which reason and exit
status lead to which verdict (`EndingInv`). From it `NoProcessLeft`, `NoSilentFailure`,
that a promoted run was ready, a deadline ends a run that was not, a stop is recorded, and
the refinement of the safety part of `ServerRun`.

**`StartupProofs`.** `TreeInv`: what is launched is the tree of one build, because every
step that may leave it mixed also leaves a manifest that does not validate, or ends the
run. `SavesInv`: saves without a backup belong to the build that is still installed, unless a start
that looked at the tree of their build could not read its manifest (`overlooked`); hence
`Backed` (`SavesBackedUpIfRead`). `CopyInv`: the copy of
`state.json` that `recordFallback` writes back is still the file. `FallbackInv`: what a
fallback may serve was ready before. From these `Whole`, `Backed`, `KnownGood` and the
refinement of `ModUpdate`.

**`BackupProofs`.** The interesting conjunct is `WitnessInv`: while members are compared
again, there is a state of the sources, since the archive was written, that is no
older than what was collected, no newer than now, and agrees with the archive on every
member already compared. Stamps only grow, so a member found unchanged was unchanged at
that witness too. From it `Current`; from `WholeInv` (all that is published was synced)
`Whole`; and with `KeptInv` `Kept`, which speaks of the steady clock. `RetainInv` counts:
`Prune` goes through the names from the newest to the oldest beyond `Retain`, so each archive it
has still to delete is older than `Retain` that it leaves; hence `Newest` (`NewestKept`),
wherever `Prune` is cut short. That the archives have a newest one is shown by
well-founded induction on their age.

**`LifetimeProofs`.** `LockInv` says that a mount is held by one controller at a time and
that a controller past its locks holds both; hence `Exclusion`. `GamesInv` says that an
identity (container, PID, start tick) belongs to one process for ever, and that the record
between a launch and readiness is the launcher's own, because of the locks; the fence
leaves no game whose record it can prove. From it `Single` (`OneGame`) and `Healthy`.

**`ReadinessProofs`.** A follower reads one line at a time while the game goes on, so the
invariant speaks of each line with its file, its place and the truncations it has
survived. `ReadersInv` and `PositionInv`: no file has two readers, and what is read
is the next line of the reader whose turn it is. `LineInv`: what a round holds had been
written. `OldInv`: of the log that was there first only what follows its old end is
read, and nothing once it was truncated. `EvidenceInv`: each marker that counts has a fresh line
behind it, except between a truncation of that log and the read that notices it
(`Suspect`), where the round ends with a reset and announces nothing. `RoundInv`: when
nothing more is to be read of a file, all it held when the round began has been read.
`MarkInv` compares the extents of all files when the last marker was written with those
when the round began; they are ordered because a file only grows or is truncated. From
these `TypeCorrect`, `OldIgnored`, `Drained`, `FreshEvidence` and `NoneMissed`.

**`PackageProofs`.** Of `Resolver`: the stack of calls is a path of the graph whose packages
are neither finished nor repeated, and everything finished has its dependencies finished
before it. From it the refinement of the safety part of `Resolution` (`Promised` without its
termination), and that the second walk never refuses what the first one accepted
(`OrderNeverRefuses`). Of the termination, the argument is proved (`WalksAdvance`): `Left`
lists eight finite sets, from the phases to come to the requests that may still fail, and
every step ends the resolution or shrinks one of them and leaves those before it alone, for
any graph, cycles included. What is left to TLC is that a resolution that goes on can take
a step, and the temporal conclusion.

Of `ArchiveCache`: `ReadInv`: the temporary file holds what was read and digested, at the
announced size once it is accepted; `WholeInv`: only a whole and synced file bears the name,
now or after a power loss; `LockInv`: what is accepted or returned agrees with the recorded
lock. From these `Vouched`, `Whole` and `Locked`.

Of `Staging`, for any archives and any number of plugins: trees are described by the entries
they were made from. `UnpackingInv`: what is unpacked of an archive is what its entries so
far say (`Unpacked`: each path is that of an entry or leads to one, each file holds its
entry). An inspected archive has no two entries with one output and none below the output of
a file, so the next entry fits, in whatever order they come (`EntryFits`). `CopyingInv`: the
files of the overlay are the shares of the packages so far, and each directory leads to one
(`TreeOf`). Outputs of the loader are apart among themselves, assemblies are apart because
they have one length, and the two are apart by `LayoutAssumption` (`SharesApart`), so a copy
has room. `StagedInv`: the persisted list is the shares of all packages, without two
contents for one path. From these `CleanUnpacking` (`UnpacksCleanly`) and `Packaged`
(`UsedAsPackaged`): the verification accepts a tree exactly when its files are the list, and
the list is what the archives' entries ask for.

**`OwnershipProofs`.** Others edit the trees between any two steps, so the invariant says
what a walk knows in spite of them. `EntriesInv`: edits keep what `MountAssumption` says.
`TreeInv`: what was migrated is in its mount, below directories that were migrated
(`Founded`), and StateDir is the directory that is held; `ModeInv`: it is open to its owner,
unless others changed its mode after it was read. `ReadInv`: an entry whose mode was read is
at least as open to its owner as it was read, and others have the access that was read, or
others changed its mode, which `before` records.
`FrameInv`: a directory being verified held exactly what was migrated, and whatever was added
since is late. `HandInv` is the argument for `HandedOver`: there is a set of verified inodes,
with the roots whose verification has begun, such that each entry of a directory in it is late, or is
in order (or private, and about to be put in order) and is itself in the set if it is a directory, unless a frame
of the stack has yet to visit its name. When the stacks are empty the set contains all that is
below the roots, to any depth. `AccessInv` and `PlaceInv` say that during the walks only what
was migrated below StateDir lost access for others, and that a verified tree still has those
directories there; hence `SecludedInv`: what lost access hangs together below StateDir.
Bits that a change of owner clears are in `held.target` until they are set again. From
these `Handover` (`HandedOver`), `AccessPreserved` (`AccessKept`) and `ForeignSafe`
(`ForeignUntouched`), for trees of any depth; both invariants look three levels below a root.

Model-checked only: everything about liveness and fairness, which this prover cannot express
(`TrialsEnd`, `EndsWhenItMust`, `SelfHeals`, the liveness of `ServerRun` and of
`Resolution`, `ReadyUnlessCut`). Every safety invariant a passing run checks is also proved. The operators of
`ConsoleLogging` and `SteamDocument` are compared with their reference definitions over
bounded inputs only; what a recursive definition computes for every input is out of the
prover's reach.

## Findings and observations

- **An update without a backup** (`startup_unreadable_manifest`). `README.md:268-270`: "Before
  changing from one installed Steam build to another, the controller creates and verifies
  `server/.docker-vrising/backups/vrising-backup-<UTC timestamp>.tar.gz`." When the manifest
  of the installed build cannot be read or parsed, `InstalledBuild` fails (`steam.go:86-92`,
  `231-263`). `Run` keeps the error (`run.go:214`), the backup is made only if there was none
  (`run.go:510`), and the update goes on (`run.go:530`). `SavesBackedUp` states the sentence and
  fails; `SavesBackedUpIfRead`, checked and proved, says that this is the only way.
- **Damaged files of the current build** are never repaired. When the manifest names the
  build of the branch but the executable is missing or `steam_appid.txt` is wrong
  (`steam.go:306-316`), `prepareSteam` returns the failed validation (`run.go:501-507`); every
  later start does the same, and none calls `app_update`, until the branch moves on or the
  manifest is removed. No document promises otherwise, so this is `CurrentDamaged`, the
  exception of `SelfHeals`, and not a finding.
- **Modes changed behind the walk** of `prepareOwnership` go unnoticed: the verification
  compares owners, inodes and types only (`identity.go:551-557`, `595-606`). An entry that others
  close after its mode was read stays closed to the runtime. `HandedOver` promises the owner of
  every entry, and its access only where others left the mode alone (`before`).
- **Retention and a clock set back** (`backup_clock_set_back`). `README.md:273-275`: "Only
  after a new archive is complete does retention prune older recognized archives".
  `Prune` (`backup.go:298`) sorts by the time in the names and does not know which archive
  is new. When the host's clock was set back behind the retained archives, the new one
  is the oldest by name and is deleted; both calls succeed and the update goes on.
- **Evidence lost to a late truncation** (`readiness_lost_evidence`). When a log that was
  already replaced is truncated, the follower reports a reset for the whole source, and
  `observeReadinessRound` (`logs.go:237`) forgets the marker its replacement had shown. The
  replacement is adopted in the same round and not read again, so readiness is never
  announced and the start ends at its deadline. `logs_test.go:1027-1029` expects the new
  log alone to decide, and `logs.go:416-421` keeps the replacement's lines when the
  truncation is noticed in the round that reads them.
- `validateKnownGoodSteam` (`run.go:596-611`) compares the installed build with the build
  that last became ready, which the supervisor records also for runs with
  `MODS_ENABLED=false` (`process.go:394`). A later fallback may so combine a build and
  a generation that never ran together. `FallbackKnownGood` states what is
  guaranteed: each half was ready once.
- That the startup deadline never stops a game that became ready is not among what
  `ServerRun` promises, whose serving may stop at any time; it is the theorem `DeadlineEnds`.
- With `MODS_ENABLED=false` there is no active generation, hence no fallback
  (`run.go:573`): a failing query of the Steam branch is then fatal even though a
  ready build is installed.
- An inode the follower has seen before stays remembered. A log that is replaced by a file with
  the inode of an earlier one counts as activity in every round, and the monitor does not
  come to rest; the tests expect this (`logs_test.go:1123`, `1177`).
- A cached archive that no longer agrees with the metadata is refused, not replaced
  (`archive.go:354`), by every later start until somebody deletes it.
- A start killed between `fchown` and the `fchmod` that restores the mode leaves a file without
  its set-ID bits; the next start reads the reduced mode as the original one.
- The temporary file of a backup that was killed stays in `backups/`.
- Recovery (`run.go:187`) moves managed files before the fence (`run.go:209`) asks for a
  live game. This needs a controller killed alone in the middle of a trial, which tini
  excludes in the image.

## Not modelled

- Configuration and seeded settings: the former parses environment variables into values
  that `Startup` takes as given; the latter publishes two files once, if absent, with the
  same operation (`publishServerFile`) that `ModTransaction` models.
- The acceptance checks, which read a running installation and change nothing, and the hooks of
  the test image, which the production binary does not contain.
- Of the modelled components: the argument checks, environment and log names of
  `Supervisor.Run`; SteamCMD's command line; URLs, JSON and the fields of package metadata; the
  encoding and validation of ZIP and tar archives; the health check under another user; pruning
  of old server logs and the forwarding of output; the limit on a log line without an end; the
  probe that a mount can be written after privileges are dropped.
