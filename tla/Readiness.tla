------------------------------ MODULE Readiness ------------------------------
(***************************************************************************)
(* ReadinessMonitor.watch and its log followers (logs.go).  The game       *)
(* writes, truncates and replaces its logs while the monitor, in rounds,   *)
(* lets one follower per log read what is new; it announces readiness      *)
(* after two rounds in which every marker has been seen and nothing moved. *)
(*                                                                         *)
(* A file is a number, its content a sequence of whole lines, a chunk one  *)
(* line.  Lines written before and after a truncation differ in the bytes  *)
(* an anchor compares, and a number is not used again for another file.    *)
(***************************************************************************)
EXTENDS Naturals, Sequences, FiniteSets, SequencesExt, FiniteSetsExt

CONSTANTS
  Log,            \* the logs there can be
  Marker,         \* the markers expected in a log
  Fatal,          \* lines that tell of a failure
  MaxPending,     \* maxPendingLogGenerations
  Budget,         \* maxReadinessInputBytes
  Scenes          \* what the game may do: see Scene

ASSUME MarkerAssumption == \A s, t \in Log : s # t => Marker[s] \cap Marker[t] = {}
ASSUME KindAssumption == \A s \in Log : Fatal \cap Marker[s] = {}
ASSUME BoundAssumption == MaxPending \in Nat /\ Budget \in Nat

(* Which logs are followed, that of the mods only on a server with mods; bounds
   on the files of a log, on the lines of all, on truncations and renames; and
   what else may happen: an earlier log "returns" under its name, the game "cuts
   retired" logs, which have lost it. *)
Scene == [sources : (SUBSET Log) \ {{}}, files : Nat \ {0}, lines : Nat, cuts : Nat, moves : Nat,
          habits : SUBSET {"returns", "cuts retired"}]

ASSUME SceneAssumption == Scenes \subseteq Scene

VARIABLES
  scene,
  \* the game's side
  content,    \* lines of every file of a source
  cut,        \* how often a file was truncated
  path,       \* the file that has the name of the log, 0 if none has
  made,       \* files created so far
  moves,
  \* a follower
  held,       \* the file it follows
  pending,    \* pendingGenerations
  seen,       \* inodes that are never opened again
  step,       \* where it is in readAvailable
  turn,       \* which generation readCurrent reads: 0 for held
  chunk,      \* what was read and not yet confirmed
  budget,     \* remaining
  got, gotPending,  \* lines of this batch, of held and of pending generations
  reset, retiringChanged, activity,
  \* the monitor
  evidence, quietRounds, outcome,
  \* history
  there,      \* the log that was there when the follower was made, 0 if none was
  baseline,   \* its lines then
  backed,     \* which lines the evidence came from
  before,     \* the files as they were when the last round began
  mark,       \* the last marker written, and the files and moves up to then
  stale       \* how often the log that was there had been truncated by then

files == <<content, cut, path, made, moves>>
follower == <<held, pending, seen>>
batch == <<budget, got, gotPending, reset, retiringChanged, activity>>
position == <<step, turn, chunk>>
monitor == <<evidence, quietRounds, outcome>>
history == <<there, baseline, backed, before, mark, stale>>
vars == <<scene, files, follower, batch, position, monitor, history>>

Source == scene.sources
File == 1 .. scene.files
Steps == {"idle", "first", "detect", "second", "pending", "retire", "adopt", "done"}

NoFile == [file |-> 0, current |-> FALSE, offset |-> 0, anchor |-> 0, more |-> FALSE, fresh |-> FALSE]

Size(s, f) == Len(content[s][f])
Snapshot == [s \in Source |-> [f \in File |-> [cut |-> cut[s][f], size |-> Size(s, f)]]]

-----------------------------------------------------------------------------
(* The game *)

Running == outcome = "watching"
Reading == {"first", "second", "pending", "retire"}

(* What the game does while nobody reads it can as well do when reading goes on. *)
Seen == Running /\ \E s \in Source : step[s] \in Reading \cup {"detect"}

Lines == MapThenSumSet(LAMBDA p : Size(p[1], p[2]), Source \X File)
Cuts == MapThenSumSet(LAMBDA p : cut[p[1]][p[2]], Source \X File)
Moves == MapThenSumSet(LAMBDA s : moves[s], Source)

(* Regrowing past what was read takes longer than reading a chunk. *)
SlowRegrowth(s, f) ==
  LET r == IF turn[s] = 0 THEN held[s] ELSE pending[s][turn[s]] IN
  chunk[s] # <<>> /\ r.file = f => cut[s][f] = chunk[s][1].cut

Write(s, f, kind) ==
  /\ Seen /\ f <= made[s] /\ Lines < scene.lines /\ SlowRegrowth(s, f)
  /\ content' = [content EXCEPT ![s][f] = Append(@, kind)]
  /\ UNCHANGED <<cut, path, made, moves, follower, batch, position, monitor, there, baseline, backed, before, stale>>
  /\ mark' = IF kind \in Marker[s]
              THEN [source |-> s, file |-> f, extent |-> Snapshot', moves |-> moves]
              ELSE mark

Truncate(s, f) ==
  /\ Seen /\ content[s][f] # <<>> /\ (path[s] = f \/ "cuts retired" \in scene.habits)
  /\ Cuts < scene.cuts
  /\ content' = [content EXCEPT ![s][f] = <<>>]
  /\ cut' = [cut EXCEPT ![s][f] = @ + 1]
  /\ UNCHANGED <<path, made, moves, follower, batch, position, monitor, history>>

(* The log is renamed away, created anew, or an earlier one is renamed back. *)
Move(s) ==
  /\ Seen /\ Moves < scene.moves /\ moves' = [moves EXCEPT ![s] = @ + 1]
  /\ \/ path[s] # 0 /\ path' = [path EXCEPT ![s] = 0] /\ UNCHANGED made
     \/ /\ made[s] < scene.files /\ made' = [made EXCEPT ![s] = @ + 1]
        /\ path' = [path EXCEPT ![s] = made'[s]]
     \/ /\ "returns" \in scene.habits /\ UNCHANGED made
        /\ \E f \in 1 .. made[s] \ {path[s]} : path' = [path EXCEPT ![s] = f]
  /\ UNCHANGED <<content, cut, follower, batch, position, monitor, history>>

-----------------------------------------------------------------------------
(* readCurrent *)

Reader(s) == IF turn[s] = 0 THEN held[s] ELSE pending[s][turn[s]]

SetReader(s, r) ==
  IF turn[s] = 0
  THEN held' = [held EXCEPT ![s] = r] /\ UNCHANGED pending
  ELSE pending' = [pending EXCEPT ![s][turn[s]] = r] /\ UNCHANGED held

(* Faulty variant: only the size is compared. *)
ContinuousBySize(s, f, offset, anchor) == Size(s, f) >= offset

(* matchesAnchor *)
Continuous(s, f, offset, anchor) ==
  Size(s, f) >= offset /\ (offset # 0 => cut[s][f] = anchor)

(* What follows a generation in readAvailableContext. *)
AfterRead(s) ==
  CASE step[s] = "first"   -> <<"detect", 0>>
    [] step[s] = "second"  -> IF pending[s] # <<>> THEN <<"pending", 1>> ELSE <<"adopt", 0>>
    [] step[s] = "pending" -> IF turn[s] < Len(pending[s]) THEN <<"pending", turn[s] + 1>> ELSE <<"retire", 0>>
    [] step[s] = "retire"  -> <<"adopt", 0>>

Proceed(s) ==
  /\ step' = [step EXCEPT ![s] = AfterRead(s)[1]] /\ turn' = [turn EXCEPT ![s] = AfterRead(s)[2]]
  /\ chunk' = [chunk EXCEPT ![s] = <<>>]

Take(s, r) ==
  /\ chunk' = [chunk EXCEPT ![s] =
       <<[kind |-> content[s][r.file][r.offset + 1], file |-> r.file, cut |-> cut[s][r.file], at |-> r.offset + 1]>>]
  /\ UNCHANGED <<step, turn>>

Got(s, lines) ==
  IF turn[s] = 0
  THEN got' = [got EXCEPT ![s] = @ \cup lines] /\ UNCHANGED gotPending
  ELSE gotPending' = [gotPending EXCEPT ![s] = @ \cup lines] /\ UNCHANGED got

(* handleReadTransition: a file of this run is read from its beginning again; one
   that was there before is given up, with what it told. *)
Transition(s, r, lines) ==
  /\ activity' = [activity EXCEPT ![s] = TRUE]
  /\ IF r.current
     THEN /\ SetReader(s, [r EXCEPT !.offset = 0, !.anchor = 0, !.more = TRUE])
          /\ Got(s, lines) /\ UNCHANGED <<reset, retiringChanged>>
     ELSE /\ SetReader(s, [NoFile EXCEPT !.more = r.more])
          /\ reset' = [reset EXCEPT ![s] = TRUE] /\ got' = [got EXCEPT ![s] = {}]
          /\ retiringChanged' = [retiringChanged EXCEPT ![s] = step[s] = "retire"]
          /\ UNCHANGED gotPending
  /\ Proceed(s)

(* The size, the anchor and a chunk. *)
Look(s) ==
  LET r == Reader(s) IN
  /\ Running /\ step[s] \in Reading /\ chunk[s] = <<>>
  /\ \/ /\ r.file = 0
        /\ SetReader(s, IF step[s] = "first" THEN [r EXCEPT !.more = FALSE] ELSE r)
        /\ Proceed(s) /\ UNCHANGED <<got, gotPending, reset, retiringChanged, activity>>
     \/ /\ r.file # 0 /\ ~Continuous(s, r.file, r.offset, r.anchor)
        /\ Transition(s, r, {})
     \/ /\ r.file # 0 /\ Continuous(s, r.file, r.offset, r.anchor)
        /\ Size(s, r.file) = r.offset \/ budget[s] = 0
        /\ SetReader(s, [r EXCEPT !.more = Size(s, r.file) > r.offset])
        /\ Proceed(s) /\ UNCHANGED <<got, gotPending, reset, retiringChanged, activity>>
     \/ /\ r.file # 0 /\ Continuous(s, r.file, r.offset, r.anchor)
        /\ Size(s, r.file) > r.offset /\ budget[s] > 0
        /\ Take(s, r) /\ UNCHANGED <<held, pending, got, gotPending, reset, retiringChanged, activity>>
  /\ UNCHANGED <<files, seen, budget, monitor, history>>

(* The chunk counts if the file is still the one it was read from. *)
Keep(s) ==
  LET r == Reader(s)
      next == [r EXCEPT !.offset = @ + 1, !.anchor = cut[s][r.file]] IN
  /\ Running /\ chunk[s] # <<>>
  /\ budget' = [budget EXCEPT ![s] = @ - 1]
  /\ \/ ~Continuous(s, r.file, r.offset, r.anchor) /\ Transition(s, r, {})
     \/ /\ Continuous(s, r.file, r.offset, r.anchor) /\ Size(s, r.file) < next.offset
        /\ Transition(s, r, {chunk[s][1]})
     \/ /\ Continuous(s, r.file, r.offset, r.anchor) /\ Size(s, r.file) >= next.offset
        /\ activity' = [activity EXCEPT ![s] = TRUE] /\ Got(s, {chunk[s][1]})
        /\ UNCHANGED <<reset, retiringChanged>>
        /\ IF Size(s, r.file) > next.offset /\ budget'[s] > 0
           THEN SetReader(s, next) /\ Take(s, next)
           ELSE SetReader(s, [next EXCEPT !.more = Size(s, r.file) > next.offset]) /\ Proceed(s)
  /\ UNCHANGED <<files, seen, monitor, history>>

-----------------------------------------------------------------------------
(* The rest of readAvailableContext *)

(* Faulty variant: an inode it has seen is opened again. *)
DetectReopening(s) ==
  LET new == [NoFile EXCEPT !.file = path[s], !.current = TRUE, !.fresh = TRUE] IN
  /\ Running /\ step[s] = "detect"
  /\ IF path[s] \in {0, held[s].file}
     THEN UNCHANGED <<pending, seen, activity, outcome>>
     ELSE /\ pending' = [pending EXCEPT ![s] = Append(@, new)]
          /\ seen' = [seen EXCEPT ![s] = @ \cup {path[s]}]
          /\ activity' = [activity EXCEPT ![s] = TRUE] /\ UNCHANGED outcome
  /\ step' = [step EXCEPT ![s] = "second"]
  /\ UNCHANGED <<files, held, turn, chunk, budget, got, gotPending, reset, retiringChanged, evidence, quietRounds, history>>

(* What has the name of the log now? *)
Detect(s) ==
  LET new == [NoFile EXCEPT !.file = path[s], !.current = TRUE, !.fresh = TRUE] IN
  /\ Running /\ step[s] = "detect"
  /\ \/ path[s] \in {0, held[s].file} /\ UNCHANGED <<pending, seen, activity, outcome>>
     \/ /\ path[s] \notin {0, held[s].file} /\ path[s] \in seen[s]
        /\ activity' = [activity EXCEPT ![s] = TRUE] /\ UNCHANGED <<pending, seen, outcome>>
     \/ /\ path[s] \notin seen[s] \cup {0} /\ Len(pending[s]) >= MaxPending
        /\ outcome' = "failed" /\ UNCHANGED <<pending, seen, activity>>
     \/ /\ path[s] \notin seen[s] \cup {0} /\ Len(pending[s]) < MaxPending
        /\ pending' = [pending EXCEPT ![s] = Append(@, new)] /\ seen' = [seen EXCEPT ![s] = @ \cup {path[s]}]
        /\ activity' = [activity EXCEPT ![s] = TRUE] /\ UNCHANGED outcome
  /\ step' = [step EXCEPT ![s] = "second"]
  /\ UNCHANGED <<files, held, turn, chunk, budget, got, gotPending, reset, retiringChanged, evidence, quietRounds, history>>

(* Faulty variant: the file in use is dropped while it still has lines to read. *)
SettledHasty(s) == pending[s] # <<>> /\ ~Head(pending[s]).more

(* Faulty variant: a replacement waits for a round in which nothing happened, but
   that it has the name of the log happens in every round. *)
SettledQuiet(s) ==
  /\ pending[s] # <<>> /\ ~activity[s]
  /\ ~(held[s].file # 0 /\ held[s].more) /\ ~Head(pending[s]).more

(* The oldest replacement was there in an earlier round already, and neither it
   nor the file in use had more to read. *)
Settled(s) ==
  /\ pending[s] # <<>> /\ ~retiringChanged[s]
  /\ ~(held[s].file # 0 /\ held[s].more)
  /\ ~Head(pending[s]).more /\ ~Head(pending[s]).fresh

Adopt(s) ==
  /\ Running /\ step[s] = "adopt"
  /\ IF Settled(s)
     THEN /\ held' = [held EXCEPT ![s] = [Head(pending[s]) EXCEPT !.more = held[s].more]]
          /\ pending' = [pending EXCEPT ![s] = Tail(@)]
          /\ activity' = [activity EXCEPT ![s] = TRUE]
     ELSE UNCHANGED <<held, pending, activity>>
  /\ step' = [step EXCEPT ![s] = "done"]
  /\ UNCHANGED <<files, seen, turn, chunk, budget, got, gotPending, reset, retiringChanged, monitor, history>>

(* A read fails, the log is not a regular file, or Run cancels the monitor. *)
FollowFails(s) ==
  /\ Running /\ step[s] \notin {"idle", "done"} /\ outcome' = "failed"
  /\ UNCHANGED <<files, follower, batch, position, evidence, quietRounds, history>>

-----------------------------------------------------------------------------
(* observeReadinessRound *)

StartRound ==
  /\ Running /\ \A s \in Source : step[s] = "idle"
  /\ step' = [s \in Source |-> "first"] /\ before' = Snapshot
  /\ budget' = [s \in Source |-> Budget]
  /\ got' = [s \in Source |-> {}] /\ gotPending' = got'
  /\ reset' = [s \in Source |-> FALSE] /\ retiringChanged' = reset' /\ activity' = reset'
  /\ held' = [s \in Source |-> [held[s] EXCEPT !.more = FALSE]]
  /\ pending' = [s \in Source |-> [i \in DOMAIN pending[s] |-> [pending[s][i] EXCEPT !.fresh = FALSE, !.more = FALSE]]]
  /\ stale' = [s \in Source |-> IF held[s].file # 0 /\ ~held[s].current THEN cut[s][held[s].file] ELSE stale[s]]
  /\ UNCHANGED <<files, seen, turn, chunk, monitor, there, baseline, backed, mark>>

Batch(s) == got[s] \cup gotPending[s]
Kinds(lines) == {l.kind : l \in lines}
Required == UNION {Marker[s] : s \in Source}

More == \E s \in Source : held[s].more \/ \E i \in DOMAIN pending[s] : pending[s][i].more

(* reset, then observe *)
EvidenceNow ==
  UNION {(evidence \cap (IF reset[s] THEN {} ELSE Marker[s])) \cup (Marker[s] \cap Kinds(Batch(s))) : s \in Source}

(* Everything was seen, and nothing moved in this round. *)
Quiet ==
  /\ EvidenceNow = Required
  /\ ~More /\ \A s \in Source : pending[s] = <<>> /\ ~activity[s]

(* Faulty variant: readiness is announced with the last marker. *)
EndRoundAtOnce ==
  /\ Running /\ \A s \in Source : step[s] = "done"
  /\ step' = [s \in Source |-> "idle"]
  /\ evidence' = EvidenceNow /\ quietRounds' = 0
  /\ outcome' = IF \E s \in Source : Fatal \cap Kinds(Batch(s)) # {} THEN "failed"
                ELSE IF evidence' = Required THEN "announced" ELSE outcome
  /\ backed' = [s \in Source |-> backed[s] \cup {l \in Batch(s) : l.kind \in Marker[s]}]
  /\ UNCHANGED <<files, follower, batch, turn, chunk, there, baseline, before, mark, stale>>

EndRound ==
  /\ Running /\ \A s \in Source : step[s] = "done"
  /\ step' = [s \in Source |-> "idle"]
  /\ IF \E s \in Source : Fatal \cap Kinds(Batch(s)) # {}
     THEN outcome' = "failed" /\ UNCHANGED <<evidence, quietRounds, backed>>
     ELSE /\ evidence' = EvidenceNow
          /\ quietRounds' = IF Quiet THEN quietRounds + 1 ELSE 0
          /\ outcome' = IF quietRounds' = 2 THEN "announced" ELSE outcome
          /\ backed' = [s \in Source |-> backed[s] \cup {l \in Batch(s) : l.kind \in Marker[s]}]
  /\ UNCHANGED <<files, follower, batch, turn, chunk, there, baseline, before, mark, stale>>

-----------------------------------------------------------------------------
(* A log that is there already, of this run too, is read from its end on; one
   that is truncated just then is never read. *)
Init ==
  /\ scene \in Scenes
  /\ there \in [Source -> 0 .. 1] /\ path = there /\ made = there
  /\ baseline \in [Source -> 0 .. 1] /\ \A s \in Source : baseline[s] <= there[s]
  /\ content \in [Source -> [File -> {<<>>} \cup {<<k>> : k \in Required \cup Fatal}]]
  /\ \A s \in Source, f \in File : Size(s, f) = (IF f = 1 THEN baseline[s] ELSE 0)
  /\ cut = [s \in Source |-> [f \in File |-> 0]] /\ moves = [s \in Source |-> 0]
  /\ held \in [Source -> {NoFile} \cup {[NoFile EXCEPT !.file = 1, !.offset = n] : n \in 0 .. 1}]
  /\ \A s \in Source :
       (held[s] = NoFile /\ baseline[s] = 0) \/ (held[s].file = there[s] /\ held[s].offset = baseline[s])
  /\ seen = [s \in Source |-> 1 .. there[s]] /\ pending = [s \in Source |-> <<>>]
  /\ step = [s \in Source |-> "idle"] /\ turn = [s \in Source |-> 0] /\ chunk = [s \in Source |-> <<>>]
  /\ budget = [s \in Source |-> 0] /\ got = [s \in Source |-> {}] /\ gotPending = got
  /\ reset = [s \in Source |-> FALSE] /\ retiringChanged = reset /\ activity = reset
  /\ evidence = {} /\ quietRounds = 0 /\ outcome = "watching"
  /\ backed = [s \in Source |-> {}] /\ before = Snapshot /\ stale = [s \in Source |-> 0]
  /\ mark = [source |-> CHOOSE s \in Source : TRUE, file |-> 0, extent |-> Snapshot, moves |-> moves]

Game ==
  \E s \in Source :
    \/ Move(s)
    \/ \E f \in File : Truncate(s, f) \/ \E k \in Marker[s] \cup Fatal : Write(s, f, k)

Follow(s) == Look(s) \/ Keep(s) \/ Detect(s) \/ Adopt(s)

Watch == StartRound \/ EndRound \/ \E s \in Source : Follow(s)

Next ==
  /\ UNCHANGED scene
  /\ Game \/ Watch \/ \E s \in Source : FollowFails(s)

Spec == Init /\ [][Next]_vars

(* Rounds follow each other; a follower reads what it is asked to. *)
FairSpec == Spec /\ WF_vars(Watch /\ UNCHANGED scene)

-----------------------------------------------------------------------------
(* The monitor's variables keep to their values; no file is held twice, and what is
   held or pending has been seen. *)
TypeOK ==
  /\ evidence \subseteq Required /\ quietRounds \in 0 .. 2 /\ outcome \in {"watching", "announced", "failed"}
  /\ \A s \in Source :
       /\ step[s] \in Steps /\ budget[s] \in 0 .. Budget /\ held[s].file \in seen[s] \cup {0}
       /\ Len(pending[s]) <= MaxPending
       /\ \A i \in DOMAIN pending[s] : pending[s][i].file \in seen[s] \ {held[s].file}

(* Lines of a file that the follower has yet to read; all of one it has not seen. *)
Unread(s, f) ==
  LET readers == {r \in {held[s]} \cup ToSet(pending[s]) : r.file = f} IN
  IF f = 0 THEN {}
  ELSE {i \in 1 .. Size(s, f) : IF readers # {} THEN \E r \in readers : i > r.offset ELSE f \notin seen[s]}

(* ... that were there already in an earlier state of the files *)
Overdue(s, f, extent) == {i \in Unread(s, f) : i <= extent[s][f].size /\ extent[s][f].cut = cut[s][f]}

Announces == outcome = "watching" /\ outcome' = "announced"

(* The marker written last is among those that count. *)
Relied ==
  mark.file # 0 /\ LET at == mark.extent[mark.source][mark.file] IN
    \E l \in backed'[mark.source] : l.file = mark.file /\ l.cut = at.cut /\ l.at = at.size

(* When readiness rests on the last marker, whatever any log held when that was
   written has been read too, so a failure in one log before the last marker in
   another is never passed over: of a file that is followed, and of the one that
   has the name of the log since then. *)
NothingMissed ==
  [][Announces /\ Relied =>
       \A s \in Source :
         /\ Overdue(s, held[s].file, mark.extent) = {}
         /\ moves[s] = mark.moves[s] /\ path[s] # 0 => path[s] = held[s].file]_vars

(* A log in use is given up for its replacement only when what had been written to
   it before the round has been read, however fast the replacement fills. *)
DrainedBeforeRetired ==
  [][\A s \in Source : held'[s].file \notin {0, held[s].file} => Overdue(s, held[s].file, before) = {}]_vars

Fresh(s, l) == l.file = there[s] => l.cut >= stale[s] /\ (l.cut = 0 => l.at > baseline[s])

(* Each marker that counts for readiness was written after the follower was made,
   and not to a log that was there before and had been truncated, while it was
   followed, when the last round began. *)
EvidenceIsFresh ==
  [][Announces => \A s \in Source : \A m \in Marker[s] : \E l \in backed'[s] : l.kind = m /\ Fresh(s, l)]_vars

(* A failure that was in a log before the follower was made does not count. *)
OldFailuresIgnored ==
  \A s \in Source : \A l \in Batch(s) : l.kind \in Fatal => Fresh(s, l)

(* The log was created after the follower and holds every marker. *)
Complete == \A s \in Source : path[s] = made[s] /\ made[s] > there[s] /\ Marker[s] \subseteq ToSet(content[s][made[s]])

(* Once a log made after the follower holds all its markers, the monitor comes to
   a verdict without its deadline. *)
ReadyWhenComplete == <>[]Complete => <>(outcome # "watching")

(* That holds as long as the game leaves alone the logs that have lost their
   name. *)
ReadyUnlessCut == "cuts retired" \notin scene.habits => ReadyWhenComplete

=============================================================================
