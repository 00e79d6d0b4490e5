------------------------------ MODULE Lifetime ------------------------------
(***************************************************************************)
(* Containers that share mounts: the lifetime locks (state.go), the fence  *)
(* against a game that is recorded as running (run.go), the record of the  *)
(* game in state.json (process.go) and the health check (health.go).       *)
(*                                                                         *)
(* Every container has process IDs of its own, so the same ID means        *)
(* another process in another container.  When a controller ends, its      *)
(* container goes with everything in it, as under tini, or stays, as after *)
(* a docker exec: then a game it was not able to stop lives on.  The clock *)
(* ticks between any two starts of processes; a process that is dead but   *)
(* not yet waited for counts as dead, as in health.go.                     *)
(***************************************************************************)
EXTENDS Naturals, FiniteSets

CONSTANTS
  Container,
  Mount,        \* server and persistent-data directories of the host
  ServerMount, DataMount, \* the mounts of every container
  PID,          \* process IDs
  NoProcess,    \* no process identity
  MaxTicks      \* bound on starts of processes

ASSUME MountAssumption ==
  /\ ServerMount \in [Container -> Mount] /\ DataMount \in [Container -> Mount]
  /\ \A c, d \in Container : ServerMount[c] # DataMount[d]
ASSUME TicksAssumption == MaxTicks \in Nat /\ NoProcess \notin PID \X (1 .. MaxTicks)

VARIABLES
  pc,       \* the controller of a container
  held,     \* the mounts whose lock a container holds
  record,   \* Runtime in the state.json of a server mount
  game,     \* the Wine process of a container
  live,     \* the processes of a container, with their start ticks
  ticks,    \* the clock
  proven,   \* history: the games that have been ready
  seen,     \* what a health check has loaded
  verdict   \* what the last health check of a container said

vars == <<pc, held, record, game, live, ticks, proven, seen, verdict>>

NothingSeen == [ready |-> FALSE, server |-> NoProcess]

Free(m) == \A c \in Container : m \notin held[c]

At(c, from, to) == pc[c] = from /\ pc' = [pc EXCEPT ![c] = to]

(* The controller is gone, and perhaps the container. *)
End(c) ==
  /\ pc' = [pc EXCEPT ![c] = "down"]
  /\ held' = [held EXCEPT ![c] = {}] /\ game' = [game EXCEPT ![c] = NoProcess]
  /\ \/ /\ live' = [live EXCEPT ![c] = {}]
        /\ seen' = [seen EXCEPT ![c] = NothingSeen] /\ verdict' = [verdict EXCEPT ![c] = "none"]
     \/ live[c] # {} /\ UNCHANGED <<live, seen, verdict>>
  /\ UNCHANGED <<record, ticks, proven>>

Up(c) == pc[c] # "down" \/ live[c] # {}

(* A new process has an ID that is free and the present tick. *)
Spawn(c, p) ==
  /\ ticks < MaxTicks /\ ticks' = ticks + 1
  /\ \A q \in live[c] : q[1] # p
  /\ live' = [live EXCEPT ![c] = @ \cup {<<p, ticks + 1>>}]

-----------------------------------------------------------------------------
(* OpenLifetimeLock *)

Start(c) == At(c, "down", "starting") /\ UNCHANGED <<held, record, game, live, ticks, proven, seen, verdict>>

LockState(c) ==
  /\ At(c, "starting", "stateLocked") /\ Free(ServerMount[c])
  /\ held' = [held EXCEPT ![c] = @ \cup {ServerMount[c]}]
  /\ UNCHANGED <<record, game, live, ticks, proven, seen, verdict>>

(* Faulty variant: goes on with the state locked alone. *)
LockDataOptional(c) ==
  /\ At(c, "stateLocked", "locked")
  /\ held' = [held EXCEPT ![c] = @ \cup IF Free(DataMount[c]) THEN {DataMount[c]} ELSE {}]
  /\ UNCHANGED <<record, game, live, ticks, proven, seen, verdict>>

LockData(c) ==
  /\ At(c, "stateLocked", "locked") /\ Free(DataMount[c])
  /\ held' = [held EXCEPT ![c] = @ \cup {DataMount[c]}]
  /\ UNCHANGED <<record, game, live, ticks, proven, seen, verdict>>

(* A lock is not waited for: the run ends. *)
LockTaken(c) ==
  /\ \/ pc[c] = "starting" /\ ~Free(ServerMount[c])
     \/ pc[c] = "stateLocked" /\ ~Free(DataMount[c])
  /\ End(c)

-----------------------------------------------------------------------------
(* fencePriorProcess *)

(* Faulty variant: a process is known by its ID alone. *)
MatchesID(c, id) == id # NoProcess /\ \E q \in live[c] : q[1] = id[1]

Matches(c, id) == id \in live[c]

Recorded(c) == record[ServerMount[c]]

(* A runtime that is ready without a process is refused. *)
Incoherent(c) == Recorded(c).ready /\ Recorded(c).server = NoProcess

(* Faulty variant: does not ask whether the recorded process is alive. *)
FenceBlind(c) ==
  /\ At(c, "locked", "fenced") /\ ~Incoherent(c)
  /\ record' = [record EXCEPT ![ServerMount[c]] = NothingSeen]
  /\ UNCHANGED <<held, game, live, ticks, proven, seen, verdict>>

Fence(c) ==
  /\ At(c, "locked", "fenced") /\ ~Matches(c, Recorded(c).server) /\ ~Incoherent(c)
  /\ record' = [record EXCEPT ![ServerMount[c]] = NothingSeen]
  /\ UNCHANGED <<held, game, live, ticks, proven, seen, verdict>>

Fenced(c) ==
  /\ pc[c] = "locked" /\ (Matches(c, Recorded(c).server) \/ Incoherent(c))
  /\ End(c)

-----------------------------------------------------------------------------
(* Supervisor.Run *)

StartWine(c, p) ==
  /\ At(c, "fenced", "spawned") /\ Spawn(c, p)
  /\ game' = [game EXCEPT ![c] = <<p, ticks + 1>>]
  /\ UNCHANGED <<held, record, proven, seen, verdict>>

RecordStarting(c) ==
  /\ At(c, "spawned", "waiting")
  /\ record' = [record EXCEPT ![ServerMount[c]] = [ready |-> FALSE, server |-> game[c]]]
  /\ UNCHANGED <<held, game, live, ticks, proven, seen, verdict>>

(* Both processes are verified to be alive. *)
Verify(c) ==
  /\ At(c, "waiting", "verified") /\ game[c] \in live[c]
  /\ UNCHANGED <<held, record, game, live, ticks, proven, seen, verdict>>

RecordReady(c) ==
  /\ At(c, "verified", "serving")
  /\ record' = [record EXCEPT ![ServerMount[c]].ready = TRUE]
  /\ proven' = proven \cup {<<c, game[c]>>}
  /\ UNCHANGED <<held, game, live, ticks, seen, verdict>>

(* The deferred end of Run: Phase is stopped and Ready is false, unless
   saving fails; the identity stays. *)
RecordStopped(c) ==
  /\ pc[c] \in {"waiting", "verified", "serving"} /\ pc' = [pc EXCEPT ![c] = "ending"]
  /\ live' = [live EXCEPT ![c] = @ \ {game[c]}]
  /\ record' \in {record, [record EXCEPT ![ServerMount[c]].ready = FALSE]}
  /\ UNCHANGED <<held, game, ticks, proven, seen, verdict>>

(* Run returns at any point before or after the game, or everything is killed. *)
Exit(c) == pc[c] # "down" /\ End(c)

-----------------------------------------------------------------------------
(* CheckHealth, a process of its own *)

LoadState(c) ==
  /\ Up(c) /\ seen' = [seen EXCEPT ![c] = Recorded(c)]
  /\ verdict' = [verdict EXCEPT ![c] = "none"]
  /\ UNCHANGED <<pc, held, record, game, live, ticks, proven>>

Judge(c) ==
  /\ Up(c) /\ seen[c] # NothingSeen
  /\ verdict' = [verdict EXCEPT ![c] = IF seen[c].ready /\ Matches(c, seen[c].server) THEN "healthy" ELSE "unhealthy"]
  /\ seen' = [seen EXCEPT ![c] = NothingSeen]
  /\ UNCHANGED <<pc, held, record, game, live, ticks, proven>>

-----------------------------------------------------------------------------
(* A game dies; other processes come and go. *)
Die(c, q) ==
  /\ q \in live[c] /\ live' = [live EXCEPT ![c] = @ \ {q}]
  /\ UNCHANGED <<pc, held, record, game, ticks, proven, seen, verdict>>

Other(c, p) ==
  /\ Up(c) /\ Spawn(c, p) /\ UNCHANGED <<pc, held, record, game, proven, seen, verdict>>

Init ==
  /\ pc = [c \in Container |-> "down"] /\ held = [c \in Container |-> {}]
  /\ record = [m \in {ServerMount[c] : c \in Container} |-> NothingSeen]
  /\ game = [c \in Container |-> NoProcess] /\ live = [c \in Container |-> {}]
  /\ ticks = 0 /\ proven = {} /\ seen = [c \in Container |-> NothingSeen]
  /\ verdict = [c \in Container |-> "none"]

Step(c) ==
  \/ Start(c) \/ LockState(c) \/ LockData(c) \/ LockTaken(c) \/ Fence(c) \/ Fenced(c)
  \/ RecordStarting(c) \/ Verify(c) \/ RecordReady(c) \/ RecordStopped(c) \/ Exit(c)
  \/ LoadState(c) \/ Judge(c)
  \/ (\E p \in PID : StartWine(c, p) \/ Other(c, p)) \/ \E q \in live[c] : Die(c, q)

Next == \E c \in Container : Step(c)

Spec == Init /\ [][Next]_vars

-----------------------------------------------------------------------------
Identities == PID \X (1 .. MaxTicks)
Runtimes == [ready : BOOLEAN, server : Identities \cup {NoProcess}]

PastLocks == {"locked", "fenced", "spawned", "waiting", "verified", "serving", "ending"}
PCs == PastLocks \cup {"down", "starting", "stateLocked"}

(* Every variable keeps to its values. *)
TypeOK ==
  /\ pc \in [Container -> PCs] /\ held \in [Container -> SUBSET Mount]
  /\ record \in [{ServerMount[c] : c \in Container} -> Runtimes]
  /\ game \in [Container -> Identities \cup {NoProcess}]
  /\ live \in [Container -> SUBSET Identities] /\ ticks \in 0 .. MaxTicks
  /\ proven \subseteq Container \X Identities /\ seen \in [Container -> Runtimes]
  /\ verdict \in [Container -> {"none", "healthy", "unhealthy"}]

(* Two controllers past the locks share neither the server nor the data mount. *)
MountsExclusive ==
  \A c, d \in Container : c # d /\ pc[c] \in PastLocks /\ pc[d] \in PastLocks =>
    ServerMount[c] # ServerMount[d] /\ DataMount[c] # DataMount[d]

(* When a container is found healthy, a game of this container that has been
   ready is alive at that moment: neither what an earlier run left in
   state.json, nor the record of another container on the same mount, nor a
   reused process ID can make it so. *)
HealthyMeansServing ==
  [][\A c \in Container : verdict[c] # "healthy" /\ verdict'[c] = "healthy" =>
       \E q \in live[c] : <<c, q>> \in proven]_vars

(* In a container that shares its server mount with no other, a game that was
   ready and outlived its controller is never joined by a second one. *)
OneGame ==
  \A c \in Container :
    (\A d \in Container \ {c} : ServerMount[d] # ServerMount[c]) =>
      Cardinality({q \in live[c] : <<c, q>> \in proven}) <= 1

=============================================================================
